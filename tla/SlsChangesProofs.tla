--------------------------- MODULE SlsChangesProofs ---------------------------
(***************************************************************************)
(* Proofs about the scripts that change SLS, for every file, command line  *)
(* and number of runs.                                                     *)
(*                                                                         *)
(* NID defragmentation: a run that ends well leaves consecutive NIDs in    *)
(* order, no run touches the NID of a node that it was not given, and NIDs *)
(* stay unique as long as no deletion fails.                               *)
(* The upgrade, the move to the CHN and the addresses of UANs: users are   *)
(* never routed to a network that is not in SLS, the blocks of a network   *)
(* that is being cloned partition it, customer networks keep to one VLAN   *)
(* each, the CMN has the addresses that it is asked to keep, and a UAN has *)
(* an address of all networks or of none.                                  *)
(* Cabinets: their subnets stay apart, and so do their VLANs and nodes.    *)
(*                                                                         *)
(* The scripts go through lists with folds, so most of it rests on one     *)
(* lemma: a fold has values, one per element of the list, and what each    *)
(* step keeps holds of the last of them.                                   *)
(***************************************************************************)
EXTENDS SlsChangesInvariants, FiniteSetTheorems, SequenceTheorems, WellFoundedInduction, TLAPS

-----------------------------------------------------------------------------
(* The order of the nodes.                                                 *)

\* Positions are numbers.
LEMMA OrderIsSequence == Len(Order) \in Nat /\ DOMAIN Order = 1..Len(Order)
  BY DefragmentNidsAssumption

\* There are finitely many nodes.
LEMMA NodesAreFinite == IsFiniteSet(Node)
<1>1. Order \in Surjection(1..Len(Order), Node)
  BY DefragmentNidsAssumption, OrderIsSequence DEF Node, Surjection
<1>2. IsFiniteSet(1..Len(Order))
  BY FS_Interval, OrderIsSequence
<1>. QED BY <1>1, <1>2, FS_Surjection

\* The order is strict and total.
LEMMA BeforeIsOrder ==
    /\ \A n \in Node : ~Before(n, n)
    /\ \A m, n \in Node : m = n \/ Before(m, n) \/ Before(n, m)
    /\ \A k, m, n \in Node : Before(k, m) /\ Before(m, n) => Before(k, n)
<1>. USE OrderIsSequence
<1>1. ASSUME NEW n \in Node PROVE ~Before(n, n)
  BY DefragmentNidsAssumption DEF Before
<1>2. ASSUME NEW m \in Node, NEW n \in Node PROVE m = n \/ Before(m, n) \/ Before(n, m)
  <2>1. PICK i \in DOMAIN Order, j \in DOMAIN Order : Order[i] = m /\ Order[j] = n
    BY DEF Node
  <2>2. i = j \/ i < j \/ j < i
    OBVIOUS
  <2>. QED BY <2>1, <2>2 DEF Before
<1>3. ASSUME NEW k \in Node, NEW m \in Node, NEW n \in Node, Before(k, m), Before(m, n)
      PROVE  Before(k, n)
  <2>1. PICK i \in DOMAIN Order, j \in DOMAIN Order : i < j /\ Order[i] = k /\ Order[j] = m
    BY <1>3 DEF Before
  <2>2. PICK p \in DOMAIN Order, q \in DOMAIN Order : p < q /\ Order[p] = m /\ Order[q] = n
    BY <1>3 DEF Before
  <2>3. j = p
    BY <2>1, <2>2, DefragmentNidsAssumption
  <2>4. i < q
    BY <2>1, <2>2, <2>3
  <2>. QED BY <2>1, <2>2, <2>4 DEF Before
<1>. QED BY <1>1, <1>2, <1>3

-----------------------------------------------------------------------------
(* The numbers of a set of nodes.                                          *)

\* The nodes of ws that come before n: NewNID counts them.
Earlier(ws, n) == {m \in ws : Before(m, n)}

\* There are fewer of them than nodes.
LEMMA EarlierIsSmaller ==
    ASSUME NEW ws \in SUBSET Node, NEW n \in ws
    PROVE  /\ Cardinality(Earlier(ws, n)) \in Nat /\ Cardinality(ws) \in Nat
           /\ Cardinality(Earlier(ws, n)) < Cardinality(ws)
<1>1. IsFiniteSet(ws)
  BY NodesAreFinite, FS_Subset
<1>2. Earlier(ws, n) \in SUBSET ws /\ Earlier(ws, n) # ws
  BY BeforeIsOrder DEF Earlier
<1>3. /\ IsFiniteSet(Earlier(ws, n))
      /\ Cardinality(Earlier(ws, n)) <= Cardinality(ws)
      /\ Cardinality(ws) # Cardinality(Earlier(ws, n))
  BY <1>1, <1>2, FS_Subset
<1>4. Cardinality(ws) \in Nat /\ Cardinality(Earlier(ws, n)) \in Nat
  BY <1>1, <1>3, FS_CardinalityType
<1>. QED BY <1>3, <1>4

\* A later node has more of them.
LEMMA EarlierGrows ==
    ASSUME NEW ws \in SUBSET Node, NEW m \in ws, NEW n \in ws, Before(m, n)
    PROVE  Cardinality(Earlier(ws, m)) < Cardinality(Earlier(ws, n))
<1>1. IsFiniteSet(Earlier(ws, n))
  BY NodesAreFinite, FS_Subset DEF Earlier
<1>2. Earlier(ws, m) \in SUBSET Earlier(ws, n)
  <2>. SUFFICES ASSUME NEW k \in ws, Before(k, m) PROVE Before(k, n)
    BY DEF Earlier
  <2>. k \in Node /\ m \in Node /\ n \in Node
    OBVIOUS
  <2>. QED BY BeforeIsOrder
<1>3. Earlier(ws, m) # Earlier(ws, n)
  <2>1. m \in Earlier(ws, n) /\ m \notin Earlier(ws, m)
    BY BeforeIsOrder DEF Earlier
  <2>. QED BY <2>1
<1>4. /\ Cardinality(Earlier(ws, m)) <= Cardinality(Earlier(ws, n))
      /\ Cardinality(Earlier(ws, n)) # Cardinality(Earlier(ws, m))
  BY <1>1, <1>2, <1>3, FS_Subset
<1>5. Cardinality(Earlier(ws, m)) \in Nat /\ Cardinality(Earlier(ws, n)) \in Nat
  BY EarlierIsSmaller
<1>. QED BY <1>4, <1>5

\* What NewNID gives the nodes of the block: NIDs of the block, in order.
LEMMA NewNIDs ==
    ASSUME workingNodeList \subseteq Node, startingNID \in Nid
    PROVE  /\ \A n \in workingNodeList : NewNID(n) \in Block(startingNID, workingNodeList)
           /\ \A m, n \in workingNodeList : Before(m, n) => NewNID(m) < NewNID(n)
           /\ \A m, n \in workingNodeList : NewNID(m) = NewNID(n) => m = n
<1>. startingNID \in Nat
  BY DefragmentNidsAssumption DEF Nid
<1>1. \A n \in workingNodeList : NewNID(n) = startingNID + Cardinality(Earlier(workingNodeList, n))
  BY DEF NewNID, Earlier
<1>2. ASSUME NEW n \in workingNodeList PROVE NewNID(n) \in Block(startingNID, workingNodeList)
  BY <1>1, EarlierIsSmaller DEF Block
<1>3. ASSUME NEW m \in workingNodeList, NEW n \in workingNodeList, Before(m, n)
      PROVE  NewNID(m) < NewNID(n)
  <2>1. Cardinality(Earlier(workingNodeList, m)) < Cardinality(Earlier(workingNodeList, n))
    BY <1>3, EarlierGrows
  <2>2. /\ Cardinality(Earlier(workingNodeList, m)) \in Nat
        /\ Cardinality(Earlier(workingNodeList, n)) \in Nat
    BY EarlierIsSmaller
  <2>. QED BY <1>1, <2>1, <2>2
<1>4. ASSUME NEW m \in workingNodeList, NEW n \in workingNodeList, NewNID(m) = NewNID(n)
      PROVE  m = n
  <2>1. NewNID(m) \in Nat /\ NewNID(n) \in Nat
    BY <1>1, EarlierIsSmaller
  <2>2. ~Before(m, n) /\ ~Before(n, m)
    BY <1>3, <1>4, <2>1
  <2>. QED BY <2>2, BeforeIsOrder
<1>. QED BY <1>2, <1>3, <1>4

\* And every NID of the block.
LEMMA NewNIDsFillTheBlock ==
    ASSUME workingNodeList \subseteq Node, startingNID \in Nid
    PROVE  {NewNID(n) : n \in workingNodeList} = Block(startingNID, workingNodeList)
<1> DEFINE block == Block(startingNID, workingNodeList)
           f == [n \in workingNodeList |-> NewNID(n)]
<1>1. IsFiniteSet(workingNodeList) /\ Cardinality(workingNodeList) \in Nat
  BY NodesAreFinite, FS_Subset, FS_CardinalityType
<1>2. IsFiniteSet(block) /\ Cardinality(block) = Cardinality(workingNodeList)
  <2>. startingNID \in Int /\ startingNID + Cardinality(workingNodeList) - 1 \in Int
    BY <1>1, DefragmentNidsAssumption DEF Nid
  <2>. QED BY <1>1, FS_Interval DEF Block
<1>3. f \in Injection(workingNodeList, block)
  BY NewNIDs DEF Injection, IsInjective
<1>4. f \in Surjection(workingNodeList, block)
  <2>. HIDE DEF f, block
  <2>. QED BY <1>1, <1>2, <1>3, FS_Injection
<1>5. \A x \in block : \E n \in workingNodeList : f[n] = x
  BY <1>4 DEF Surjection
<1>6. {NewNID(n) : n \in workingNodeList} \subseteq block
  BY NewNIDs
<1>. QED BY <1>5, <1>6

-----------------------------------------------------------------------------
(* Types, and what a run has done so far.                                  *)

\* The plan is what NewNID and the other operators on it read.
LEMMA SamePlan ==
    ASSUME UNCHANGED plan
    PROVE  /\ \A n : NewNID(n)' = NewNID(n)
           /\ hsmDeleteList' = hsmDeleteList
           /\ startingNID' = startingNID /\ allowedNodes' = allowedNodes
           /\ workingNodeList' = workingNodeList
           /\ Block(startingNID, workingNodeList)' = Block(startingNID, workingNodeList)
  BY DEF plan, NewNID, hsmDeleteList, Block

\* At first there is no run.
LEMMA InitIInv == Init => IInv
  BY DefragmentNidsAssumption DEF Init, IInv, Shape, TypeOK, PlanHolds, Written, Numbering, Records

\* The plan is made for a block that is free.
LEMMA StartIInv ==
    ASSUME IInv, NEW includes \in SUBSET Node, NEW start \in Nid, Start(includes, start)
    PROVE  IInv'
<1> DEFINE allowed == {n \in includes : hsmNid[n] # NoNid}
           working == nodeList(allowed)
<1>1. /\ pc' = "delete_sls" /\ call' = 1 /\ runs < MaxRuns /\ runs' = runs + 1
      /\ startingNID' = start /\ allowedNodes' = allowed /\ workingNodeList' = working
      /\ Block(start, working) \subseteq Nid /\ BlockIsFree(start, allowed, working)
      /\ todo' = slsDeleteList(start, allowed, working)
      /\ UNCHANGED <<hsm, slsNid, disabled>>
  BY DEF Start
<1>2. working \subseteq allowed /\ allowed \subseteq Node /\ todo' \subseteq Node
  BY <1>1 DEF nodeList, slsDeleteList
<1>. HIDE DEF allowed, working
<1>3. TypeOK'
  BY <1>1, <1>2, DefragmentNidsAssumption DEF IInv, Shape, TypeOK, hsm, Records
<1>4. PlanHolds'
  BY <1>1, <1>2 DEF PlanHolds, BlockIsFree, Block, hsm
<1>5. Written'
  BY <1>1 DEF Written
<1>. QED BY <1>1, <1>3, <1>4, <1>5 DEF IInv, Shape

\* A run that ends without success leaves what it wrote.
LEMMA AbortIInv == IInv /\ Abort => IInv'
  BY DEF IInv, Shape, TypeOK, PlanHolds, Written, Abort, hsm, Records

\* Deleting SLS entries.
LEMMA deleteSLSCompIInv == IInv /\ deleteSLSComp => IInv'
<1>. SUFFICES ASSUME IInv, deleteSLSComp PROVE IInv'
  OBVIOUS
<1>1. Shape'
  <2>1. UNCHANGED <<hsmNid, endpoint, model, eth, disabled, pc, call, runs>> /\ UNCHANGED plan
    BY DEF deleteSLSComp, hsm
  <2>2. TypeOK'
    BY <2>1 DEF IInv, Shape, TypeOK, deleteSLSComp, plan
  <2>3. PlanHolds'
    BY <2>1, SamePlan DEF IInv, Shape, PlanHolds, BlockIsFree
  <2>. QED BY <2>1, <2>2, <2>3 DEF IInv, Shape, deleteSLSComp
<1>2. Written'
  BY DEF deleteSLSComp, Written
<1>. QED BY <1>1, <1>2 DEF IInv

\* Deleting a leftover disturbs no node but the one whose records are deleted.
LEMMA RemoveFromHsmChanges ==
    ASSUME IInv, RemoveFromHsm
    PROVE  /\ pc = "remove" /\ pc' = pc /\ UNCHANGED <<slsNid, disabled, runs>> /\ UNCHANGED plan
           /\ \E n \in todo :
                /\ \A m \in todo : ~Before(m, n)
                /\ \/ /\ call = 1 /\ call' = 2 /\ todo' = todo
                      /\ hsmNid' = [hsmNid EXCEPT ![n] = NoNid]
                   \/ call > 1 /\ hsmNid' = hsmNid /\ call' = call + 1 /\ call < 4 /\ todo' = todo
                   \/ call > 1 /\ hsmNid' = hsmNid /\ call' = 1 /\ todo' = todo \ {n}
                   \/ DeleteFails /\ hsmNid' = hsmNid /\ call' = 1 /\ todo' = todo \ {n}
           /\ endpoint' \subseteq Node /\ eth' \subseteq Node /\ DOMAIN model' = Node
<1>1. PICK n \in todo :
        /\ \A m \in todo : ~Before(m, n)
        /\ \/ /\ hsmNid' = [hsmNid EXCEPT ![n] = IF Records[call] = "component" THEN NoNid ELSE @]
              /\ endpoint' = IF Records[call] = "endpoint" THEN endpoint \ {n} ELSE endpoint
              /\ model' = [model EXCEPT ![n] = IF Records[call] = "hwloc" THEN NoModel ELSE @]
              /\ eth' = IF Records[call] = "eth" THEN eth \ {n} ELSE eth
              /\ IF call < Len(Records) THEN call' = call + 1 /\ UNCHANGED todo
                                        ELSE call' = 1 /\ todo' = todo \ {n}
           \/ DeleteFails /\ call' = 1 /\ todo' = todo \ {n} /\ UNCHANGED hsm
  BY DEF RemoveFromHsm
<1>2. /\ Len(Records) = 4 /\ call \in 1..4
      /\ Records[call] = "component" <=> call = 1
  BY DEF IInv, Shape, TypeOK, Records
<1>3. /\ hsmNid \in [Node -> Nid \cup {NoNid}] /\ n \in Node /\ DOMAIN model = Node
      /\ endpoint \subseteq Node /\ eth \subseteq Node
  BY DEF IInv, Shape, TypeOK
<1>4. \/ /\ call = 1 /\ call' = 2 /\ todo' = todo
         /\ hsmNid' = [hsmNid EXCEPT ![n] = NoNid]
      \/ call > 1 /\ hsmNid' = hsmNid /\ call' = call + 1 /\ call < 4 /\ todo' = todo
      \/ call > 1 /\ hsmNid' = hsmNid /\ call' = 1 /\ todo' = todo \ {n}
      \/ DeleteFails /\ hsmNid' = hsmNid /\ call' = 1 /\ todo' = todo \ {n}
  BY <1>1, <1>2, <1>3 DEF hsm
<1>5. endpoint' \subseteq Node /\ eth' \subseteq Node /\ DOMAIN model' = Node
  BY <1>1, <1>3 DEF hsm
<1>. QED BY <1>1, <1>4, <1>5 DEF RemoveFromHsm

\* Hence it deletes NIDs of included nodes only, and the plan still holds.
LEMMA RemoveFromHsmIInv == IInv /\ RemoveFromHsm => IInv'
<1>. SUFFICES ASSUME IInv, RemoveFromHsm PROVE IInv'
  OBVIOUS
<1>1. PICK n \in todo :
        /\ hsmNid' = [hsmNid EXCEPT ![n] = NoNid] \/ hsmNid' = hsmNid
        /\ todo' = todo \/ todo' = todo \ {n}
        /\ call' \in 1..4
  BY RemoveFromHsmChanges DEF IInv, Shape, TypeOK, Records
<1>2. n \in Node /\ hsmNid \in [Node -> Nid \cup {NoNid}] /\ n \in hsmDeleteList
  BY RemoveFromHsmChanges DEF IInv, Shape, TypeOK
<1>3. TypeOK'
  <2>1. hsmNid' \in [Node -> Nid \cup {NoNid}] /\ todo' \subseteq Node /\ call' \in DOMAIN Records
    BY <1>1, <1>2 DEF IInv, Shape, TypeOK, Records
  <2>. QED BY <2>1, RemoveFromHsmChanges DEF IInv, Shape, TypeOK, plan
<1>4. PlanHolds'
  <2>1. \A m \in Node \ allowedNodes : hsmNid'[m] = hsmNid[m]
    BY <1>1, <1>2 DEF hsmDeleteList
  <2>. QED BY <2>1, RemoveFromHsmChanges, SamePlan DEF IInv, Shape, PlanHolds, BlockIsFree
<1>5. Shape'
  BY <1>1, <1>3, <1>4, RemoveFromHsmChanges, SamePlan DEF IInv, Shape
<1>6. Written'
  BY RemoveFromHsmChanges DEF Written
<1>. QED BY <1>5, <1>6 DEF IInv

\* The entries that have been PUT have the NIDs of the plan.
LEMMA putSLSCompIInv == IInv /\ putSLSComp => IInv'
<1>. SUFFICES ASSUME IInv, ~Abort, putSLSComp PROVE IInv'
  BY AbortIInv
<1>1. PICK n \in todo : todo' = todo \ {n} /\ slsNid' = [slsNid EXCEPT ![n] = NewNID(n)]
  BY DEF putSLSComp
<1>2. /\ pc = "put_sls" /\ pc' = pc
      /\ UNCHANGED <<hsmNid, endpoint, model, eth, disabled, call, runs>> /\ UNCHANGED plan
  BY DEF putSLSComp, hsm
<1>3. /\ n \in workingNodeList /\ n \in Node /\ workingNodeList \subseteq Node
      /\ slsNid \in [Node -> Nid \cup {NoNid}] /\ startingNID \in Nid
      /\ Block(startingNID, workingNodeList) \subseteq Nid
  BY <1>2 DEF IInv, Shape, TypeOK, PlanHolds
<1>4. NewNID(n) \in Nid
  BY <1>3, NewNIDs
<1>5. TypeOK'
  BY <1>1, <1>2, <1>3, <1>4 DEF IInv, Shape, TypeOK, plan
<1>6. PlanHolds'
  BY <1>2, SamePlan DEF IInv, Shape, PlanHolds, BlockIsFree
<1>7. Shape'
  BY <1>1, <1>2, <1>5, <1>6, SamePlan DEF IInv, Shape
<1>8. Written'
  BY <1>1, <1>2, <1>3, SamePlan DEF IInv, Written
<1>. QED BY <1>7, <1>8 DEF IInv

\* A loop that is over has written all of its entries.
LEMMA NextPhaseIInv == IInv /\ NextPhase => IInv'
<1>. SUFFICES ASSUME IInv, NextPhase PROVE IInv'
  OBVIOUS
<1>1. /\ UNCHANGED <<hsmNid, endpoint, model, eth, slsNid, disabled, call, runs>>
      /\ UNCHANGED plan
  BY DEF NextPhase, hsm
<1>2. /\ todo = {}
      /\ \/ pc = "delete_sls" /\ pc' = "remove"  /\ todo' = hsmDeleteList
         \/ pc = "remove"     /\ pc' = "put_sls" /\ todo' = workingNodeList
         \/ pc = "put_sls"    /\ pc' = "patch"   /\ todo' = {}
  BY DEF NextPhase
<1>3. hsmDeleteList \subseteq Node /\ workingNodeList \subseteq Node
  BY DEF IInv, Shape, TypeOK, hsmDeleteList
<1>4. TypeOK'
  BY <1>1, <1>2, <1>3 DEF IInv, Shape, TypeOK, plan
<1>5. PlanHolds'
  BY <1>1, <1>2, SamePlan DEF IInv, Shape, PlanHolds, BlockIsFree
<1>6. Shape'
  BY <1>1, <1>2, <1>4, <1>5, SamePlan DEF IInv, Shape
<1>7. Written'
  BY <1>1, <1>2, SamePlan DEF IInv, Written
<1>. QED BY <1>6, <1>7 DEF IInv

\* The PATCH of HSM gives the nodes of the block the NIDs of the plan.
LEMMA patchHSMNIDsIInv == IInv /\ patchHSMNIDs => IInv'
<1>. SUFFICES ASSUME IInv, ~Abort, patchHSMNIDs PROVE IInv'
  BY AbortIInv
<1>1. /\ hsmNid' = [n \in Node |-> IF n \in workingNodeList THEN NewNID(n) ELSE hsmNid[n]]
      /\ pc = "patch" /\ pc' = "post"
      /\ UNCHANGED <<endpoint, model, eth, slsNid, disabled, todo, call, runs>> /\ UNCHANGED plan
  BY DEF patchHSMNIDs
<1>2. /\ workingNodeList \subseteq allowedNodes /\ workingNodeList \subseteq Node
      /\ hsmNid \in [Node -> Nid \cup {NoNid}] /\ startingNID \in Nid
      /\ Block(startingNID, workingNodeList) \subseteq Nid
  BY <1>1 DEF IInv, Shape, TypeOK, PlanHolds
<1>3. \A n \in workingNodeList : NewNID(n) \in Nid
  BY <1>2, NewNIDs
<1>4. TypeOK'
  <2>1. hsmNid' \in [Node -> Nid \cup {NoNid}]
    BY <1>1, <1>2, <1>3
  <2>. QED BY <1>1, <2>1 DEF IInv, Shape, TypeOK, plan
<1>5. PlanHolds'
  BY <1>1, <1>2, SamePlan DEF IInv, Shape, PlanHolds, BlockIsFree
<1>6. Shape'
  BY <1>1, <1>4, <1>5 DEF IInv, Shape
<1>7. Written'
  BY <1>1, <1>2, SamePlan DEF IInv, Written
<1>. QED BY <1>6, <1>7 DEF IInv

\* Setting the classes ends the run.
LEMMA postHSMCompsIInv == IInv /\ postHSMComps => IInv'
<1>. SUFFICES ASSUME IInv, ~Abort, postHSMComps PROVE IInv'
  BY AbortIInv
<1>1. /\ pc = "post" /\ pc' = "done"
      /\ UNCHANGED <<hsmNid, endpoint, model, eth, slsNid, disabled, todo, call, runs>>
      /\ UNCHANGED plan
  BY DEF postHSMComps, hsm
<1>2. TypeOK'
  BY <1>1 DEF IInv, Shape, TypeOK, plan
<1>3. PlanHolds'
  BY <1>1, SamePlan DEF IInv, Shape, PlanHolds, BlockIsFree
<1>4. Written'
  BY <1>1, SamePlan DEF IInv, Written
<1>. QED BY <1>1, <1>2, <1>3, <1>4 DEF IInv, Shape

\* Nothing happens.
LEMMA StutterIInv == IInv /\ UNCHANGED vars => IInv'
  BY SamePlan DEF vars, hsm, plan, IInv, Shape, TypeOK, PlanHolds, BlockIsFree, Written

\* Every step preserves the invariant.
LEMMA NextIInv == IInv /\ [Next]_vars => IInv'
  BY StartIInv, deleteSLSCompIInv, RemoveFromHsmIInv, putSLSCompIInv, NextPhaseIInv,
     patchHSMNIDsIInv, postHSMCompsIInv, AbortIInv, StutterIInv DEF Next, Interrupt

\* The invariant holds in every state.
LEMMA SpecIInv == Spec => []IInv
  BY InitIInv, NextIInv, PTL DEF Spec

-----------------------------------------------------------------------------
(* What a run promises.                                                    *)

\* The variables keep their types: no NID that is written is out of range.
THEOREM TypeCorrect == Spec => []TypeOK
<1>1. IInv => TypeOK
  BY DEF IInv, Shape
<1>. QED BY <1>1, SpecIInv, PTL

\* A run that ends well has given the nodes that it kept all NIDs of the block,
\* in lexicographic order, in HSM and in SLS alike, even if deletions failed or
\* earlier runs were interrupted.
THEOREM RunsDefragment == Spec => []Defragmented
<1>1. IInv => Defragmented
  <2>. SUFFICES ASSUME IInv, pc = "done"
                PROVE  /\ {hsmNid[n] : n \in workingNodeList}
                            = Block(startingNID, workingNodeList)
                       /\ \A m, n \in workingNodeList : Before(m, n) => hsmNid[m] < hsmNid[n]
                       /\ \A n \in workingNodeList : slsNid[n] = hsmNid[n]
    BY DEF Defragmented
  <2>1. \A n \in workingNodeList : hsmNid[n] = NewNID(n) /\ slsNid[n] = NewNID(n)
    BY DEF IInv, Written
  <2>2. workingNodeList \subseteq Node /\ startingNID \in Nid
    BY DEF IInv, Shape, TypeOK, PlanHolds
  <2>3. {hsmNid[n] : n \in workingNodeList} = {NewNID(n) : n \in workingNodeList}
    BY <2>1
  <2>. QED BY <2>1, <2>2, <2>3, NewNIDs, NewNIDsFillTheBlock
<1>. QED BY <1>1, SpecIInv, PTL

\* No run, however it ends, changes the NID of a component that it was not
\* given: deletions and the PATCH are confined to the allowed nodes.
THEOREM OthersAreKept == Spec => OthersKeepTheirNids
<1>1. IInv /\ [Next]_vars => [\A n \in Node : hsmNid'[n] # hsmNid[n] => n \in allowedNodes]_vars
  <2>. SUFFICES ASSUME IInv, Next, NEW n \in Node, hsmNid'[n] # hsmNid[n]
                PROVE  n \in allowedNodes
    OBVIOUS
  <2>1. RemoveFromHsm \/ patchHSMNIDs
    BY DEF Next, Start, deleteSLSComp, putSLSComp, NextPhase, postHSMComps, Interrupt,
           Abort, hsm
  <2>2. CASE RemoveFromHsm
    <3>1. /\ pc = "remove"
          /\ \E m \in todo : hsmNid' = [hsmNid EXCEPT ![m] = NoNid] \/ hsmNid' = hsmNid
      BY <2>2, RemoveFromHsmChanges
    <3>2. n \in todo
      BY <3>1 DEF IInv, Shape, TypeOK
    <3>. QED BY <3>1, <3>2 DEF IInv, Shape, hsmDeleteList
  <2>3. CASE patchHSMNIDs
    <3>1. n \in workingNodeList
      BY <2>3 DEF patchHSMNIDs, Abort, hsm
    <3>. QED BY <3>1 DEF IInv, Shape, TypeOK
  <2>. QED BY <2>1, <2>2, <2>3
<1>. QED BY <1>1, SpecIInv, PTL DEF Spec, OthersKeepTheirNids

-----------------------------------------------------------------------------
(* NIDs are unique when no deletion fails.                                 *)

\* At first the NIDs are those of HSM.
LEMMA InitUInv == Init => UInv
  BY DEF Init, UInv, HsmNidsUnique, LeftoversRemoved, Numbering

\* The first deletion is that of the component, with its NID; the others come
\* while the same leftover is the first of those that remain.
LEMMA RemoveFromHsmUInv ==
    ASSUME IInv, UInv, RemoveFromHsm, ~DeleteFails
    PROVE  UInv'
<1>1. PICK n \in todo :
        /\ \A m \in todo : ~Before(m, n)
        /\ \/ /\ call = 1 /\ call' = 2 /\ todo' = todo
              /\ hsmNid' = [hsmNid EXCEPT ![n] = NoNid]
           \/ call > 1 /\ hsmNid' = hsmNid /\ call' = call + 1 /\ call < 4 /\ todo' = todo
           \/ call > 1 /\ hsmNid' = hsmNid /\ call' = 1 /\ todo' = todo \ {n}
  BY RemoveFromHsmChanges
<1>2. pc = "remove" /\ pc' = pc /\ UNCHANGED plan
  BY RemoveFromHsmChanges
<1>3. /\ todo \subseteq Node /\ n \in Node /\ hsmNid \in [Node -> Nid \cup {NoNid}]
      /\ call \in 1..4
  BY <1>1 DEF IInv, Shape, TypeOK, Records
<1>4. HsmNidsUnique'
  BY <1>1, <1>3 DEF UInv, HsmNidsUnique
<1>5. \A m \in todo : (\A k \in todo : ~Before(k, m)) => m = n
  BY <1>1, <1>3, BeforeIsOrder
<1>6. ASSUME NEW m \in hsmDeleteList, m \notin todo' PROVE hsmNid'[m] = NoNid
  <2>1. m \in Node
    BY DEF hsmDeleteList, IInv, Shape, TypeOK
  <2>2. hsmNid[m] = NoNid => hsmNid'[m] = NoNid
    BY <1>1, <1>3, <2>1
  <2>3. CASE m \notin todo
    BY <1>2, <2>2, <2>3 DEF UInv, LeftoversRemoved
  <2>4. CASE m \in todo
    BY <1>1, <1>2, <1>6, <2>2, <2>4 DEF UInv, LeftoversRemoved
  <2>. QED BY <2>3, <2>4
<1>7. call' > 1 => hsmNid'[n] = NoNid /\ todo' = todo
  BY <1>1, <1>2, <1>3 DEF UInv, LeftoversRemoved
<1>8. LeftoversRemoved'
  BY <1>2, <1>5, <1>6, <1>7, SamePlan DEF LeftoversRemoved
<1>. QED BY <1>4, <1>8 DEF UInv

\* The NIDs of the block are free when they are given away.
LEMMA patchHSMNIDsUInv ==
    ASSUME IInv, UInv, patchHSMNIDs, ~Abort
    PROVE  UInv'
<1>1. /\ hsmNid' = [n \in Node |-> IF n \in workingNodeList THEN NewNID(n) ELSE hsmNid[n]]
      /\ pc = "patch" /\ pc' = "post"
  BY DEF patchHSMNIDs
<1>2. /\ workingNodeList \subseteq Node /\ startingNID \in Nid
      /\ Block(startingNID, workingNodeList) \subseteq Nid
      /\ BlockIsFree(startingNID, allowedNodes, workingNodeList)
  BY <1>1 DEF IInv, Shape, TypeOK, PlanHolds
<1>3. /\ \A n \in workingNodeList : NewNID(n) \in Block(startingNID, workingNodeList)
      /\ \A m, n \in workingNodeList : NewNID(m) = NewNID(n) => m = n
  BY <1>2, NewNIDs
<1>4. NoNid \notin Nid
  BY DefragmentNidsAssumption DEF NoNid, Nid
<1>5. ASSUME NEW m \in workingNodeList, NEW n \in Node \ workingNodeList
      PROVE  hsmNid'[m] # hsmNid'[n]
  <2>1. hsmNid[n] \notin Block(startingNID, workingNodeList)
    <3>1. CASE n \in allowedNodes
      BY <1>1, <1>2, <1>4, <1>5, <3>1 DEF UInv, LeftoversRemoved, hsmDeleteList
    <3>2. CASE n \notin allowedNodes
      BY <1>2, <3>2 DEF BlockIsFree
    <3>. QED BY <3>1, <3>2
  <2>. QED BY <1>1, <1>2, <1>3, <2>1
<1>6. HsmNidsUnique'
  <2>. SUFFICES ASSUME NEW m \in Node, NEW n \in Node, hsmNid'[m] = hsmNid'[n]
                PROVE  m = n \/ hsmNid'[m] = NoNid
    BY DEF HsmNidsUnique
  <2>1. CASE m \in workingNodeList /\ n \in workingNodeList
    BY <1>1, <1>3, <2>1
  <2>2. CASE m \notin workingNodeList /\ n \notin workingNodeList
    BY <1>1, <2>2 DEF UInv, HsmNidsUnique
  <2>. QED BY <1>5, <2>1, <2>2
<1>. QED BY <1>1, <1>6 DEF UInv, LeftoversRemoved

\* Every step preserves the invariant, unless deletions fail.
LEMMA NextUInv == ~DeleteFails /\ IInv /\ UInv /\ [Next]_vars => UInv'
<1>. SUFFICES ASSUME ~DeleteFails, IInv, UInv, [Next]_vars, ~RemoveFromHsm,
                     ~patchHSMNIDs \/ Abort
              PROVE  UInv'
  BY RemoveFromHsmUInv, patchHSMNIDsUInv
<1>1. hsmNid' = hsmNid
  BY DEF Next, Start, deleteSLSComp, putSLSComp, NextPhase, postHSMComps, Interrupt, Abort,
         hsm, vars
<1>2. HsmNidsUnique'
  BY <1>1 DEF UInv, HsmNidsUnique
<1>3. LeftoversRemoved'
  <2>1. ASSUME NEW includes \in SUBSET Node, NEW start \in Nid, Start(includes, start)
        PROVE  LeftoversRemoved'
    BY <2>1 DEF Start, LeftoversRemoved
  <2>2. CASE deleteSLSComp
    BY <2>2 DEF deleteSLSComp, LeftoversRemoved
  <2>3. CASE putSLSComp /\ ~Abort
    BY <1>1, <2>3, SamePlan DEF putSLSComp, UInv, LeftoversRemoved
  <2>4. CASE NextPhase
    <3>1. UNCHANGED <<call>> /\ UNCHANGED plan
      BY <2>4 DEF NextPhase
    <3>2. \/ pc = "delete_sls" /\ pc' = "remove" /\ todo' = hsmDeleteList
          \/ pc = "remove" /\ pc' = "put_sls" /\ todo = {}
          \/ pc = "put_sls" /\ pc' = "patch"
      BY <2>4 DEF NextPhase
    <3>3. pc = "delete_sls" => call = 1
      BY DEF IInv, Shape
    <3>. QED BY <1>1, <3>1, <3>2, <3>3, SamePlan DEF UInv, LeftoversRemoved
  <2>5. CASE postHSMComps /\ ~Abort
    BY <2>5 DEF postHSMComps, LeftoversRemoved
  <2>6. CASE Abort
    BY <2>6 DEF Abort, LeftoversRemoved
  <2>7. CASE UNCHANGED vars
    BY <1>1, <2>7, SamePlan DEF vars, UInv, LeftoversRemoved
  <2>. QED BY <2>1, <2>2, <2>3, <2>4, <2>5, <2>6, <2>7 DEF Next, Interrupt
<1>. QED BY <1>2, <1>3 DEF UInv

\* As long as deletions do not fail, no two components of HSM get the same NID,
\* also while a run is half done and after runs that were interrupted.
THEOREM NidsStayUnique == "delete" \notin Faults => (Spec => []HsmNidsUnique)
<1>. SUFFICES ASSUME "delete" \notin Faults PROVE Spec => []HsmNidsUnique
  OBVIOUS
<1>1. Init => IInv /\ UInv
  BY InitIInv, InitUInv
<1>2. IInv /\ UInv /\ [Next]_vars => (IInv /\ UInv)'
  BY NextIInv, NextUInv DEF DeleteFails
<1>3. UInv => HsmNidsUnique
  BY DEF UInv
<1>. QED BY <1>1, <1>2, <1>3, PTL DEF Spec

-----------------------------------------------------------------------------
(* Folds over lists.                                                        *)

\* A non-empty set of naturals has a least element.
LEMMA LeastNatural ==
    ASSUME NEW T \in SUBSET Nat, T # {}
    PROVE  \E x \in T : \A y \in T : x <= y
<1>. DEFINE R == {ss \in Nat \X Nat : ss[1] < ss[2]}
<1>1. IsWellFoundedOn(R, Nat)
  BY NatLessThanWellFounded DEF OpToRel
<1>2. PICK x \in T : \A y \in T : ~(<<y, x>> \in R)
  <2>. HIDE DEF R
  <2>. QED BY <1>1, WFMin
<1>3. ASSUME NEW y \in T PROVE x <= y
  <2>1. <<y, x>> \in Nat \X Nat
    OBVIOUS
  <2>2. ~(<<y, x>>[1] < <<y, x>>[2])
    BY <1>2, <2>1
  <2>. QED BY <2>2
<1>. QED BY <1>3

\* Induction up to n, over a set instead of a predicate.
LEMMA Induction ==
    ASSUME NEW n \in Nat, NEW T, 0 \in T, \A k \in 1..n : k - 1 \in T => k \in T
    PROVE  0..n \subseteq T
<1>1. SUFFICES ASSUME 0..n \ T # {} PROVE FALSE
  OBVIOUS
<1>. DEFINE D == 0..n \ T
<1>0. D \in SUBSET Nat /\ D # {}
  BY <1>1
<1>2. PICK x \in D : \A y \in D : x <= y
  <2>. HIDE DEF D
  <2>. QED BY <1>0, LeastNatural
<1>3. x \in 1..n /\ x - 1 \in 0..n /\ x - 1 \in T
  BY <1>2
<1>. QED BY <1>2, <1>3

\* The maximum of numbers up to k that has k among them.
LEMMA MaxUpTo ==
    ASSUME NEW k \in Nat, NEW s \in SUBSET (1..k), k \in s
    PROVE  Max(s) = k
<1>1. \A y \in s : k >= y
  OBVIOUS
<1>2. \A x \in s : (\A y \in s : x >= y) => x = k
  BY <1>1
<1>. QED BY <1>1, <1>2 DEF Max

\* A fold over numbers 1 to n can be computed: the function that FoldLeft is defined by exists.
Folds1(g, n, base, F) ==
    \A s \in SUBSET (1..n) : g[s] = IF s = {} THEN base ELSE F[Max(s)][g[s \ {Max(s)}]]
LEMMA FoldExists ==
    ASSUME NEW n \in Nat, NEW V, NEW base \in V, NEW F \in [1..n -> [V -> V]]
    PROVE  \E g \in [SUBSET (1..n) -> V] : Folds1(g, n, base, F)
<1>. DEFINE Upto(g, k) == \A s \in SUBSET (1..k) :
                 g[s] = IF s = {} THEN base ELSE F[Max(s)][g[s \ {Max(s)}]]
            T == {k \in 0..n : \E g \in [SUBSET (1..n) -> V] : Upto(g, k)}
<1>1. 0 \in T
  <2>. DEFINE g == [s \in SUBSET (1..n) |-> base]
  <2>1. g \in [SUBSET (1..n) -> V]
    OBVIOUS
  <2>2. \A s \in SUBSET (1..0) : s = {} /\ g[s] = base
    <3>1. 1..0 = {}
      OBVIOUS
    <3>. QED BY <3>1
  <2>3. Upto(g, 0)
    BY <2>2
  <2>. HIDE DEF g, Upto
  <2>. QED BY <2>1, <2>3
<1>2. ASSUME NEW k \in 1..n, k - 1 \in T PROVE k \in T
  <2>1. PICK g \in [SUBSET (1..n) -> V] : Upto(g, k - 1)
    BY <1>2
  <2>. DEFINE h == [s \in SUBSET (1..n) |-> IF k \in s THEN F[k][g[s \ {k}]] ELSE g[s]]
  <2>2. h \in [SUBSET (1..n) -> V]
    OBVIOUS
  <2>3. ASSUME NEW s \in SUBSET (1..k)
        PROVE  h[s] = IF s = {} THEN base ELSE F[Max(s)][h[s \ {Max(s)}]]
    <3>1. s \in SUBSET (1..n)
      OBVIOUS
    <3>2. CASE k \in s
      <4>1. Max(s) = k
        BY <3>2, MaxUpTo
      <4>2. h[s \ {k}] = g[s \ {k}] /\ h[s] = F[k][g[s \ {k}]]
        BY <3>1, <3>2
      <4>. QED BY <3>2, <4>1, <4>2
    <3>3. CASE k \notin s
      <4>1. s \in SUBSET (1..k - 1)
        BY <3>3
      <4>2. h[s] = g[s] /\ h[s \ {Max(s)}] = g[s \ {Max(s)}]
        BY <3>1, <3>3
      <4>3. g[s] = IF s = {} THEN base ELSE F[Max(s)][g[s \ {Max(s)}]]
        BY <2>1, <4>1
      <4>. QED BY <4>2, <4>3
    <3>. QED BY <3>2, <3>3
  <2>4. Upto(h, k)
    BY <2>3
  <2>. HIDE DEF h, Upto
  <2>. QED BY <2>2, <2>4
<1>3. n \in T
  <2>. HIDE DEF T
  <2>1. 0..n \subseteq T
    BY <1>1, <1>2, Induction
  <2>. QED BY <2>1
<1>. QED BY <1>3 DEF Folds1

\* A set of numbers up to n has its maximum.
LEMMA MaxInside ==
    ASSUME NEW n \in Nat, NEW s \in SUBSET (0..n), s # {}
    PROVE  Max(s) \in s
<1>. DEFINE T == {n - x : x \in s}
<1>1. T \in SUBSET Nat /\ T # {}
  <2>1. \A x \in s : n - x \in Nat
    OBVIOUS
  <2>. QED BY <2>1
<1>2. PICK t \in T : \A y \in T : t <= y
  BY <1>1, LeastNatural
<1>3. PICK x \in s : t = n - x
  OBVIOUS
<1>4. ASSUME NEW y \in s PROVE x >= y
  <2>1. n - x <= n - y
    BY <1>2, <1>3
  <2>. QED BY <2>1
<1>. QED BY <1>4 DEF Max

\* The parts of an interval.
LEMMA FirstNumbers ==
    ASSUME NEW n \in Nat, NEW k \in 1..n
    PROVE  1..k \in SUBSET (1..n) /\ 1..k # {} /\ Max(1..k) = k /\ (1..k) \ {k} = 1..k - 1
<1>1. k \in Nat /\ k \in 1..k /\ 1..k \in SUBSET (1..k) /\ 1..k \in SUBSET (1..n)
  OBVIOUS
<1>2. Max(1..k) = k
  BY <1>1, MaxUpTo
<1>3. (1..k) \ {k} = 1..k - 1
  OBVIOUS
<1>. QED BY <1>1, <1>2, <1>3

\* The values of a fold, one element after the other.
FoldsIn(f, n, V, base, F) ==
    /\ f[{}] = base
    /\ \A s \in SUBSET (1..n) : s # {} /\ f[s \ {Max(s)}] \in V => f[s] = F[Max(s)][f[s \ {Max(s)}]]
ValuesOf(acc, n, base, F, last) ==
    /\ acc[0] = base /\ acc[n] = last
    /\ \A k \in 1..n : acc[k] = F[k][acc[k - 1]]
LEMMA FoldValues ==
    ASSUME NEW n \in Nat, NEW V, NEW base \in V, NEW F \in [1..n -> [V -> V]], NEW f, FoldsIn(f, n, V, base, F)
    PROVE  \E acc \in [0..n -> V] : ValuesOf(acc, n, base, F, f[1..n])
<1>. DEFINE acc == [k \in 0..n |-> f[1..k]]
            T == {k \in 0..n : acc[k] \in V}
<1>1. acc[0] = base
  <2>1. 1..0 = {} /\ 0 \in 0..n
    OBVIOUS
  <2>. QED BY <2>1 DEF FoldsIn
<1>2. ASSUME NEW k \in 1..n, k - 1 \in T PROVE acc[k] = F[k][acc[k - 1]] /\ acc[k] \in V
  <2>1. k \in 0..n /\ k - 1 \in 0..n
    OBVIOUS
  <2>2. f[1..k - 1] \in V
    BY <1>2, <2>1
  <2>3. f[1..k] = F[k][f[1..k - 1]]
    BY <2>2, FirstNumbers DEF FoldsIn
  <2>4. F[k][f[1..k - 1]] \in V
    BY <2>2
  <2>. QED BY <2>1, <2>3, <2>4
<1>3. 0..n \subseteq T
  <2>. HIDE DEF acc
  <2>1. 0 \in T
    BY <1>1
  <2>2. ASSUME NEW k \in 1..n, k - 1 \in T PROVE k \in T
    BY <1>2, <2>2
  <2>. HIDE DEF T
  <2>. QED BY <2>1, <2>2, Induction
<1>4. \A k \in 1..n : acc[k] = F[k][acc[k - 1]]
  <2>1. ASSUME NEW k \in 1..n PROVE k - 1 \in T
    BY <1>3
  <2>. HIDE DEF acc, T
  <2>. QED BY <1>2, <2>1
<1>5. acc \in [0..n -> V] /\ acc[n] = f[1..n]
  BY <1>3
<1>. HIDE DEF acc
<1>. QED BY <1>1, <1>4, <1>5 DEF ValuesOf

\* Those, one element after the other.
ThoseUpTo(acc, list, kept) ==
    /\ acc[0] = <<>> /\ Those(list, kept) = acc[Len(list)]
    /\ \A k \in 1..Len(list) : acc[k] = IF list[k] \in kept THEN Append(acc[k - 1], list[k]) ELSE acc[k - 1]
LEMMA ThoseSteps ==
    ASSUME NEW X, NEW list \in Seq(X), NEW kept
    PROVE  \E acc \in [0..Len(list) -> Seq(X)] : ThoseUpTo(acc, list, kept)
<1>. DEFINE n == Len(list)
            V == Seq(X)
            base == <<>>
            Op(v, x) == IF x \in kept THEN Append(v, x) ELSE v
            F == [i \in 1..n |-> [v \in V |-> Op(v, list[i])]]
            Is(g) == g = [s \in SUBSET (DOMAIN list) |->
                            IF s = {} THEN base ELSE Op(g[s \ {Max(s)}], list[Max(s)])]
            f == CHOOSE h : Is(h)
<1>1. n \in Nat /\ DOMAIN list = 1..n /\ \A i \in 1..n : list[i] \in X
  OBVIOUS
<1>2. base \in V /\ \A v \in V, x \in X : Op(v, x) \in V
  OBVIOUS
<1>3. Those(list, kept) = f[1..n]
  BY <1>1 DEF Those, FoldLeft, MapThenFoldSet
<1>. HIDE DEF n, V, base, Op
<1>4. F \in [1..n -> [V -> V]]
  BY <1>1, <1>2
<1>5. PICK g \in [SUBSET (1..n) -> V] : Folds1(g, n, base, F)
  <2>. HIDE DEF F
  <2>. QED BY <1>1, <1>2, <1>4, FoldExists
<1>6. ASSUME NEW s \in SUBSET (1..n), s # {} PROVE Max(s) \in 1..n
  <2>1. s \in SUBSET (0..n)
    BY <1>1
  <2>. QED BY <1>1, <1>6, <2>1, MaxInside
<1>7. Is(f)
  <2>. DEFINE r == [s \in SUBSET (1..n) |-> IF s = {} THEN base ELSE Op(g[s \ {Max(s)}], list[Max(s)])]
  <2>1. \A s \in SUBSET (1..n) : g[s] = r[s]
    BY <1>5, <1>6 DEF Folds1
  <2>2. g = [s \in SUBSET (1..n) |-> g[s]] /\ r = [s \in SUBSET (1..n) |-> r[s]]
    OBVIOUS
  <2>3. g = r
    <3>. HIDE DEF r
    <3>. QED BY <2>1, <2>2
  <2>4. g = [s \in SUBSET (DOMAIN list) |-> IF s = {} THEN base ELSE Op(g[s \ {Max(s)}], list[Max(s)])]
    BY <1>1, <2>3
  <2>5. Is(g)
    BY <2>4
  <2>. HIDE DEF Is
  <2>. QED BY <2>5
<1>. HIDE DEF f
<1>8. \A s \in SUBSET (1..n) : f[s] = IF s = {} THEN base ELSE Op(f[s \ {Max(s)}], list[Max(s)])
  BY <1>1, <1>7
<1>9. PICK acc \in [0..n -> V] : ValuesOf(acc, n, base, F, f[1..n])
  <2>1. f[{}] = base
    BY <1>8
  <2>2. ASSUME NEW s \in SUBSET (1..n), s # {}, f[s \ {Max(s)}] \in V PROVE f[s] = F[Max(s)][f[s \ {Max(s)}]]
    BY <1>6, <1>8, <2>2
  <2>3. FoldsIn(f, n, V, base, F)
    BY <2>1, <2>2 DEF FoldsIn
  <2>. HIDE DEF F
  <2>. QED BY <1>1, <1>2, <1>4, <2>3, FoldValues
<1>10. ASSUME NEW k \in 1..n PROVE F[k][acc[k - 1]] = Op(acc[k - 1], list[k])
  <2>1. k - 1 \in 0..n
    BY <1>1
  <2>. QED BY <2>1
<1>. HIDE DEF F
<1>. QED BY <1>3, <1>9, <1>10 DEF ThoseUpTo, ValuesOf, n, V, base, Op

\* What Those keeps is in both.
LEMMA ThoseIn ==
    ASSUME NEW X, NEW list \in Seq(X), NEW kept
    PROVE  Those(list, kept) \in Seq(X \cap kept)
<1>. DEFINE n == Len(list)
            V == Seq(X \cap kept)
<1>1. n \in Nat /\ \A i \in 1..n : list[i] \in X
  OBVIOUS
<1>2. <<>> \in V /\ \A v \in V, x \in X : x \in kept => Append(v, x) \in V
  OBVIOUS
<1>. HIDE DEF V
<1>3. PICK acc \in [0..n -> Seq(X)] : ThoseUpTo(acc, list, kept)
  BY ThoseSteps
<1>. DEFINE T == {k \in 0..n : acc[k] \in V}
<1>4. acc[0] \in V /\ Those(list, kept) = acc[n]
  BY <1>2, <1>3 DEF ThoseUpTo
<1>5. ASSUME NEW k \in 1..n, k - 1 \in T PROVE k \in T
  <2>1. acc[k] = IF list[k] \in kept THEN Append(acc[k - 1], list[k]) ELSE acc[k - 1]
    BY <1>3 DEF ThoseUpTo
  <2>2. acc[k - 1] \in V /\ k \in 0..n
    BY <1>1, <1>5
  <2>3. acc[k] \in V
    BY <1>1, <1>2, <2>1, <2>2
  <2>. QED BY <2>2, <2>3
<1>6. 0 \in T
  BY <1>1, <1>4
<1>7. 0..n \subseteq T
  <2>. HIDE DEF T
  <2>. QED BY <1>1, <1>5, <1>6, Induction
<1>8. acc[n] \in V
  <2>1. n \in T
    BY <1>1, <1>7
  <2>. QED BY <2>1
<1>. QED BY <1>4, <1>8 DEF V

\* Keyed, one element after the other; V is any set that the entries do not lead out of.
KeyedUpTo(acc, list) ==
    /\ acc[0] = <<>> /\ Keyed(list) = acc[Len(list)]
    /\ \A k \in 1..Len(list) : acc[k] = Put(acc[k - 1], ByName(list[k]))
LEMMA KeyedSteps ==
    ASSUME NEW X, NEW list \in Seq(X), NEW V, <<>> \in V, \A v \in V, x \in X : Put(v, ByName(x)) \in V
    PROVE  \E acc \in [0..Len(list) -> V] : KeyedUpTo(acc, list)
<1>. DEFINE n == Len(list)
            base == <<>>
            Op(v, x) == Put(v, ByName(x))
            F == [i \in 1..n |-> [v \in V |-> Op(v, list[i])]]
            Is(g) == g = [s \in SUBSET (DOMAIN list) |->
                            IF s = {} THEN base ELSE Op(g[s \ {Max(s)}], list[Max(s)])]
            f == CHOOSE h : Is(h)
<1>1. n \in Nat /\ DOMAIN list = 1..n /\ \A i \in 1..n : list[i] \in X
  OBVIOUS
<1>2. base \in V /\ \A v \in V, x \in X : Op(v, x) \in V
  OBVIOUS
<1>3. Keyed(list) = f[1..n]
  BY <1>1 DEF Keyed, FoldLeft, MapThenFoldSet
<1>. HIDE DEF n, base, Op
<1>4. F \in [1..n -> [V -> V]]
  BY <1>1, <1>2
<1>5. PICK g \in [SUBSET (1..n) -> V] : Folds1(g, n, base, F)
  <2>. HIDE DEF F
  <2>. QED BY <1>1, <1>2, <1>4, FoldExists
<1>6. ASSUME NEW s \in SUBSET (1..n), s # {} PROVE Max(s) \in 1..n
  <2>1. s \in SUBSET (0..n)
    BY <1>1
  <2>. QED BY <1>1, <1>6, <2>1, MaxInside
<1>7. Is(f)
  <2>. DEFINE r == [s \in SUBSET (1..n) |-> IF s = {} THEN base ELSE Op(g[s \ {Max(s)}], list[Max(s)])]
  <2>1. \A s \in SUBSET (1..n) : g[s] = r[s]
    BY <1>5, <1>6 DEF Folds1
  <2>2. g = [s \in SUBSET (1..n) |-> g[s]] /\ r = [s \in SUBSET (1..n) |-> r[s]]
    OBVIOUS
  <2>3. g = r
    <3>. HIDE DEF r
    <3>. QED BY <2>1, <2>2
  <2>4. g = [s \in SUBSET (DOMAIN list) |-> IF s = {} THEN base ELSE Op(g[s \ {Max(s)}], list[Max(s)])]
    BY <1>1, <2>3
  <2>5. Is(g)
    BY <2>4
  <2>. HIDE DEF Is
  <2>. QED BY <2>5
<1>. HIDE DEF f
<1>8. \A s \in SUBSET (1..n) : f[s] = IF s = {} THEN base ELSE Op(f[s \ {Max(s)}], list[Max(s)])
  BY <1>1, <1>7
<1>9. PICK acc \in [0..n -> V] : ValuesOf(acc, n, base, F, f[1..n])
  <2>1. f[{}] = base
    BY <1>8
  <2>2. ASSUME NEW s \in SUBSET (1..n), s # {}, f[s \ {Max(s)}] \in V PROVE f[s] = F[Max(s)][f[s \ {Max(s)}]]
    BY <1>6, <1>8, <2>2
  <2>3. FoldsIn(f, n, V, base, F)
    BY <2>1, <2>2 DEF FoldsIn
  <2>. HIDE DEF F
  <2>. QED BY <1>1, <1>2, <1>4, <2>3, FoldValues
<1>10. ASSUME NEW k \in 1..n PROVE F[k][acc[k - 1]] = Op(acc[k - 1], list[k])
  <2>1. k - 1 \in 0..n
    BY <1>1
  <2>. QED BY <2>1
<1>. HIDE DEF F
<1>. QED BY <1>3, <1>9, <1>10 DEF KeyedUpTo, ValuesOf, n, base, Op

-----------------------------------------------------------------------------
(* What the functions of the SLS scripts leave of the networks.            *)

\* A network with its block and its route, whatever became of its subnets.
SameNet(old, new) ==
    /\ IsNet(new) /\ new.cidr = old.cidr /\ new.route = old.route
    /\ old = NoNetwork => new = NoNetwork
SameNets(old, new) ==
    /\ new = [n \in SlsNetwork |-> new[n]]
    /\ \A n \in SlsNetwork : SameNet(old[n], new[n])

\* What a network is that there is not.
LEMMA NoNetworkIsNet == IsNet(NoNetwork) /\ NoNetwork.subnets = <<>> /\ NoNetwork.route = "" /\ NoNetwork.cidr = Raised
  BY DEF IsNet, NoNetwork

LEMMA NoNetworkHasNoBgp == NoNetwork.bgp = FALSE
  BY Zenon DEF NoNetwork

LEMMA SameNetRefl == ASSUME NEW net, IsNet(net) PROVE SameNet(net, net)
  BY DEF SameNet

LEMMA SameNetTrans ==
    ASSUME NEW a, NEW b, NEW c, SameNet(a, b), SameNet(b, c) PROVE SameNet(a, c)
  BY DEF SameNet

\* Networks that were only given other subnets.
LEMMA SameNetsKnown ==
    ASSUME NEW old, NEW new, NetsKnown(old), SameNets(old, new)
    PROVE  /\ NetsKnown(new)
           /\ \A n \in SlsNetwork : new[n] = NoNetwork <=> old[n] = NoNetwork
           /\ \A n \in SlsNetwork : new[n].route = old[n].route
<1>1. ASSUME NEW n \in SlsNetwork
      PROVE  /\ IsNet(new[n]) /\ Known(new[n]) /\ new[n].route = old[n].route
             /\ new[n] = NoNetwork <=> old[n] = NoNetwork
  <2>1. old[n] = NoNetwork \/ old[n].cidr # Raised
    BY DEF NetsKnown, Known
  <2>2. SameNet(old[n], new[n])
    BY DEF SameNets
  <2>. QED BY <2>1, <2>2, NoNetworkIsNet DEF SameNet, Known
<1>. QED BY <1>1 DEF SameNets, NetsKnown

\* Giving a network other subnets, and none to no network.
LEMMA OtherSubnets ==
    ASSUME NEW net, IsNet(net), NEW q, net.subnets = <<>> => q = <<>>
    PROVE  SameNet(net, [net EXCEPT !.subnets = q])
<1>. DEFINE w == [net EXCEPT !.subnets = q]
<1>1. w = [cidr |-> net.cidr, subnets |-> q, bgp |-> net.bgp, route |-> net.route]
  BY DEF IsNet
<1>. HIDE DEF w
<1>2. ASSUME net = NoNetwork PROVE w = NoNetwork
  <2>1. q = <<>>
    BY <1>2, NoNetworkIsNet
  <2>2. NoNetwork = [cidr |-> net.cidr, subnets |-> <<>>, bgp |-> net.bgp, route |-> net.route]
    BY <1>2, NoNetworkIsNet DEF IsNet
  <2>. QED BY <1>1, <2>1, <2>2
<1>3. IsNet(w) /\ w.cidr = net.cidr /\ w.route = net.route
  BY <1>1 DEF IsNet
<1>4. SameNet(net, w)
  BY <1>2, <1>3 DEF SameNet
<1>. QED BY <1>4 DEF w

\* Other subnets at the places of the old ones.
LEMMA OnSubnetsSame ==
    ASSUME NEW net, IsNet(net), NEW q, DOMAIN q = DOMAIN net.subnets, q = [i \in DOMAIN q |-> q[i]]
    PROVE  SameNet(net, [net EXCEPT !.subnets = q])
<1>1. net.subnets = <<>> => q = <<>>
  OBVIOUS
<1>. QED BY <1>1, OtherSubnets

\* A list without elements has none in any set.
LEMMA NothingOfNothing == ASSUME NEW kept PROVE Those(<<>>, kept) = <<>>
<1>. DEFINE list == <<>>
            X == {}
<1>1. list \in Seq(X) /\ Len(list) = 0 /\ list = <<>>
  OBVIOUS
<1>. HIDE DEF list, X
<1>2. PICK acc \in [0..Len(list) -> Seq(X)] : ThoseUpTo(acc, list, kept)
  BY <1>1, ThoseSteps
<1>. QED BY <1>1, <1>2 DEF ThoseUpTo

\* Nor has a dict made of it.
LEMMA KeyedNothing == Keyed(<<>>) = <<>>
<1>. DEFINE list == <<>>
            X == {}
            V == {<<>>}
<1>1. list \in Seq(X) /\ Len(list) = 0 /\ list = <<>> /\ <<>> \in V
  OBVIOUS
<1>2. \A v \in V, x \in X : Put(v, ByName(x)) \in V
  OBVIOUS
<1>. HIDE DEF list, X, V
<1>3. PICK acc \in [0..Len(list) -> V] : KeyedUpTo(acc, list)
  BY <1>1, <1>2, KeyedSteps
<1>. QED BY <1>1, <1>3 DEF KeyedUpTo

\* What is written and read again are the same networks.
LEMMA NetworksToSlsSame ==
    ASSUME NEW nets, NetsKnown(nets) PROVE SameNets(nets, NetworksToSls(nets))
<1>1. ASSUME NEW n \in SlsNetwork PROVE SameNet(nets[n], NetworksToSls(nets)[n])
  BY OnSubnetsSame DEF NetworksToSls, OnSubnets, NetsKnown
<1>. QED BY <1>1 DEF SameNets, NetworksToSls

LEMMA NetworkReadSame ==
    ASSUME NEW net, IsNet(net) PROVE SameNet(net, network_from_sls_data(net))
<1>1. net.subnets = <<>> => Keyed([i \in DOMAIN net.subnets |-> subnet_from_sls_data(net.subnets[i])]) = <<>>
  <2>1. net.subnets = <<>> => [i \in DOMAIN net.subnets |-> subnet_from_sls_data(net.subnets[i])] = <<>>
    OBVIOUS
  <2>. QED BY <2>1, KeyedNothing
<1>. QED BY <1>1, OtherSubnets DEF network_from_sls_data

LEMMA SameNetsTrans ==
    ASSUME NEW a, NEW b, NEW c, SameNets(a, b), SameNets(b, c) PROVE SameNets(a, c)
  BY SameNetTrans DEF SameNets

\* One network is exchanged for one with the same block and route.
LEMMA OneNetSame ==
    ASSUME NEW nets, NetsKnown(nets), NEW n \in SlsNetwork, NEW net, SameNet(nets[n], net)
    PROVE  SameNets(nets, [nets EXCEPT ![n] = net])
<1>. DEFINE new == [nets EXCEPT ![n] = net]
<1>1. new = [m \in SlsNetwork |-> IF m = n THEN net ELSE nets[m]]
  BY DEF NetsKnown
<1>2. ASSUME NEW m \in SlsNetwork PROVE SameNet(nets[m], new[m])
  BY <1>1, SameNetRefl DEF NetsKnown
<1>. QED BY <1>1, <1>2 DEF SameNets

\* None of the functions that main() calls on all networks makes or removes one.
LEMMA MigrateSame == ASSUME NEW nets, NetsKnown(nets) PROVE SameNets(nets, migrate_switch_names(nets))
<1>1. ASSUME NEW n \in SlsNetwork PROVE SameNet(nets[n], migrate_switch_names(nets)[n])
  BY OnSubnetsSame DEF migrate_switch_names, OnSubnet, OnSubnets, NetsKnown
<1>. QED BY <1>1 DEF SameNets, migrate_switch_names

LEMMA ApiGwSame ==
    ASSUME NEW nets, NetsKnown(nets) PROVE SameNets(nets, remove_api_gw_from_hmnlb_reservations(nets))
<1>1. "HMNLB" \in SlsNetwork /\ IsNet(nets["HMNLB"])
  BY DEF SlsNetwork, NetsKnown
<1>. QED BY <1>1, OneNetSame, OnSubnetsSame DEF remove_api_gw_from_hmnlb_reservations, OnSubnet, OnSubnets

LEMMA UnboundSame ==
    ASSUME NEW nets, NetsKnown(nets) PROVE SameNets(nets, correct_unbound_dns_address(nets))
<1>1. "HMNLB" \in SlsNetwork /\ "NMNLB" \in SlsNetwork /\ IsNet(nets["HMNLB"]) /\ IsNet(nets["NMNLB"])
  BY DEF SlsNetwork, NetsKnown
<1>2. PICK h, m : /\ SameNet(nets["HMNLB"], h) /\ SameNet(nets["NMNLB"], m)
                  /\ correct_unbound_dns_address(nets) = [nets EXCEPT !["HMNLB"] = h, !["NMNLB"] = m]
  BY <1>1, OnSubnetsSame DEF correct_unbound_dns_address, OnSubnet, OnSubnets
<1>. DEFINE mid == [nets EXCEPT !["HMNLB"] = h]
<1>3. SameNets(nets, mid)
  BY <1>1, <1>2, OneNetSame
<1>4. NetsKnown(mid) /\ mid["NMNLB"] = nets["NMNLB"]
  BY <1>3, <1>1, SameNetsKnown DEF NetsKnown
<1>5. SameNets(mid, [mid EXCEPT !["NMNLB"] = m])
  <2>. HIDE DEF mid
  <2>. QED BY <1>1, <1>2, <1>4, OneNetSame
<1>. QED BY <1>2, <1>3, <1>5, SameNetsTrans

LEMMA StaticPoolSame ==
    ASSUME NEW nets, NetsKnown(nets) PROVE SameNets(nets, remove_can_static_pool(nets))
<1>1. "CAN" \in SlsNetwork /\ IsNet(nets["CAN"])
  BY DEF SlsNetwork, NetsKnown
<1>2. nets["CAN"].subnets = <<>> => Without(nets["CAN"].subnets, {Static("can")}) = <<>>
  BY NothingOfNothing DEF Without
<1>. DEFINE w == [nets["CAN"] EXCEPT !.subnets = Without(nets["CAN"].subnets, {Static("can")})]
<1>3. SameNet(nets["CAN"], w)
  BY <1>1, <1>2, OtherSubnets
<1>4. remove_can_static_pool(nets) = [nets EXCEPT !["CAN"] = w]
  BY DEF remove_can_static_pool
<1>. HIDE DEF w
<1>5. SameNets(nets, [nets EXCEPT !["CAN"] = w])
  BY <1>1, <1>3, OneNetSame
<1>. QED BY <1>4, <1>5

LEMMA KubeApiSame ==
    ASSUME NEW nets, NetsKnown(nets) PROVE SameNets(nets, remove_kube_api_reservations(nets))
<1>1. ASSUME NEW n \in SlsNetwork PROVE SameNet(nets[n], remove_kube_api_reservations(nets)[n])
  <2>1. IsNet(nets[n])
    BY DEF NetsKnown
  <2>2. CASE n = "NMN"
    BY <2>1, <2>2, SameNetRefl DEF remove_kube_api_reservations
  <2>3. CASE n # "NMN"
    BY <2>1, <2>3, OnSubnetsSame DEF remove_kube_api_reservations, OnSubnets
  <2>. QED BY <2>2, <2>3
<1>. QED BY <1>1 DEF SameNets, remove_kube_api_reservations

LEMMA BgpSame ==
    ASSUME NEW nets, NetsKnown(nets) PROVE SameNets(nets, create_metallb_pools_and_asns(nets))
<1>1. ASSUME NEW n \in SlsNetwork PROVE SameNet(nets[n], create_metallb_pools_and_asns(nets)[n])
  <2>1. PICK q : /\ create_metallb_pools_and_asns(nets)[n]
                       = [[nets[n] EXCEPT !.subnets = q] EXCEPT
                            !.bgp = @ \/ (n \in {"CHN", "CMN", "NMN"} /\ nets[n] # NoNetwork)]
                 /\ SameNet(nets[n], [nets[n] EXCEPT !.subnets = q])
    BY OnSubnetsSame DEF create_metallb_pools_and_asns, OnSubnets, NetsKnown
  <2>. DEFINE w == [nets[n] EXCEPT !.subnets = q]
              b == w.bgp \/ (n \in {"CHN", "CMN", "NMN"} /\ nets[n] # NoNetwork)
  <2>2. IsNet(w) /\ (nets[n] = NoNetwork => w = NoNetwork)
    BY <2>1 DEF SameNet
  <2>. HIDE DEF w
  <2>3. [w EXCEPT !.bgp = b] = [cidr |-> w.cidr, subnets |-> w.subnets, bgp |-> b, route |-> w.route]
    BY <2>2 DEF IsNet
  <2>4. ASSUME nets[n] = NoNetwork PROVE b = w.bgp
    <3>1. w.bgp = FALSE
      BY <2>2, <2>4, NoNetworkHasNoBgp
    <3>. QED BY <2>4, <3>1
  <2>. HIDE DEF b
  <2>. DEFINE z == [w EXCEPT !.bgp = b]
  <2>5. z.cidr = w.cidr /\ z.route = w.route /\ IsNet(z)
    BY <2>3 DEF IsNet
  <2>6. ASSUME nets[n] = NoNetwork PROVE z = w
    BY <2>2, <2>3, <2>4, <2>6 DEF IsNet
  <2>7. create_metallb_pools_and_asns(nets)[n] = z
    BY <2>1 DEF w, b
  <2>. HIDE DEF z
  <2>. QED BY <2>1, <2>2, <2>5, <2>6, <2>7 DEF SameNet, w
<1>. QED BY <1>1 DEF SameNets, create_metallb_pools_and_asns

LEMMA UaiSame ==
    ASSUME NEW nets, NetsKnown(nets) PROVE SameNets(nets, update_nmn_uai_macvlan_dhcp_ranges(nets))
<1>1. "NMN" \in SlsNetwork /\ IsNet(nets["NMN"])
  BY DEF SlsNetwork, NetsKnown
<1>. QED BY <1>1, OneNetSame, OnSubnetsSame DEF update_nmn_uai_macvlan_dhcp_ranges, OnSubnet, OnSubnets

LEMMA BlackholeSame ==
    ASSUME NEW nets, NetsKnown(nets) PROVE SameNets(nets, rename_uai_bridge_reservation(nets))
<1>1. "NMN" \in SlsNetwork /\ IsNet(nets["NMN"])
  BY DEF SlsNetwork, NetsKnown
<1>. QED BY <1>1, OneNetSame, OnSubnetsSame DEF rename_uai_bridge_reservation, OnSubnet, OnSubnets

-----------------------------------------------------------------------------
(* The upgrade routes users to a network that there is.                    *)

\* The steps as the lemmas about Does want them.
LEMMA StepKinds ==
    /\ BeforeBican \cap Resting = {} /\ {"bican", "write"} \cap Resting = {} /\ "failed" \in Resting
    /\ BeforeBican \subseteq SlsSteps /\ Resting \subseteq SlsSteps /\ {"bican", "write"} \subseteq SlsSteps
    /\ {"can", "bican", "write", "failed"} \cap {"CMN subnets", "CAN subnets"} = {}
    /\ {"chn", "can", "remove"} \subseteq BeforeBican
  BY DEF BeforeBican, Resting, SlsSteps, AfterChn

\* The first command line, and that of the run, are command lines.
LEMMA FirstIsCommand ==
    ASSUME UpgradeRoutes
    PROVE  /\ slsCommands[1] \in UpgradeOptions /\ slsCommands[1].bican \in {"CAN", "CHN", "HSN"}
           /\ slsOptions \in UpgradeOptions /\ slsOptions.bican \in {"CAN", "CHN", "HSN"}
<1>1. slsCommands \in Seq(UpgradeOptions) /\ \E i \in DOMAIN slsCommands : slsOptions = slsCommands[i]
  BY DEF UpgradeRoutes, ToSet
<1>2. Len(slsCommands) \in Nat /\ DOMAIN slsCommands = 1..Len(slsCommands) /\ \A i \in DOMAIN slsCommands : slsCommands[i] \in UpgradeOptions
  BY <1>1
<1>3. 1 \in DOMAIN slsCommands
  BY <1>1, <1>2
<1>. QED BY <1>1, <1>2, <1>3, UpgradeOptionsAssumption

LEMMA StepsOfClone == DOMAIN CloneTo = {"CMN subnets", "CAN subnets"}
  BY DEF CloneTo

\* Other subnets do not change where users can be routed to.
LEMMA ReadyStaysReady ==
    ASSUME NEW old, NEW new, NetsKnown(old), SameNets(old, new), NEW step,
           NEW commands, commands[1].bican \in {"CAN", "CHN", "HSN"}, NEW options, NetsReady(old, step, commands, options)
    PROVE  NetsReady(new, step, commands, options)
<1>1. /\ "BICAN" \in SlsNetwork /\ "HSN" \in SlsNetwork /\ "CAN" \in SlsNetwork
      /\ "CHN" \in SlsNetwork /\ commands[1].bican \in SlsNetwork
  BY DEF SlsNetwork
<1>. QED BY <1>1, SameNetsKnown DEF NetsReady, RoutedTo

\* A function that only changes subnets.
LEMMA DoesRoutes ==
    ASSUME UpgradeRoutes, NEW step, NEW nets, NEW next, Does(step, nets, next), step \notin Resting,
           NetsKnown(nets), next \in SlsSteps, next # "written", next \notin Resting => NetsReady(nets, next, slsCommands, slsOptions),
           next \notin DOMAIN CloneTo
    PROVE  UpgradeRoutes'
  BY StepsOfClone DEF UpgradeRoutes, Does, SlsCalls, SlsGoTo, CloneTo

\* A function that neither makes nor removes a network.
LEMMA SameDoesRoutes ==
    ASSUME UpgradeRoutes, NEW step \in BeforeBican, NEW nets, NEW next \in BeforeBican \ DOMAIN CloneTo,
           Does(step, nets, next), SameNets(slsNets, nets), next \in AfterChn => step \in AfterChn
    PROVE  UpgradeRoutes'
<1>1. slsPc = step /\ step \notin Resting /\ next \notin Resting /\ next \in SlsSteps /\ next # "written"
  BY DEF Does, Resting, BeforeBican, AfterChn, SlsSteps
<1>2. slsCommands[1].bican \in {"CAN", "CHN", "HSN"}
  BY FirstIsCommand DEF UpgradeRoutes
<1>3. NetsReady(slsNets, step, slsCommands, slsOptions)
  BY <1>1 DEF UpgradeRoutes
<1>4. NetsReady(nets, step, slsCommands, slsOptions)
  BY <1>2, <1>3, ReadyStaysReady DEF UpgradeRoutes
<1>5. NetsReady(nets, next, slsCommands, slsOptions)
  BY <1>4 DEF NetsReady, BeforeBican, AfterChn
<1>6. NetsKnown(nets)
  BY SameNetsKnown DEF UpgradeRoutes
<1>. QED BY <1>1, <1>5, <1>6, DoesRoutes

LEMMA NetsSameRefl == ASSUME NEW nets, NetsKnown(nets) PROVE SameNets(nets, nets)
  BY SameNetRefl DEF SameNets, NetsKnown

\* The command line of a new run is added to those before.
LEMMA Appended ==
    ASSUME UpgradeRoutes, NEW c \in UpgradeOptions
    PROVE  /\ Append(slsCommands, c) \in Seq(UpgradeOptions) /\ Append(slsCommands, c)[1] = slsCommands[1]
           /\ c \in ToSet(Append(slsCommands, c)) /\ ToSet(slsCommands) \subseteq ToSet(Append(slsCommands, c))
<1>. DEFINE more == Append(slsCommands, c)
<1>1. slsCommands \in Seq(UpgradeOptions) /\ \E i \in DOMAIN slsCommands : slsOptions = slsCommands[i]
  BY DEF UpgradeRoutes, ToSet
<1>2. /\ more \in Seq(UpgradeOptions) /\ Len(slsCommands) \in Nat /\ Len(more) = Len(slsCommands) + 1
      /\ DOMAIN slsCommands = 1..Len(slsCommands) /\ DOMAIN more = 1..Len(more) /\ more[Len(more)] = c
      /\ \A i \in 1..Len(slsCommands) : more[i] = slsCommands[i]
  BY <1>1
<1>. HIDE DEF more
<1>3. 1 \in DOMAIN slsCommands /\ Len(more) \in DOMAIN more /\ DOMAIN slsCommands \subseteq DOMAIN more
  BY <1>1, <1>2
<1>. QED BY <1>2, <1>3 DEF ToSet, more

\* The actions, in the order of a run.
LEMMA LoadCommands ==
    ASSUME UpgradeRoutes, LoadSls
    PROVE  /\ slsCommands' \in Seq(UpgradeOptions) /\ slsOptions' \in ToSet(slsCommands') /\ slsCommands'[1] = slsCommands[1]
           /\ slsOptions' \in UpgradeOptions /\ (RouteRemoved(slsCommands) => RouteRemoved(slsCommands'))
           /\ slsFile.nets["BICAN"] = NoNetwork => slsOptions' = slsOptions
<1>1. CASE slsPc = "load" /\ UNCHANGED <<slsOptions, slsCommands>>
  BY <1>1, FirstIsCommand DEF UpgradeRoutes
<1>2. CASE slsPc = "written" /\ slsOptions' \in UpgradeOptions /\ slsCommands' = Append(slsCommands, slsOptions')
  <2>1. /\ slsCommands' \in Seq(UpgradeOptions) /\ slsCommands'[1] = slsCommands[1]
        /\ slsOptions' \in ToSet(slsCommands') /\ ToSet(slsCommands) \subseteq ToSet(slsCommands')
    BY <1>2, Appended
  <2>. QED BY <1>2, <2>1 DEF RouteRemoved, UpgradeRoutes
<1>. QED BY <1>1, <1>2 DEF LoadSls

LEMMA LoadRoutes == ASSUME UpgradeRoutes, LoadSls PROVE UpgradeRoutes'
<1>. DEFINE read == [n \in SlsNetwork |-> network_from_sls_data(slsFile.nets[n])]
<1>0. slsNets' = read /\ UNCHANGED <<slsFile, slsClone>>
  BY DEF LoadSls, SlsCalls
<1>1. SameNets(slsFile.nets, read)
  BY NetworkReadSame DEF SameNets, UpgradeRoutes, NetsKnown
<1>2. NetsKnown(read)
  BY <1>1, SameNetsKnown DEF UpgradeRoutes
<1>3. \/ slsPc' = "failed"
      \/ slsPc' = "switches" /\ ~InputError(read, slsOptions')
  <2>1. slsPc' = IF InputError(slsNets', slsOptions') THEN "failed" ELSE "switches"
    BY DEF LoadSls, SlsCalls
  <2>. HIDE DEF read
  <2>. QED BY <1>0, <2>1
<1>4. FileReady(slsFile.nets, slsCommands', slsOptions')
  BY LoadCommands DEF UpgradeRoutes, FileReady, RoutedTo
<1>. HIDE DEF read
<1>5. CASE slsPc' = "failed"
  BY <1>0, <1>2, <1>4, <1>5, LoadCommands, StepsOfClone DEF UpgradeRoutes, Resting, SlsSteps, CloneTo
<1>6. CASE slsPc' = "switches" /\ ~InputError(read, slsOptions')
  <2>1. slsCommands'[1].bican \in {"CAN", "CHN", "HSN"}
    BY FirstIsCommand, LoadCommands
  <2>2. \A n \in SlsNetwork : read[n] = NoNetwork <=> slsFile.nets[n] = NoNetwork
    BY <1>1, SameNetsKnown DEF UpgradeRoutes
  <2>3. \A n \in SlsNetwork : read[n].route = slsFile.nets[n].route
    BY <1>1, SameNetsKnown DEF UpgradeRoutes
  <2>4. read["CMN"] = NoNetwork => read["CAN"] # NoNetwork
    <3>1. ~Has(<<>>, Bootstrap)
      BY DEF Has
    <3>. QED BY <1>6, <3>1, NoNetworkIsNet DEF InputError
  <2>5. NetsReady(read, "switches", slsCommands', slsOptions')
    BY <1>4, <2>1, <2>2, <2>3, <2>4 DEF FileReady, NetsReady, RoutedTo, AfterChn, SlsNetwork
  <2>. QED BY <1>0, <1>2, <1>4, <1>6, <2>5, LoadCommands, StepsOfClone DEF UpgradeRoutes, SlsSteps, BeforeBican, CloneTo
<1>. QED BY <1>3, <1>5, <1>6

LEMMA SwitchesRoutes == ASSUME UpgradeRoutes, MigrateSwitchNames PROVE UpgradeRoutes'
<1>1. /\ slsPc = "switches" /\ slsPc' = "lb" /\ UNCHANGED <<slsFile, slsOptions, slsCommands, slsClone>>
      /\ slsNets' = slsNets \/ slsNets' = migrate_switch_names(slsNets)
  BY DEF MigrateSwitchNames, slsLoaded, SlsCalls, SlsGoTo
<1>2. SameNets(slsNets, slsNets')
  BY <1>1, MigrateSame, NetsSameRefl DEF UpgradeRoutes
<1>3. slsCommands[1].bican \in {"CAN", "CHN", "HSN"} /\ NetsKnown(slsNets)
  BY FirstIsCommand DEF UpgradeRoutes
<1>4. NetsReady(slsNets, "switches", slsCommands, slsOptions)
  BY <1>1 DEF UpgradeRoutes, Resting
<1>5. NetsReady(slsNets', "switches", slsCommands, slsOptions)
  BY <1>2, <1>3, <1>4, ReadyStaysReady
<1>6. NetsReady(slsNets', "lb", slsCommands, slsOptions)
  BY <1>5 DEF NetsReady, AfterChn
<1>7. NetsKnown(slsNets')
  BY <1>2, <1>3, SameNetsKnown
<1>. QED BY <1>1, <1>6, <1>7, StepsOfClone DEF UpgradeRoutes, SlsSteps, BeforeBican, CloneTo

\* A run that fails leaves the file as it was.
LEMMA FailsRoutes == ASSUME UpgradeRoutes, NEW step \in BeforeBican, Fails(step) PROVE UpgradeRoutes'
<1>1. Does(step, slsNets, "failed")
  BY DEF Fails
<1>2. step \notin Resting /\ "failed" \in SlsSteps /\ "failed" \in Resting /\ "failed" \notin DOMAIN CloneTo
  BY StepKinds, StepsOfClone
<1>3. NetsKnown(slsNets)
  BY DEF UpgradeRoutes
<1>. QED BY <1>1, <1>2, <1>3, DoesRoutes

LEMMA BalancersRoutes == ASSUME UpgradeRoutes, CorrectLoadBalancers PROVE UpgradeRoutes'
<1>. DEFINE mid == remove_api_gw_from_hmnlb_reservations(slsNets)
            new == correct_unbound_dns_address(mid)
<1>1. SameNets(slsNets, mid) /\ NetsKnown(mid)
  BY ApiGwSame, SameNetsKnown DEF UpgradeRoutes
<1>2. SameNets(mid, new)
  <2>. HIDE DEF mid
  <2>. QED BY <1>1, UnboundSame
<1>3. SameNets(slsNets, new)
  BY <1>1, <1>2, SameNetsTrans
<1>4. Does("lb", new, "cmn")
  BY DEF CorrectLoadBalancers
<1>. HIDE DEF new
<1>. QED BY <1>3, <1>4, SameDoesRoutes, StepsOfClone DEF BeforeBican, AfterChn

LEMMA StaticPoolRoutes == ASSUME UpgradeRoutes, RemoveStaticPool PROVE UpgradeRoutes'
<1>. DEFINE new == remove_can_static_pool(slsNets)
<1>1. SameNets(slsNets, new)
  BY StaticPoolSame DEF UpgradeRoutes
<1>2. Does("static pool", new, "kubeapi")
  BY DEF RemoveStaticPool
<1>. HIDE DEF new
<1>. QED BY <1>1, <1>2, SameDoesRoutes, StepsOfClone DEF BeforeBican, AfterChn

LEMMA KubeApiRoutes == ASSUME UpgradeRoutes, RemoveKubeApi PROVE UpgradeRoutes'
<1>. DEFINE new == remove_kube_api_reservations(slsNets)
<1>1. SameNets(slsNets, new)
  BY KubeApiSame DEF UpgradeRoutes
<1>2. Does("kubeapi", new, "chn")
  BY DEF RemoveKubeApi
<1>. HIDE DEF new
<1>. QED BY <1>1, <1>2, SameDoesRoutes, StepsOfClone DEF BeforeBican, AfterChn

LEMMA BgpRoutes == ASSUME UpgradeRoutes, AddBgp PROVE UpgradeRoutes'
<1>. DEFINE new == create_metallb_pools_and_asns(slsNets)
<1>1. SameNets(slsNets, new)
  BY BgpSame DEF UpgradeRoutes
<1>2. Does("bgp", new, "uai")
  BY DEF AddBgp
<1>. HIDE DEF new
<1>. QED BY <1>1, <1>2, SameDoesRoutes, StepsOfClone DEF BeforeBican, AfterChn

LEMMA UaiRoutes == ASSUME UpgradeRoutes, UpdateUai PROVE UpgradeRoutes'
<1>. DEFINE mid == update_nmn_uai_macvlan_dhcp_ranges(slsNets)
            new == rename_uai_bridge_reservation(mid)
<1>1. SameNets(slsNets, mid) /\ NetsKnown(mid)
  BY UaiSame, SameNetsKnown DEF UpgradeRoutes
<1>2. SameNets(mid, new)
  <2>. HIDE DEF mid
  <2>. QED BY <1>1, BlackholeSame
<1>3. SameNets(slsNets, new)
  BY <1>1, <1>2, SameNetsTrans
<1>4. Fails("uai") \/ Does("uai", new, "remove")
  BY DEF UpdateUai
<1>. HIDE DEF new
<1>5. CASE Fails("uai")
  BY <1>5, FailsRoutes DEF BeforeBican, AfterChn
<1>6. CASE Does("uai", new, "remove")
  BY <1>3, <1>6, SameDoesRoutes, StepsOfClone DEF BeforeBican, AfterChn
<1>. QED BY <1>4, <1>5, <1>6

\* A network that a run makes is in the block that it is made for.
LEMMA NetExcept ==
    ASSUME NEW net, IsNet(net), NEW cidr, NEW q
    PROVE  [net EXCEPT !.cidr = cidr, !.subnets = q] = [cidr |-> cidr, subnets |-> q, bgp |-> net.bgp, route |-> net.route]
<1>. DEFINE one == [net EXCEPT !.cidr = cidr]
            two == [one EXCEPT !.subnets = q]
<1>1. one = [cidr |-> cidr, subnets |-> net.subnets, bgp |-> net.bgp, route |-> net.route]
  BY DEF IsNet
<1>2. [net EXCEPT !.cidr = cidr, !.subnets = q] = two
  OBVIOUS
<1>. HIDE DEF one
<1>3. two = [cidr |-> cidr, subnets |-> q, bgp |-> net.bgp, route |-> net.route]
  BY <1>1
<1>. HIDE DEF two
<1>. QED BY <1>2, <1>3

LEMMA NetRecord ==
    ASSUME NEW cidr, NEW q
    PROVE  Net(cidr, q) = [cidr |-> cidr, subnets |-> q, bgp |-> NoNetwork.bgp, route |-> NoNetwork.route]
  BY NoNetworkIsNet, NetExcept DEF Net

\* A new network has the block that it is made with.
LEMMA NewNet == ASSUME NEW cidr, cidr # Raised, NEW q PROVE IsNet(Net(cidr, q)) /\ Net(cidr, q).cidr = cidr
<1>. DEFINE w == Net(cidr, q)
<1>1. w = [cidr |-> cidr, subnets |-> q, bgp |-> NoNetwork.bgp, route |-> NoNetwork.route]
  BY NetRecord
<1>. HIDE DEF w
<1>2. IsNet(w) /\ w.cidr = cidr
  BY <1>1 DEF IsNet
<1>. QED BY <1>2 DEF w

LEMMA OtherSubnetsNet ==
    ASSUME NEW net, IsNet(net), NEW q
    PROVE  IsNet([net EXCEPT !.subnets = q]) /\ [net EXCEPT !.subnets = q].cidr = net.cidr
<1>. DEFINE w == [net EXCEPT !.subnets = q]
<1>1. w = [cidr |-> net.cidr, subnets |-> q, bgp |-> net.bgp, route |-> net.route]
  BY DEF IsNet
<1>. HIDE DEF w
<1>2. IsNet(w) /\ w.cidr = net.cidr
  BY <1>1 DEF IsNet
<1>. QED BY <1>2 DEF w

LEMMA BlockNotRaised == \A b : b.base \in Nat => b # Raised
  BY DEF Raised, Cidr, Nil

WithNet(nets, n, net) == [nets EXCEPT ![n] = net]
\* A network is put in the place of another.
LEMMA OneNetKnown ==
    ASSUME NEW nets, NetsKnown(nets), NEW n \in SlsNetwork, NEW net, IsNet(net), net.cidr # Raised
    PROVE  /\ NetsKnown(WithNet(nets, n, net)) /\ WithNet(nets, n, net)[n] = net /\ net # NoNetwork
           /\ \A m \in SlsNetwork : m # n => WithNet(nets, n, net)[m] = nets[m]
<1>. DEFINE new == WithNet(nets, n, net)
<1>1. new = [m \in SlsNetwork |-> IF m = n THEN net ELSE nets[m]]
  BY DEF NetsKnown, WithNet
<1>. HIDE DEF new
<1>2. \A m \in SlsNetwork : IsNet(new[m]) /\ Known(new[m])
  BY <1>1 DEF NetsKnown, Known
<1>3. net # NoNetwork
  BY NoNetworkIsNet
<1>4. NetsKnown(new) /\ new[n] = net /\ \A m \in SlsNetwork : m # n => new[m] = nets[m]
  BY <1>1, <1>2 DEF NetsKnown
<1>. QED BY <1>3, <1>4 DEF new

\* A customer network that a run makes takes nobody else's away.
LEMMA MoreStaysReady ==
    ASSUME NEW nets, NetsKnown(nets), NEW n \in {"CAN", "CMN", "CHN"}, NEW net, IsNet(net), net.cidr # Raised,
           NEW step, NEW commands, commands[1].bican \in {"CAN", "CHN", "HSN"}, NEW options, NetsReady(nets, step, commands, options)
    PROVE  /\ NetsReady(WithNet(nets, n, net), step, commands, options) /\ NetsKnown(WithNet(nets, n, net))
           /\ WithNet(nets, n, net)[n] # NoNetwork
<1>. DEFINE new == WithNet(nets, n, net)
<1>1. /\ "BICAN" \in SlsNetwork /\ "HSN" \in SlsNetwork /\ "CAN" \in SlsNetwork
      /\ "CHN" \in SlsNetwork /\ commands[1].bican \in SlsNetwork /\ n \in SlsNetwork
  BY DEF SlsNetwork
<1>2. NetsKnown(new) /\ new[n] # NoNetwork /\ \A m \in SlsNetwork : m # n => new[m] = nets[m]
  <2>1. /\ NetsKnown(WithNet(nets, n, net)) /\ WithNet(nets, n, net)[n] = net /\ net # NoNetwork
        /\ \A m \in SlsNetwork : m # n => WithNet(nets, n, net)[m] = nets[m]
    BY <1>1, OneNetKnown
  <2>. QED BY <2>1
<1>. HIDE DEF new
<1>3. NetsReady(new, step, commands, options)
  BY <1>1, <1>2 DEF NetsReady, RoutedTo
<1>. QED BY <1>2, <1>3 DEF new

\* The customer networks.
LEMMA StartCmnRoutes == ASSUME UpgradeRoutes, StartCmn PROVE UpgradeRoutes'
<1>1. CASE CmnDone(slsNets)
  <2>1. Does("cmn", slsNets, "static pool")
    BY <1>1 DEF StartCmn
  <2>. QED BY <2>1, NetsSameRefl, SameDoesRoutes, StepsOfClone DEF UpgradeRoutes, BeforeBican, AfterChn
<1>2. CASE ~CmnDone(slsNets)
  <2>1. /\ slsPc = "cmn" /\ slsPc' = "CMN subnets" /\ UNCHANGED <<slsFile, slsOptions, slsCommands, slsNets>>
        /\ \E names : slsClone' = [cidr |-> slsNets["CAN"].cidr, made |-> <<>>, todo |-> names]
    BY <1>2 DEF StartCmn, StartsClone, SlsCalls, SlsGoTo
  <2>2. slsNets["CAN"].cidr # Raised
    BY <1>2 DEF CmnDone, UpgradeRoutes, NetsKnown, Known, SlsNetwork
  <2>3. NetsReady(slsNets, "CMN subnets", slsCommands, slsOptions)
    BY <2>1 DEF UpgradeRoutes, NetsReady, Resting, AfterChn
  <2>4. IsClone(slsClone') /\ slsClone'.cidr # Raised
    <3>1. PICK names : slsClone' = [cidr |-> slsNets["CAN"].cidr, made |-> <<>>, todo |-> names]
      BY <2>1
    <3>2. IsClone(slsClone') /\ slsClone'.cidr = slsNets["CAN"].cidr
      BY <3>1 DEF IsClone
    <3>. QED BY <2>2, <3>2
  <2>. QED BY <2>1, <2>3, <2>4 DEF UpgradeRoutes, SlsSteps, BeforeBican
<1>. QED BY <1>1, <1>2

LEMMA StartCanRoutes == ASSUME UpgradeRoutes, StartCan PROVE UpgradeRoutes'
<1>1. CASE CanDone(slsNets)
  <2>1. Does("can", slsNets, "bgp")
    BY <1>1 DEF StartCan
  <2>. QED BY <2>1, NetsSameRefl, SameDoesRoutes, StepsOfClone DEF UpgradeRoutes, BeforeBican, AfterChn
<1>2. CASE ~CanDone(slsNets)
  <2>. DEFINE sub == [slsNets["CAN"] EXCEPT !.subnets = [i \in DOMAIN @ |-> [@[i] EXCEPT !.vlan = slsOptions.canVlan]]]
              net == [sub EXCEPT !.cidr = slsOptions.can]
              new == [slsNets EXCEPT !["CAN"] = net]
  <2>1. /\ slsPc = "can" /\ slsPc' = "CAN subnets" /\ UNCHANGED <<slsFile, slsOptions, slsCommands>>
        /\ slsNets' = new
        /\ \E names : slsClone' = [cidr |-> new["CAN"].cidr, made |-> <<>>, todo |-> names]
    BY <1>2 DEF StartCan, StartsClone, SlsCalls, SlsGoTo, OnSubnets
  <2>2. IsNet(slsNets["CAN"]) /\ NetsKnown(slsNets) /\ "CAN" \in SlsNetwork
    BY DEF UpgradeRoutes, NetsKnown, SlsNetwork
  <2>3. IsNet(sub)
    BY <2>2, OnSubnetsSame DEF SameNet
  <2>. HIDE DEF sub
  <2>4. net = [cidr |-> slsOptions.can, subnets |-> sub.subnets, bgp |-> sub.bgp, route |-> sub.route]
    BY <2>3 DEF IsNet
  <2>. HIDE DEF net
  <2>5. IsNet(net) /\ net.cidr = slsOptions.can
    BY <2>4 DEF IsNet
  <2>6. slsOptions.can # Raised /\ slsCommands[1].bican \in {"CAN", "CHN", "HSN"}
    BY FirstIsCommand, UpgradeOptionsAssumption, BlockNotRaised DEF IsBlock
  <2>7. NetsReady(slsNets, "can", slsCommands, slsOptions)
    BY <2>1 DEF UpgradeRoutes, Resting
  <2>8. NetsReady(new, "can", slsCommands, slsOptions) /\ NetsKnown(new)
    <3>. HIDE DEF new
    <3>1. new = WithNet(slsNets, "CAN", net)
      BY DEF new, WithNet
    <3>. QED BY <2>2, <2>5, <2>6, <2>7, <3>1, MoreStaysReady
  <2>9. new["CAN"] = net
    BY <2>2 DEF NetsKnown
  <2>. HIDE DEF new
  <2>10. NetsReady(new, "CAN subnets", slsCommands, slsOptions)
    BY <2>8 DEF NetsReady, AfterChn
  <2>11. IsClone(slsClone') /\ slsClone'.cidr # Raised
    <3>1. PICK names : slsClone' = [cidr |-> new["CAN"].cidr, made |-> <<>>, todo |-> names]
      BY <2>1
    <3>2. IsClone(slsClone') /\ slsClone'.cidr = new["CAN"].cidr
      BY <3>1 DEF IsClone
    <3>. QED BY <2>5, <2>6, <2>9, <3>2
  <2>. QED BY <2>1, <2>8, <2>10, <2>11 DEF UpgradeRoutes, SlsSteps, BeforeBican, AfterChn
<1>. QED BY <1>1, <1>2

LEMMA CloneSubnetRoutes == ASSUME UpgradeRoutes, CloneSubnet PROVE UpgradeRoutes'
<1>1. /\ slsPc \in DOMAIN CloneTo /\ slsPc' \in {"failed", slsPc}
      /\ UNCHANGED <<slsFile, slsOptions, slsCommands, slsNets>>
      /\ \/ slsClone' = slsClone
         \/ \E made : slsClone' = [slsClone EXCEPT !.made = made, !.todo = Tail(@)]
  BY DEF CloneSubnet, slsLoaded, SlsCalls, SlsGoTo
<1>2. IsClone(slsClone') /\ slsClone'.cidr = slsClone.cidr
  BY <1>1 DEF UpgradeRoutes, IsClone
<1>. QED BY <1>1, <1>2, StepsOfClone DEF UpgradeRoutes, SlsSteps, Resting, CloneTo

LEMMA EndCloneRoutes == ASSUME UpgradeRoutes, EndClone PROVE UpgradeRoutes'
<1>. DEFINE to == CloneTo[slsPc]
            n == to.net
<1>0. slsPc \in {"CMN subnets", "CAN subnets"} /\ slsClone.cidr # Raised
  BY StepsOfClone DEF EndClone, UpgradeRoutes
<1>1. /\ slsPc = "CMN subnets" => n = "CMN" /\ to.next = "static pool"
      /\ slsPc = "CAN subnets" => n = "CAN" /\ to.next = "bgp"
  BY <1>0 DEF CloneTo
<1>2. PICK q : slsNets' = [slsNets EXCEPT ![n] = [[Net(slsClone.cidr, slsClone.made) EXCEPT !.subnets =
                 [i \in DOMAIN @ |-> SupernetHack(@[i], slsClone.cidr)]] EXCEPT !.subnets = q]]
  BY DEF EndClone, OnSubnet, OnSubnets
<1>3. slsPc' = to.next /\ UNCHANGED <<slsFile, slsOptions, slsCommands>> /\ slsClone' = NotCloning
  BY DEF EndClone, SlsCalls, SlsGoTo
<1>. HIDE DEF to
<1>. DEFINE net == [[Net(slsClone.cidr, slsClone.made) EXCEPT !.subnets =
                 [i \in DOMAIN @ |-> SupernetHack(@[i], slsClone.cidr)]] EXCEPT !.subnets = q]
<1>4. IsNet(net) /\ net.cidr = slsClone.cidr
  <2>. DEFINE first == Net(slsClone.cidr, slsClone.made)
              p == [i \in DOMAIN first.subnets |-> SupernetHack(first.subnets[i], slsClone.cidr)]
              second == [first EXCEPT !.subnets = p]
              third == [second EXCEPT !.subnets = q]
  <2>1. IsNet(first) /\ first.cidr = slsClone.cidr
    BY <1>0, NewNet
  <2>. HIDE DEF first, p
  <2>2. IsNet(second) /\ second.cidr = slsClone.cidr
    BY <2>1, OtherSubnetsNet
  <2>. HIDE DEF second
  <2>3. IsNet(third) /\ third.cidr = slsClone.cidr
    BY <2>2, OtherSubnetsNet
  <2>. HIDE DEF third
  <2>4. net = third
    BY DEF third, second, first, p
  <2>. QED BY <2>3, <2>4
<1>. HIDE DEF net
<1>5. slsNets' = WithNet(slsNets, n, net)
  BY <1>2 DEF net, WithNet
<1>6. slsCommands[1].bican \in {"CAN", "CHN", "HSN"} /\ NetsKnown(slsNets) /\ NetsReady(slsNets, slsPc, slsCommands, slsOptions)
  BY <1>0, FirstIsCommand DEF UpgradeRoutes, Resting
<1>7. n \in {"CAN", "CMN", "CHN"}
  BY <1>0, <1>1
<1>8. NetsReady(slsNets', slsPc, slsCommands, slsOptions) /\ NetsKnown(slsNets')
  <2>. DEFINE new == WithNet(slsNets, n, net)
  <2>1. net.cidr # Raised
    BY <1>0, <1>4
  <2>2. NetsReady(new, slsPc, slsCommands, slsOptions) /\ NetsKnown(new)
    BY <1>4, <1>6, <1>7, <2>1, MoreStaysReady
  <2>. QED BY <1>5, <2>2
<1>9. NetsReady(slsNets', slsPc', slsCommands, slsOptions)
  BY <1>0, <1>1, <1>3, <1>8 DEF NetsReady, AfterChn
<1>10. IsClone(slsClone')
  BY <1>3 DEF NotCloning, IsClone
<1>11. slsPc' \in SlsSteps /\ slsPc' \notin {"CMN subnets", "CAN subnets", "written"}
  BY <1>0, <1>1, <1>3 DEF SlsSteps, BeforeBican, AfterChn
<1>. QED BY <1>3, <1>8, <1>9, <1>10, <1>11, StepsOfClone DEF UpgradeRoutes, CloneTo

LEMMA ChnRoutes == ASSUME UpgradeRoutes, CreateChn PROVE UpgradeRoutes'
<1>. DEFINE chn == create_chn_network(slsNets, slsOptions)
            new == [slsNets EXCEPT !["CHN"] = chn]
<1>0. slsPc = "chn" /\ NetsKnown(slsNets) /\ slsCommands[1].bican \in {"CAN", "CHN", "HSN"} /\ NetsReady(slsNets, "chn", slsCommands, slsOptions)
  BY FirstIsCommand DEF CreateChn, UpgradeRoutes, Resting
<1>1. CASE ChnDone(slsNets)
  <2>1. Does("chn", slsNets, "can")
    BY <1>1 DEF CreateChn
  <2>2. NetsReady(slsNets, "can", slsCommands, slsOptions)
    BY <1>0, <1>1 DEF NetsReady, ChnDone, AfterChn
  <2>3. "chn" \notin Resting /\ "can" \in SlsSteps /\ "can" \notin DOMAIN CloneTo
    BY StepKinds, StepsOfClone
  <2>. QED BY <1>0, <2>1, <2>2, <2>3, DoesRoutes
<1>2. CASE Fails("chn")
  BY <1>2, FailsRoutes, StepKinds
<1>3. CASE Does("chn", new, "can")
  <2>1. IsNet(chn) /\ chn.cidr = slsOptions.chn /\ slsOptions.chn # Raised
    BY NewNet, FirstIsCommand, UpgradeOptionsAssumption, BlockNotRaised DEF create_chn_network, Chn, IsBlock
  <2>. HIDE DEF chn
  <2>. HIDE DEF new
  <2>2. NetsReady(new, "chn", slsCommands, slsOptions) /\ NetsKnown(new) /\ new["CHN"] # NoNetwork
    <3>1. new = WithNet(slsNets, "CHN", chn)
      BY DEF new, WithNet
    <3>. QED BY <1>0, <2>1, <3>1, MoreStaysReady
  <2>3. NetsReady(new, "can", slsCommands, slsOptions)
    BY <2>2 DEF NetsReady, AfterChn
  <2>4. "chn" \notin Resting /\ "can" \in SlsSteps /\ "can" \notin DOMAIN CloneTo
    BY StepKinds, StepsOfClone
  <2>. QED BY <1>3, <2>2, <2>3, <2>4, DoesRoutes
<1>. QED BY <1>1, <1>2, <1>3 DEF CreateChn

\* A first run does not remove the network that it routes users to; one that does is
\* another run, asked for another network.
LEMMA RemoveUnusedRoutes == ASSUME UpgradeRoutes, RemoveUnused PROVE UpgradeRoutes'
<1>. DEFINE new == [n \in SlsNetwork |-> IF n \in Unused(slsOptions) THEN NoNetwork ELSE slsNets[n]]
            first == slsCommands[1].bican
<1>1. Does("remove", new, "bican")
  BY DEF RemoveUnused
<1>2. NetsKnown(slsNets) /\ NetsReady(slsNets, "remove", slsCommands, slsOptions)
  BY <1>1 DEF UpgradeRoutes, Does, Resting
<1>3. Unused(slsOptions) \subseteq {"CAN", "CHN"} /\ slsOptions.bican \notin Unused(slsOptions)
  BY FirstIsCommand DEF Unused
<1>4. NetsKnown(new)
  BY <1>2, NoNetworkIsNet DEF NetsKnown, Known
<1>5. NetsReady(new, "bican", slsCommands, slsOptions)
  <2>1. "BICAN" \in SlsNetwork /\ "HSN" \in SlsNetwork /\ first \in SlsNetwork /\ first \in {"CAN", "CHN", "HSN"}
    BY FirstIsCommand DEF SlsNetwork
  <2>2. /\ new["BICAN"] = slsNets["BICAN"] /\ new["HSN"] = slsNets["HSN"]
        /\ first \notin Unused(slsOptions) => new[first] = slsNets[first]
    BY <1>3, <2>1
  <2>3. first \in Unused(slsOptions) => (RouteRemoved(slsCommands) /\ slsOptions # slsCommands[1])
    BY <1>3 DEF UpgradeRoutes, RouteRemoved
  <2>. HIDE DEF new
  <2>4. CASE slsNets["BICAN"] # NoNetwork
    BY <1>2, <2>2, <2>3, <2>4 DEF NetsReady, RoutedTo
  <2>5. CASE slsNets["BICAN"] = NoNetwork
    <3>1. slsOptions = slsCommands[1] /\ new[first] # NoNetwork /\ new["HSN"] # NoNetwork
      BY <1>2, <2>1, <2>2, <2>3, <2>5 DEF NetsReady, AfterChn
    <3>. QED BY <2>2, <2>5, <3>1 DEF NetsReady, AfterChn
  <2>. QED BY <2>4, <2>5
<1>. HIDE DEF new
<1>6. "remove" \notin Resting /\ "bican" \in SlsSteps /\ "bican" \notin DOMAIN CloneTo
  BY StepKinds, StepsOfClone
<1>. QED BY <1>1, <1>4, <1>5, <1>6, DoesRoutes

\* The route is made when the network is there.
LEMMA BicanRoutes == ASSUME UpgradeRoutes, CreateBican PROVE UpgradeRoutes'
<1>. DEFINE new == create_bican_network(slsNets, slsOptions.bican)
<1>1. Does("bican", new, "write")
  BY DEF CreateBican
<1>2. /\ slsOptions.bican \in {"CAN", "CHN", "HSN"} /\ slsCommands[1].bican \in {"CAN", "CHN", "HSN"} /\ NetsKnown(slsNets)
      /\ NetsReady(slsNets, "bican", slsCommands, slsOptions)
  BY <1>1, FirstIsCommand DEF UpgradeRoutes, Does, Resting
<1>3. NetsKnown(new) /\ NetsReady(new, "write", slsCommands, slsOptions)
  <2>1. CASE slsNets["BICAN"] # NoNetwork
    BY <1>2, <2>1 DEF create_bican_network, NetsReady
  <2>2. CASE slsNets["BICAN"] = NoNetwork
    <3>. DEFINE net == [Net(Cidr(0, 0), <<>>) EXCEPT !.route = slsOptions.bican]
    <3>1. new = WithNet(slsNets, "BICAN", net)
      BY <2>2 DEF create_bican_network, WithNet
    <3>2. net = [cidr |-> Cidr(0, 0), subnets |-> <<>>, bgp |-> NoNetwork.bgp, route |-> slsOptions.bican]
      BY NetRecord
    <3>. HIDE DEF net
    <3>3. IsNet(net) /\ net.cidr # Raised /\ net.route = slsOptions.bican
      BY <3>2 DEF IsNet, Raised, Cidr, Nil
    <3>. HIDE DEF new
    <3>4. "BICAN" \in SlsNetwork /\ slsOptions.bican \in SlsNetwork /\ slsOptions.bican # "BICAN"
      BY <1>2 DEF SlsNetwork
    <3>5. NetsKnown(new) /\ new["BICAN"] = net /\ net # NoNetwork /\ \A m \in SlsNetwork : m # "BICAN" => new[m] = slsNets[m]
      BY <1>2, <3>1, <3>3, <3>4, OneNetKnown
    <3>. QED BY <1>2, <2>2, <3>3, <3>4, <3>5 DEF NetsReady, RoutedTo
  <2>. QED BY <2>1, <2>2
<1>. HIDE DEF new
<1>4. "bican" \notin Resting /\ "write" \in SlsSteps /\ "write" \notin DOMAIN CloneTo
  BY StepKinds, StepsOfClone
<1>. QED BY <1>1, <1>3, <1>4, DoesRoutes

\* The file has the networks of the run.
LEMMA WriteRoutes == ASSUME UpgradeRoutes, WriteSls PROVE UpgradeRoutes'
<1>. DEFINE new == NetworksToSls(slsNets)
<1>1. /\ slsPc = "write" /\ slsPc' = "written" /\ slsFile'.nets = new
      /\ UNCHANGED <<slsNets, slsOptions, slsCommands, slsClone>>
  BY DEF WriteSls, slsLoaded
<1>2. SameNets(slsNets, new) /\ NetsKnown(slsNets)
  BY NetworksToSlsSame DEF UpgradeRoutes
<1>3. slsCommands[1].bican \in {"CAN", "CHN", "HSN"} /\ NetsReady(slsNets, "write", slsCommands, slsOptions)
  BY <1>1, FirstIsCommand DEF UpgradeRoutes, Resting
<1>. HIDE DEF new
<1>4. NetsKnown(new) /\ NetsReady(new, "write", slsCommands, slsOptions)
  BY <1>2, <1>3, SameNetsKnown, ReadyStaysReady
<1>5. FileReady(new, slsCommands, slsOptions) /\ new["BICAN"] # NoNetwork
  BY <1>4 DEF NetsReady, FileReady
<1>. QED BY <1>1, <1>4, <1>5, StepsOfClone DEF UpgradeRoutes, SlsSteps, Resting, CloneTo

\* Each step of the upgrade.
LEMMA StepRoutes == ASSUME UpgradeRoutes, SlsNext PROVE UpgradeRoutes'
  BY LoadRoutes, SwitchesRoutes, BalancersRoutes, StartCmnRoutes, StartCanRoutes, CloneSubnetRoutes,
     EndCloneRoutes, StaticPoolRoutes, KubeApiRoutes, ChnRoutes, BgpRoutes, UaiRoutes, RemoveUnusedRoutes,
     BicanRoutes, WriteRoutes DEF SlsNext

LEMMA StutterRoutes == ASSUME UpgradeRoutes, UNCHANGED slsVars PROVE UpgradeRoutes'
  BY StepsOfClone DEF UpgradeRoutes, slsVars, CloneTo

LEMMA InitRoutes == SlsInit => UpgradeRoutes
<1>. SUFFICES ASSUME SlsInit PROVE UpgradeRoutes
  OBVIOUS
<1>1. NetsKnown(slsFile.nets) /\ FileReady(slsFile.nets, slsCommands, slsOptions)
  BY SlsInputsAssumption DEF SlsInit, NetsKnown, FileReady
<1>2. NetsKnown(slsNets)
  BY NoNetworkIsNet DEF SlsInit, NetsKnown, Known
<1>3. IsClone(slsClone)
  BY DEF SlsInit, NotCloning, IsClone
<1>4. slsCommands \in Seq(UpgradeOptions) /\ slsOptions \in ToSet(slsCommands)
  BY DEF SlsInit, ToSet
<1>. QED BY <1>1, <1>2, <1>3, <1>4, StepsOfClone DEF SlsInit, UpgradeRoutes, SlsSteps, Resting

-----------------------------------------------------------------------------
(* So do the move to the CHN and the allocation of addresses for UANs.     *)

\* Routes in SLS and in the files of the move to the CHN.
LEMMA SameSent == ASSUME NEW old, NEW new, Sent(old), SameNets(old, new) PROVE Sent(new)
<1>1. "BICAN" \in SlsNetwork
  BY DEF SlsNetwork
<1>. QED BY <1>1, SameNetsKnown DEF Sent, Routed

LEMMA LoadedSame ==
    ASSUME NEW file \in ChnFile, Sent(chnFiles[file])
    PROVE  SameNets(chnFiles[file], Loaded(file)) /\ Sent(Loaded(file))
<1>1. SameNets(chnFiles[file], Loaded(file))
  BY NetworkReadSame DEF SameNets, Loaded, Sent, NetsKnown
<1>. QED BY <1>1, SameSent

LEMMA NoFileSent == Sent(NoFile)
  BY NoNetworkIsNet DEF Sent, NetsKnown, Routed, Known, NoFile, SlsNetwork

LEMMA MakesRoutes ==
    ASSUME MoveRoutes, NEW file \in ChnFile \ {"dump"}, NEW nets, Sent(nets), Makes(file, nets), chnPc' # "chn"
    PROVE  MoveRoutes'
<1>. DEFINE new == NetworksToSls(nets)
<1>1. Sent(new)
  <2>1. SameNets(nets, new)
    BY NetworksToSlsSame DEF Sent
  <2>. QED BY <2>1, SameSent
<1>2. chnSls' = chnSls /\ chnFiles' = [chnFiles EXCEPT ![file] = new]
  BY DEF Makes
<1>. HIDE DEF new
<1>. QED BY <1>1, <1>2 DEF MoveRoutes

\* What the upgrade wrote is what the move begins with.
LEMMA DumpRoutes == ASSUME UpgradeRoutes, MoveRoutes, DumpSls PROVE MoveRoutes'
<1>1. PICK h, c : /\ SameNet(slsFile.nets["HSN"], h) /\ SameNet(slsFile.nets["CHN"], c)
                  /\ chnSls' = [slsFile.nets EXCEPT !["HSN"] = h, !["CHN"] = c]
  <2>1. IsNet(slsFile.nets["HSN"]) /\ IsNet(slsFile.nets["CHN"])
    BY DEF UpgradeRoutes, NetsKnown, SlsNetwork
  <2>. DEFINE Hsn(rs) == OnSubnet(slsFile.nets["HSN"], HsnBase, LAMBDA s : [s EXCEPT !.reservations = rs])
              Given(rs) == OnSubnet(slsFile.nets["CHN"], Bootstrap, LAMBDA s : WithComputes([reservations |-> rs], s))
  <2>2. \A rs : SameNet(slsFile.nets["HSN"], Hsn(rs))
    BY <2>1, OnSubnetsSame DEF OnSubnet, OnSubnets
  <2>3. \A rs : SameNet(slsFile.nets["CHN"], Given(rs))
    <3>. HIDE DEF Hsn
    <3>. QED BY <2>1, OnSubnetsSame DEF OnSubnet, OnSubnets
  <2>4. PICK before, now \in HsnReservations : chnSls' = [slsFile.nets EXCEPT !["HSN"] = Hsn(now), !["CHN"] = Given(before)]
    BY DEF DumpSls
  <2>. HIDE DEF Hsn, Given
  <2>. QED BY <2>2, <2>3, <2>4
<1>. DEFINE mid == [slsFile.nets EXCEPT !["HSN"] = h]
            new == [mid EXCEPT !["CHN"] = c]
<1>2. NetsKnown(slsFile.nets) /\ "HSN" \in SlsNetwork /\ "CHN" \in SlsNetwork /\ "BICAN" \in SlsNetwork
  BY DEF UpgradeRoutes, SlsNetwork
<1>3. SameNets(slsFile.nets, mid) /\ mid["CHN"] = slsFile.nets["CHN"]
  BY <1>1, <1>2, OneNetSame DEF NetsKnown
<1>4. chnSls' = new
  BY <1>1
<1>. HIDE DEF mid
<1>5. SameNets(mid, new)
  BY <1>1, <1>2, <1>3, SameNetsKnown, OneNetSame
<1>. HIDE DEF new
<1>6. SameNets(slsFile.nets, new)
  BY <1>3, <1>5, SameNetsTrans
<1>7. Sent(new)
  <2>1. Sent(slsFile.nets)
    BY DEF DumpSls, UpgradeRoutes, Sent, Routed, SlsNetwork
  <2>. QED BY <1>6, <2>1, SameSent
<1>8. new["BICAN"] # NoNetwork
  <2>1. slsFile.nets["BICAN"] # NoNetwork
    BY NoNetworkIsNet DEF DumpSls
  <2>. QED BY <1>2, <1>6, <2>1, SameNetsKnown
<1>9. chnFiles' = [chnFiles EXCEPT !["dump"] = new] /\ "dump" \in ChnFile
  BY <1>4 DEF DumpSls, ChnFile
<1>. QED BY <1>4, <1>7, <1>8, <1>9 DEF MoveRoutes

\* Routing to the CHN, which is made in the same step.
LEMMA RoutedToChn ==
    ASSUME NEW nets, NetsKnown(nets), NEW chn, IsNet(chn), chn.cidr # Raised, nets["BICAN"] # NoNetwork
    PROVE  Sent([nets EXCEPT !["CHN"] = chn, !["BICAN"].route = "CHN"])
<1>. DEFINE mid == WithNet(nets, "CHN", chn)
            bican == [nets["BICAN"] EXCEPT !.route = "CHN"]
            new == WithNet(mid, "BICAN", bican)
<1>0. "CHN" \in SlsNetwork /\ "BICAN" \in SlsNetwork
  BY DEF SlsNetwork
<1>1. [nets EXCEPT !["CHN"] = chn, !["BICAN"].route = "CHN"] = new
  BY DEF WithNet
<1>2. NetsKnown(mid) /\ mid["CHN"] = chn /\ chn # NoNetwork /\ mid["BICAN"] = nets["BICAN"]
  <2>1. /\ NetsKnown(WithNet(nets, "CHN", chn)) /\ WithNet(nets, "CHN", chn)["CHN"] = chn /\ chn # NoNetwork
        /\ \A m \in SlsNetwork : m # "CHN" => WithNet(nets, "CHN", chn)[m] = nets[m]
    BY <1>0, OneNetKnown
  <2>. QED BY <1>0, <2>1
<1>. HIDE DEF mid
<1>3. IsNet(bican) /\ bican.cidr = nets["BICAN"].cidr /\ bican.route = "CHN"
  <2>1. IsNet(nets["BICAN"])
    BY <1>0 DEF NetsKnown
  <2>2. bican = [cidr |-> nets["BICAN"].cidr, subnets |-> nets["BICAN"].subnets,
                 bgp |-> nets["BICAN"].bgp, route |-> "CHN"]
    BY <2>1 DEF IsNet
  <2>. HIDE DEF bican
  <2>. QED BY <2>2 DEF IsNet
<1>4. bican.cidr # Raised
  BY <1>0, <1>3 DEF NetsKnown, Known
<1>. HIDE DEF bican
<1>5. NetsKnown(new) /\ new["BICAN"] = bican /\ new["CHN"] = chn
  <2>1. /\ NetsKnown(WithNet(mid, "BICAN", bican)) /\ WithNet(mid, "BICAN", bican)["BICAN"] = bican
        /\ \A m \in SlsNetwork : m # "BICAN" => WithNet(mid, "BICAN", bican)[m] = mid[m]
    BY <1>0, <1>2, <1>3, <1>4, OneNetKnown
  <2>. QED BY <1>0, <1>2, <2>1
<1>. HIDE DEF new
<1>. QED BY <1>0, <1>1, <1>2, <1>3, <1>5 DEF Sent, Routed

\* The networks that sls_can_to_chn.py writes.
FoundChn(nets, block, edge) ==
    IF nets["CHN"] # NoNetwork THEN nets["CHN"] ELSE create_metallb_pool(chn_network(nets, block, edge))
WithChn(nets, chn) == [nets EXCEPT !["CHN"] = chn, !["BICAN"].route = "CHN"]

LEMMA ChnIsSent ==
    ASSUME NEW nets, Sent(nets), nets["BICAN"] # NoNetwork, NEW block \in ChnBlocks, NEW edge
    PROVE  LET new == WithChn(nets, FoundChn(nets, block, edge))
               last == remove_uai_nmn_dhcp_ranges(new)
           IN  Sent(last) /\ \A n \in SlsNetwork \ {"NMN"} : last[n] = new[n]
<1>. DEFINE chn == FoundChn(nets, block, edge)
            new == WithChn(nets, chn)
            last == remove_uai_nmn_dhcp_ranges(new)
<1>1. IsNet(chn) /\ chn.cidr # Raised
  <2>1. CASE nets["CHN"] # NoNetwork
    BY <2>1 DEF Sent, NetsKnown, Known, FoundChn, SlsNetwork
  <2>2. CASE nets["CHN"] = NoNetwork
    <3>. DEFINE first == chn_network(nets, block, edge)
    <3>1. IsNet(first) /\ first.cidr = block
      BY NewNet, BlockNotRaised, ChnBlocksAssumption DEF chn_network, Chn
    <3>. HIDE DEF first
    <3>2. PICK q : create_metallb_pool(first) = [[first EXCEPT !.subnets = q] EXCEPT !.bgp = TRUE]
      BY DEF create_metallb_pool, OnSubnets
    <3>. DEFINE second == [first EXCEPT !.subnets = q]
    <3>3. IsNet(second) /\ second.cidr = block
      BY <3>1, OtherSubnetsNet
    <3>. HIDE DEF second
    <3>. DEFINE yes == TRUE
                third == [second EXCEPT !.bgp = yes]
    <3>4. chn = third
      BY <2>2, <3>2 DEF first, second, FoundChn
    <3>. HIDE DEF yes, chn
    <3>5. third = [cidr |-> second.cidr, subnets |-> second.subnets, bgp |-> yes, route |-> second.route]
      BY <3>3 DEF IsNet
    <3>. HIDE DEF third
    <3>6. IsNet(third) /\ third.cidr = block
      BY <3>3, <3>5 DEF IsNet
    <3>7. block # Raised
      BY BlockNotRaised, ChnBlocksAssumption
    <3>. QED BY <3>4, <3>6, <3>7
  <2>. QED BY <2>1, <2>2
<1>2. Sent(new)
  <2>. HIDE DEF chn
  <2>. QED BY <1>1, RoutedToChn DEF Sent, WithChn
<1>. HIDE DEF new
<1>3. "NMN" \in SlsNetwork /\ IsNet(new["NMN"]) /\ NetsKnown(new)
  BY <1>2 DEF SlsNetwork, Sent, NetsKnown
<1>4. SameNets(new, last)
  BY <1>3, OneNetSame, OnSubnetsSame DEF remove_uai_nmn_dhcp_ranges, OnSubnet, OnSubnets
<1>5. \A n \in SlsNetwork \ {"NMN"} : last[n] = new[n]
  BY <1>3 DEF remove_uai_nmn_dhcp_ranges, NetsKnown
<1>. HIDE DEF last
<1>6. Sent(last)
  BY <1>2, <1>4, SameSent
<1>. QED BY <1>5, <1>6 DEF last, new, chn

\* The actions of the move.
LEMMA CanToChnSteps ==
    ASSUME MoveRoutes, SlsCanToChn
    PROVE  LET nets == Loaded("dump")
               chn(block, edge) == FoundChn(nets, block, edge)
           IN  /\ Sent(nets) /\ nets["BICAN"] # NoNetwork
               /\ \/ chnPc' = "failed" /\ UNCHANGED <<chnSls, chnFiles>>
                  \/ \E block \in ChnBlocks, edge \in {1, 2} :
                        /\ ~(nets["CHN"] = NoNetwork /\ ChnFails(chn(block, edge))) /\ chnPc' = "load"
                        /\ Makes("chn", remove_uai_nmn_dhcp_ranges(WithChn(nets, chn(block, edge))))
<1>1. "dump" \in ChnFile /\ "BICAN" \in SlsNetwork /\ chnPc = "chn"
  BY DEF ChnFile, SlsNetwork, SlsCanToChn
<1>2. Sent(Loaded("dump")) /\ Loaded("dump")["BICAN"] # NoNetwork
  BY <1>1, LoadedSame, SameNetsKnown DEF MoveRoutes, Sent
<1>. QED BY <1>2 DEF SlsCanToChn, FoundChn, WithChn

LEMMA CanToChnRoutes == ASSUME MoveRoutes, SlsCanToChn PROVE MoveRoutes'
<1>. DEFINE nets == Loaded("dump")
            Moved(block, edge) == remove_uai_nmn_dhcp_ranges(WithChn(nets, FoundChn(nets, block, edge)))
<1>1. CASE chnPc' = "failed" /\ UNCHANGED <<chnSls, chnFiles>>
  BY <1>1 DEF MoveRoutes
<1>2. ASSUME NEW block \in ChnBlocks, NEW edge \in {1, 2}, Makes("chn", Moved(block, edge)), chnPc' = "load"
      PROVE  MoveRoutes'
  <2>1. Sent(nets) /\ nets["BICAN"] # NoNetwork
    BY CanToChnSteps
  <2>. HIDE DEF nets
  <2>2. Sent(Moved(block, edge))
    BY <2>1, ChnIsSent
  <2>3. "chn" \in ChnFile \ {"dump"}
    BY DEF ChnFile
  <2>. QED BY <1>2, <2>2, <2>3, MakesRoutes
<1>. QED BY <1>1, <1>2, CanToChnSteps

LEMMA PutIsSent ==
    ASSUME NEW nets, Sent(nets), nets["CHN"] # NoNetwork, NEW s
    PROVE  Sent([nets EXCEPT !["CHN"].subnets = Put(@, s)])
<1>. DEFINE chn == nets["CHN"]
            q == Put(chn.subnets, s)
            net == [chn EXCEPT !.subnets = q]
            new == [nets EXCEPT !["CHN"] = net]
<1>1. new = [nets EXCEPT !["CHN"].subnets = Put(@, s)]
  OBVIOUS
<1>2. "CHN" \in SlsNetwork /\ IsNet(chn)
  BY DEF Sent, NetsKnown, SlsNetwork
<1>3. SameNet(chn, net)
  <2>. HIDE DEF q
  <2>1. IsNet(net) /\ net.cidr = chn.cidr
    <3>. HIDE DEF chn
    <3>. QED BY <1>2, OtherSubnetsNet
  <2>2. net.route = chn.route
    <3>. HIDE DEF chn
    <3>. QED BY <1>2 DEF IsNet
  <2>. HIDE DEF net
  <2>. QED BY <2>1, <2>2 DEF SameNet
<1>. HIDE DEF net
<1>4. SameNets(nets, new)
  BY <1>2, <1>3, OneNetSame DEF Sent
<1>. HIDE DEF new
<1>5. Sent(new)
  BY <1>4, SameSent
<1>. QED BY <1>1, <1>5

LEMMA AddComputesRoutes == ASSUME MoveRoutes, AddComputes PROVE MoveRoutes'
<1>. DEFINE nets == Loaded("chn")
<1>1. "chn" \in ChnFile /\ "computes" \in ChnFile \ {"dump"}
  BY DEF ChnFile
<1>2. Sent(nets)
  BY <1>1, LoadedSame DEF MoveRoutes
<1>3. CASE UNCHANGED <<chnSls, chnFiles>> /\ chnPc' = "delete"
  BY <1>3 DEF MoveRoutes
<1>4. ASSUME NEW s, nets["CHN"] # NoNetwork, chnPc' = "load computes",
             Makes("computes", [nets EXCEPT !["CHN"].subnets = Put(@, s)])
      PROVE  MoveRoutes'
  <2>. HIDE DEF nets
  <2>1. Sent([nets EXCEPT !["CHN"].subnets = Put(@, s)])
    BY <1>2, <1>4, PutIsSent
  <2>. QED BY <1>1, <1>4, <2>1, MakesRoutes
<1>. QED BY <1>3, <1>4 DEF AddComputes

\* The CAN goes only when nobody is routed to it.
LEMMA WithoutCanSent ==
    ASSUME NEW nets, Sent(nets), MayDeleteCan(nets) PROVE Sent([nets EXCEPT !["CAN"] = NoNetwork])
<1>. DEFINE new == [nets EXCEPT !["CAN"] = NoNetwork]
<1>1. new = [n \in SlsNetwork |-> IF n = "CAN" THEN NoNetwork ELSE nets[n]]
  BY DEF Sent, NetsKnown
<1>. HIDE DEF new
<1>2. NetsKnown(new)
  BY <1>1, NoNetworkIsNet DEF Sent, NetsKnown, Known
<1>3. "BICAN" \in SlsNetwork /\ "CHN" \in SlsNetwork
  BY DEF SlsNetwork
<1>4. new["BICAN"] = nets["BICAN"] /\ new["CHN"] = nets["CHN"]
  BY <1>1, <1>3
<1>5. Sent(new)
  BY <1>2, <1>3, <1>4 DEF MayDeleteCan, Routed, Sent
<1>. QED BY <1>5 DEF new

LEMMA DeleteCanRoutes == ASSUME MoveRoutes, DeleteCan PROVE MoveRoutes'
<1>1. PICK file \in ChnFile :
        \/ /\ MayDeleteCan(Loaded(file))
           /\ Makes("noCan", [Loaded(file) EXCEPT !["CAN"] = NoNetwork]) /\ chnPc' = "load noCan"
        \/ chnPc' = "failed" /\ UNCHANGED <<chnSls, chnFiles>>
  BY DEF DeleteCan
<1>2. CASE chnPc' = "failed" /\ UNCHANGED <<chnSls, chnFiles>>
  BY <1>2 DEF MoveRoutes
<1>3. ASSUME MayDeleteCan(Loaded(file)), Makes("noCan", [Loaded(file) EXCEPT !["CAN"] = NoNetwork]),
             chnPc' = "load noCan"
      PROVE  MoveRoutes'
  <2>1. Sent(Loaded(file)) /\ "noCan" \in ChnFile \ {"dump"}
    BY LoadedSame DEF MoveRoutes, ChnFile
  <2>. QED BY <1>3, <2>1, WithoutCanSent, MakesRoutes
<1>. QED BY <1>1, <1>2, <1>3

LEMMA LoadFileRoutes ==
    ASSUME MoveRoutes, NEW file \in ChnFile, LoadFile(file), chnPc' # "chn" PROVE MoveRoutes'
  BY DEF MoveRoutes, LoadFile

LEMMA ChnStepRoutes == ASSUME UpgradeRoutes, MoveRoutes, ChnNext PROVE MoveRoutes'
<1>1. CASE LoadChn \/ LoadComputes \/ LoadNoCan
  BY <1>1, LoadFileRoutes DEF LoadChn, LoadComputes, LoadNoCan, ChnFile
<1>2. CASE SkipComputes \/ DumpBss \/ BssRemoveCan
  BY <1>2 DEF MoveRoutes, SkipComputes, DumpBss, BssRemoveCan
<1>. QED BY <1>1, <1>2, DumpRoutes, CanToChnRoutes, AddComputesRoutes, DeleteCanRoutes DEF ChnNext

\* The addresses of UANs: only subnets change, one network at a time.
LEMMA NetsRead ==
    ASSUME NEW old, NetsKnown(old)
    PROVE  /\ NetsKnown([n \in SlsNetwork |-> network_from_sls_data(old[n])])
           /\ \A n \in SlsNetwork : network_from_sls_data(old[n]) = NoNetwork <=> old[n] = NoNetwork
<1>. DEFINE new == [n \in SlsNetwork |-> network_from_sls_data(old[n])]
<1>1. SameNets(old, new)
  BY NetworkReadSame DEF SameNets, NetsKnown
<1>2. \A n \in SlsNetwork : new[n] = network_from_sls_data(old[n])
  OBVIOUS
<1>. HIDE DEF new
<1>3. NetsKnown(new) /\ \A n \in SlsNetwork : new[n] = NoNetwork <=> old[n] = NoNetwork
  BY <1>1, SameNetsKnown
<1>. QED BY <1>2, <1>3 DEF new

LEMMA LongerThanOne ==
    ASSUME NEW T, NEW list \in Seq(T), list # <<>>, Len(list) # 1
    PROVE  Tail(list) \in Seq(T) /\ Tail(list) # <<>>
<1>1. Len(list) \in Nat /\ Len(list) # 0
  OBVIOUS
<1>2. Tail(list) \in Seq(T) /\ Len(Tail(list)) = Len(list) - 1
  BY HeadTailProperties
<1>3. Len(<<>>) = 0
  OBVIOUS
<1>. DEFINE rest == Tail(list)
<1>4. Len(rest) # 0 /\ rest \in Seq(T)
  BY <1>1, <1>2
<1>. HIDE DEF rest
<1>5. rest # <<>>
  BY <1>3, <1>4
<1>. QED BY <1>4, <1>5 DEF rest

LEMMA UanNetsThose ==
    ASSUME NEW kept
    PROVE  /\ Those(UanNets, kept) \in Seq({"CAN", "CHN"} \cap kept)
           /\ ToSet(UanNets) = {"CAN", "CHN"}
<1>1. UanNets \in Seq({"CAN", "CHN"}) /\ ToSet(UanNets) = {"CAN", "CHN"}
  BY DEF UanNets, ToSet
<1>. QED BY <1>1, ThoseIn

\* The networks that a run is to write, with what it is to write there.
LEMMA TodoOf ==
    ASSUME NEW copy, NEW T, NEW list \in Seq(T), list # <<>>, NEW ip,
           \A n \in T : n \in {"CAN", "CHN"} /\ copy[n] # NoNetwork
    PROVE  TodoFor(copy, [i \in DOMAIN list |-> [net |-> list[i], ip |-> ip[i]]])
<1>. DEFINE work == [i \in DOMAIN list |-> [net |-> list[i], ip |-> ip[i]]]
            kept == {work[i] : i \in DOMAIN list}
<1>1. work \in Seq(kept) /\ work # <<>>
  OBVIOUS
<1>2. ASSUME NEW t \in kept PROVE t.net \in {"CAN", "CHN"} /\ copy[t.net] # NoNetwork
  OBVIOUS
<1>. HIDE DEF kept, work
<1>3. TodoFor(copy, work)
  BY <1>1, <1>2 DEF TodoFor
<1>. QED BY <1>3 DEF work

\* A run for a UAN writes the networks that it has read.
LEMMA AllocateRoutes ==
    ASSUME MoveRoutes, UanRoutes, NEW x \in UanNode, AllocateUanIp(x) PROVE UanRoutes'
<1>. DEFINE nets == [n \in SlsNetwork |-> network_from_sls_data(chnSls[n])]
            need == NeedsAllocation(nets, x)
            room == [n \in ToSet(need) |-> CHOOSE s \in RoomMade(nets[n]) : TRUE]
            copy == [n \in SlsNetwork |->
                       IF n \in DOMAIN room THEN [nets[n] EXCEPT !.subnets = Put(@, room[n])] ELSE nets[n]]
<1>1. NetsKnown(nets)
  BY NetsRead DEF MoveRoutes, Sent
<1>2. CASE uanPc' \in {"ok", "failed"} /\ uanCopy' = NoFile
  BY <1>2, NoFileSent DEF UanRoutes, Ended, Sent
<1>3. CASE /\ need # <<>> /\ uanCopy' = copy
           /\ \E ip : uanTodo' = [i \in DOMAIN need |-> [net |-> need[i], ip |-> ip[i]]]
  <2>. DEFINE T == {n \in {"CAN", "CHN"} : nets[n] # NoNetwork}
  <2>1. need \in Seq(T)
    <3>. HIDE DEF nets
    <3>. DEFINE kept == {n \in ToSet(UanNets) : nets[n] # NoNetwork
                        /\ \A r \in ToSet(BootstrapOf(nets[n]).reservations) : ~IsHis(r, x)}
    <3>1. need = Those(UanNets, kept) /\ {"CAN", "CHN"} \cap kept \subseteq T
      BY DEF NeedsAllocation
    <3>. HIDE DEF kept, need, T
    <3>2. need \in Seq({"CAN", "CHN"} \cap kept)
      BY <3>1, UanNetsThose
    <3>. QED BY <3>1, <3>2
  <2>2. ToSet(need) \subseteq T
    <3>. HIDE DEF need, T
    <3>. QED BY <2>1 DEF ToSet
  <2>3. DOMAIN room = ToSet(need)
    OBVIOUS
  <2>. HIDE DEF room, need, nets
  <2>4. ASSUME NEW n \in SlsNetwork
        PROVE  /\ IsNet(copy[n]) /\ Known(copy[n])
               /\ n \in T => copy[n] # NoNetwork
    <3>1. IsNet(nets[n]) /\ Known(nets[n])
      BY <1>1 DEF NetsKnown
    <3>2. CASE n \in DOMAIN room
      <4>. DEFINE q == Put(nets[n].subnets, room[n])
                  w == [nets[n] EXCEPT !.subnets = q]
      <4>1. copy[n] = w
        BY <3>2
      <4>. HIDE DEF q
      <4>2. IsNet(w) /\ w.cidr = nets[n].cidr
        BY <3>1, OtherSubnetsNet
      <4>. HIDE DEF w
      <4>3. nets[n].cidr # Raised
        BY <2>2, <2>3, <3>1, <3>2 DEF Known
      <4>. HIDE DEF copy
      <4>. QED BY <4>1, <4>2, <4>3, NoNetworkIsNet DEF Known
    <3>3. CASE n \notin DOMAIN room
      BY <3>1, <3>3
    <3>. QED BY <3>2, <3>3
  <2>5. NetsKnown(copy)
    <3>1. copy = [n \in SlsNetwork |-> copy[n]]
      OBVIOUS
    <3>. HIDE DEF copy
    <3>. QED BY <2>4, <3>1 DEF NetsKnown
  <2>6. \A n \in T : n \in {"CAN", "CHN"} /\ copy[n] # NoNetwork
    <3>1. T \subseteq SlsNetwork
      BY DEF SlsNetwork
    <3>. HIDE DEF copy
    <3>. QED BY <2>4, <3>1
  <2>. HIDE DEF copy, T
  <2>7. PICK ip : uanTodo' = [i \in DOMAIN need |-> [net |-> need[i], ip |-> ip[i]]]
    BY <1>3
  <2>8. TodoFor(copy, uanTodo')
    BY <1>3, <2>1, <2>6, <2>7, TodoOf
  <2>. QED BY <1>3, <2>5, <2>8 DEF UanRoutes
<1>4. \/ uanPc' \in {"ok", "failed"} /\ uanCopy' = NoFile
      \/ /\ need # <<>> /\ uanCopy' = copy
         /\ uanTodo' = [i \in DOMAIN need |-> [net |-> need[i], ip |-> next_ip(room[need[i]])]]
  BY DEF AllocateUanIp
<1>5. (uanTodo' = [i \in DOMAIN need |-> [net |-> need[i], ip |-> next_ip(room[need[i]])]])
        => \E ip : uanTodo' = [i \in DOMAIN need |-> [net |-> need[i], ip |-> ip[i]]]
  <2>. HIDE DEF room, need
  <2>. DEFINE ip == [i \in DOMAIN need |-> next_ip(room[need[i]])]
  <2>1. [i \in DOMAIN need |-> [net |-> need[i], ip |-> next_ip(room[need[i]])]]
          = [i \in DOMAIN need |-> [net |-> need[i], ip |-> ip[i]]]
    OBVIOUS
  <2>. QED BY <2>1
<1>. HIDE DEF need, room, copy
<1>. QED BY <1>2, <1>3, <1>4, <1>5

LEMMA DeallocateRoutes ==
    ASSUME MoveRoutes, UanRoutes, NEW x \in UanNode, DeallocateUanIp(x) PROVE UanRoutes'
<1>. DEFINE nets == [n \in SlsNetwork |-> network_from_sls_data(chnSls[n])]
            of(n) == IF nets[n] = NoNetwork THEN {} ELSE ToSet(BootstrapOf(nets[n]).reservations)
            kept == {n \in ToSet(UanNets) : \E r \in of(n) : IsHis(r, x)}
            his == Those(UanNets, kept)
            work == [i \in DOMAIN his |-> [net |-> his[i], ip |-> Nil]]
<1>1. NetsKnown(nets)
  BY NetsRead DEF MoveRoutes, Sent
<1>2. CASE uanPc' \in {"ok", "failed"} /\ uanCopy' = NoFile
  BY <1>2, NoFileSent DEF UanRoutes, Ended, Sent
<1>3. CASE his # <<>> /\ uanCopy' = nets /\ uanTodo' = work
  <2>1. \A n \in {"CAN", "CHN"} \cap kept : n \in {"CAN", "CHN"} /\ nets[n] # NoNetwork
    <3>. HIDE DEF nets
    <3>. QED OBVIOUS
  <2>2. his \in Seq({"CAN", "CHN"} \cap kept)
    <3>. HIDE DEF kept
    <3>. QED BY UanNetsThose
  <2>. DEFINE ip == [i \in DOMAIN his |-> Nil]
              T == {"CAN", "CHN"} \cap kept
  <2>3. work = [i \in DOMAIN his |-> [net |-> his[i], ip |-> ip[i]]]
    OBVIOUS
  <2>4. his \in Seq(T) /\ \A n \in T : n \in {"CAN", "CHN"} /\ nets[n] # NoNetwork
    BY <2>1, <2>2
  <2>. HIDE DEF ip, T, his, nets
  <2>5. TodoFor(nets, work)
    <3>. HIDE DEF work
    <3>. QED BY <1>3, <2>3, <2>4, TodoOf
  <2>. HIDE DEF work
  <2>. QED BY <1>1, <1>3, <2>5 DEF UanRoutes
<1>4. \/ uanPc' \in {"ok", "failed"} /\ uanCopy' = NoFile
      \/ his # <<>> /\ uanCopy' = nets /\ uanTodo' = work
  BY DEF DeallocateUanIp
<1>. HIDE DEF his, nets, work
<1>. QED BY <1>2, <1>3, <1>4

LEMMA EndsRoutes == ASSUME UanRoutes, NEW how \in Ended, UanEnds(how) PROVE UanRoutes'
  BY NoFileSent DEF UanRoutes, UanEnds, Sent

LEMMA CheckHsmRoutes == ASSUME UanRoutes, CheckHsm PROVE UanRoutes'
<1>1. CASE uanPc \notin Ended /\ UNCHANGED <<uanCopy, uanTodo>>
  BY <1>1 DEF UanRoutes
<1>2. (uanPc \notin Ended /\ UNCHANGED <<uanCopy, uanTodo>>) \/ UanEnds("failed")
  BY DEF CheckHsm, Ended
<1>. QED BY <1>1, <1>2, EndsRoutes DEF Ended

\* Each network is put into SLS, where BICAN does not change.
LEMMA PutRoutes ==
    ASSUME MoveRoutes, UanRoutes, PutNetwork, UNCHANGED <<chnFiles, chnPc>>
    PROVE  MoveRoutes' /\ UanRoutes'
<1>. DEFINE work == Head(uanTodo)
            n == work.net
            net == OnSubnets(WithNode(uanCopy[n], uanCall.node, work.ip), SubnetToSls)
<1>1. NetsKnown(uanCopy) /\ TodoFor(uanCopy, uanTodo) /\ uanPc \notin Ended
  BY DEF UanRoutes, PutNetwork, Ended
<1>2. PICK T : uanTodo \in Seq(T) /\ uanTodo # <<>> /\ \A t \in T : t.net \in {"CAN", "CHN"} /\ uanCopy[t.net] # NoNetwork
  BY <1>1 DEF TodoFor
<1>3. n \in {"CAN", "CHN"} /\ uanCopy[n] # NoNetwork /\ n \in SlsNetwork
  BY <1>2 DEF SlsNetwork
<1>4. IsNet(uanCopy[n]) /\ uanCopy[n].cidr # Raised
  BY <1>1, <1>3 DEF NetsKnown, Known
<1>5. IsNet(net) /\ net.cidr = uanCopy[n].cidr
  <2>. DEFINE first == uanCopy[n]
              second == WithNode(first, uanCall.node, work.ip)
  <2>1. IsNet(second) /\ second.cidr = first.cidr
    <3>. HIDE DEF first, n, work
    <3>. QED BY <1>4, OtherSubnetsNet DEF WithNode, OnSubnet, OnSubnets, first
  <2>2. net = OnSubnets(second, SubnetToSls)
    OBVIOUS
  <2>. HIDE DEF second, net
  <2>3. IsNet(net) /\ net.cidr = second.cidr
    BY <2>1, <2>2, OtherSubnetsNet DEF OnSubnets
  <2>. QED BY <2>1, <2>3
<1>6. chnSls' = WithNet(chnSls, n, net)
  BY DEF PutNetwork, WithNet
<1>. HIDE DEF net, n, work
<1>7. Sent(chnSls')
  <2>0. "BICAN" \in SlsNetwork /\ Sent(chnSls)
    BY DEF SlsNetwork, MoveRoutes
  <2>1. /\ NetsKnown(WithNet(chnSls, n, net)) /\ WithNet(chnSls, n, net)[n] = net /\ net # NoNetwork
        /\ \A m \in SlsNetwork : m # n => WithNet(chnSls, n, net)[m] = chnSls[m]
    BY <1>3, <1>4, <1>5, <2>0, OneNetKnown DEF Sent
  <2>2. /\ NetsKnown(chnSls') /\ chnSls'[n] # NoNetwork
        /\ \A m \in SlsNetwork : m # n => chnSls'[m] = chnSls[m]
    BY <1>6, <2>1
  <2>. QED BY <1>3, <2>0, <2>2 DEF Sent, Routed
<1>8. MoveRoutes'
  BY <1>7 DEF MoveRoutes
<1>9. UanRoutes'
  <2>1. CASE Len(uanTodo) = 1
    <3>1. UanEnds("ok")
      BY <2>1 DEF PutNetwork
    <3>. QED BY <3>1, EndsRoutes DEF Ended
  <2>2. CASE Len(uanTodo) # 1
    <3>1. uanTodo' = Tail(uanTodo) /\ UNCHANGED <<uanPc, uanCopy>>
      BY <2>2 DEF PutNetwork
    <3>2. Tail(uanTodo) \in Seq(T) /\ Tail(uanTodo) # <<>>
      BY <1>2, <2>2, LongerThanOne
    <3>3. TodoFor(uanCopy, Tail(uanTodo))
      BY <1>2, <3>2 DEF TodoFor
    <3>. QED BY <3>1, <3>3 DEF UanRoutes
  <2>. QED BY <2>1, <2>2
<1>. QED BY <1>8, <1>9

LEMMA UanStepRoutes ==
    ASSUME MoveRoutes, UanRoutes, UanNext, UNCHANGED <<chnFiles, chnPc>>
    PROVE  MoveRoutes' /\ UanRoutes'
<1>1. CASE PutNetwork
  BY <1>1, PutRoutes
<1>2. CASE UNCHANGED chnSls
  <2>1. MoveRoutes'
    BY <1>2 DEF MoveRoutes
  <2>2. CASE \E x \in UanNode : AllocateUanIp(x) \/ DeallocateUanIp(x)
    BY <2>1, <2>2, AllocateRoutes, DeallocateRoutes
  <2>3. CASE CheckHsm
    BY <2>1, <2>3, CheckHsmRoutes
  <2>4. CASE UanFails
    BY <2>1, <2>4, EndsRoutes DEF UanFails, Ended
  <2>5. CASE InterfaceSeen \/ HardwareChanges
    BY <2>1, <2>5 DEF UanRoutes, InterfaceSeen, HardwareChanges
  <2>6. CASE PutNetwork
    BY <2>6, PutRoutes
  <2>. QED BY <2>2, <2>3, <2>4, <2>5, <2>6 DEF UanNext
<1>3. PutNetwork \/ UNCHANGED chnSls
  BY DEF UanNext, AllocateUanIp, DeallocateUanIp, UanStarts, CheckHsm, UanFails, InterfaceSeen, HardwareChanges
<1>. QED BY <1>1, <1>2, <1>3

-----------------------------------------------------------------------------
(* All of them together.                                                   *)

LEMMA InitChangesRoutes == ChangesInit => ChangesRoutes
<1>. SUFFICES ASSUME ChangesInit PROVE ChangesRoutes
  OBVIOUS
<1>0. NetsKnown(NoFile) /\ Sent(NoFile) /\ NoFile["BICAN"] = NoNetwork
  BY NoFileSent DEF Sent, NoFile, SlsNetwork
<1>1. MoveRoutes
  BY <1>0 DEF ChangesInit, ChnInit, MoveRoutes
<1>2. UanRoutes
  BY <1>0 DEF ChangesInit, UanInit, UanRoutes, Ended
<1>3. CASE InUpgrade
  BY <1>1, <1>2, <1>3, InitRoutes DEF ChangesInit, ChangesRoutes
<1>4. CASE ~InUpgrade
  <2>1. slsFile.nets["BICAN"] = NoNetwork
    <3>1. slsFile = MCDump(Old, 4, TRUE)
      BY <1>4 DEF ChangesInit, UpgradeAtRest
    <3>2. MCDump(Old, 4, TRUE).nets["BICAN"] = NoNetwork
      BY DEF MCDump, SlsNetwork
    <3>. QED BY <3>1, <3>2
  <2>2. chnSls["BICAN"] = NoNetwork
    BY <1>0 DEF ChangesInit, ChnInit
  <2>. QED BY <1>4, <2>1, <2>2 DEF ChangesRoutes, RouteExists
<1>. QED BY <1>3, <1>4

LEMMA StepChangesRoutes == ASSUME ChangesRoutes, [ChangesNext]_changesVars PROVE ChangesRoutes'
<1>1. CASE ~InUpgrade
  <2>1. UNCHANGED <<changed, slsVars, chnVars>>
    BY <1>1 DEF ChangesNext, changesVars, UpgradeChanges
  <2>. QED BY <1>1, <2>1 DEF ChangesRoutes, InUpgrade, slsVars, chnVars
<1>2. CASE InUpgrade
  <2>0. UpgradeRoutes /\ MoveRoutes /\ UanRoutes
    BY <1>2 DEF ChangesRoutes
  <2>1. InUpgrade'
    BY <1>2 DEF ChangesNext, changesVars, InUpgrade
  <2>2. CASE (SlsNext \/ UNCHANGED slsVars) /\ UNCHANGED chnVars /\ UNCHANGED uanVars
    <3>1. MoveRoutes' /\ UanRoutes'
      BY <2>0, <2>2 DEF MoveRoutes, UanRoutes, chnVars, uanVars
    <3>2. UpgradeRoutes'
      BY <2>0, <2>2, StepRoutes, StutterRoutes
    <3>. QED BY <2>1, <3>1, <3>2 DEF ChangesRoutes
  <2>3. CASE ChnNext /\ UNCHANGED <<slsVars, uanVars>>
    <3>1. UpgradeRoutes'
      BY <2>0, <2>3, StutterRoutes
    <3>2. MoveRoutes'
      BY <2>0, <2>3, ChnStepRoutes
    <3>3. UanRoutes'
      BY <2>0, <2>3 DEF UanRoutes, uanVars
    <3>. QED BY <2>1, <3>1, <3>2, <3>3 DEF ChangesRoutes
  <2>4. CASE UanNext /\ UNCHANGED <<slsVars, chnFiles, chnPc, bssHost>>
    <3>1. UpgradeRoutes'
      BY <2>0, <2>4, StutterRoutes
    <3>. QED BY <2>0, <2>1, <2>4, <3>1, UanStepRoutes DEF ChangesRoutes
  <2>5. \/ (SlsNext \/ UNCHANGED slsVars) /\ UNCHANGED chnVars /\ UNCHANGED uanVars
        \/ ChnNext /\ UNCHANGED <<slsVars, uanVars>>
        \/ UanNext /\ UNCHANGED <<slsVars, chnFiles, chnPc, bssHost>>
    BY <1>2 DEF ChangesNext, changesVars, UpgradeChanges, InUpgrade
  <2>. QED BY <2>2, <2>3, <2>4, <2>5
<1>. QED BY <1>1, <1>2

\* The invariant and the property.
LEMMA RoutesUsers == ChangesRoutes => UsersHaveANetwork
<1>1. ASSUME UpgradeRoutes PROVE UserNetworkExists
  BY <1>1 DEF UpgradeRoutes, FileReady, RoutedTo, UserNetworkExists, RouteExists
<1>. QED BY <1>1 DEF ChangesRoutes, UsersHaveANetwork, UserNetworkExists, ChnUserNetworkExists, MoveRoutes,
                     Sent, Routed, RouteExists

\* Users are never routed to a network that is not in SLS: not by a run of the upgrade,
\* nor by a rerun on what it wrote, whatever each of them is asked for and wherever it
\* stops, as long as none is asked for another user network than the first and takes
\* the first one for unused; and not on the way from the CAN to the CHN, whichever
\* file is loaded after which.
THEOREM UsersAlwaysHaveANetwork == ChangesSpec => []UsersHaveANetwork
<1>1. ChangesRoutes /\ [ChangesNext]_changesVars => ChangesRoutes'
  BY StepChangesRoutes
<1>. QED BY <1>1, InitChangesRoutes, RoutesUsers, PTL DEF ChangesSpec

-----------------------------------------------------------------------------
(* Blocks of addresses.                                                     *)

Dbl(k) == 2^k \in Nat \ {0} /\ 2^(k + 1) = 2 * 2^k
\* Powers of two, products and divisions.
LEMMA Doubles == \A k \in 0..31 : 2^k \in Nat \ {0} /\ 2^(k + 1) = 2 * 2^k
<1>. SUFFICES ASSUME NEW k \in 0..31 PROVE Dbl(k)
  BY DEF Dbl
<1>1. \/ k = 0 \/ k = 1 \/ k = 2 \/ k = 3 \/ k = 4 \/ k = 5 \/ k = 6 \/ k = 7
      \/ k = 8 \/ k = 9 \/ k = 10 \/ k = 11 \/ k = 12 \/ k = 13 \/ k = 14 \/ k = 15
      \/ k = 16 \/ k = 17 \/ k = 18 \/ k = 19 \/ k = 20 \/ k = 21 \/ k = 22 \/ k = 23
      \/ k = 24 \/ k = 25 \/ k = 26 \/ k = 27 \/ k = 28 \/ k = 29 \/ k = 30 \/ k = 31
  OBVIOUS
<1>2. Dbl(0) /\ Dbl(1) /\ Dbl(2) /\ Dbl(3)
  BY DEF Dbl
<1>3. Dbl(4) /\ Dbl(5) /\ Dbl(6) /\ Dbl(7) /\ Dbl(8) /\ Dbl(9) /\ Dbl(10) /\ Dbl(11)
  BY DEF Dbl
<1>4. Dbl(12) /\ Dbl(13) /\ Dbl(14) /\ Dbl(15) /\ Dbl(16) /\ Dbl(17) /\ Dbl(18) /\ Dbl(19)
  BY DEF Dbl
<1>5. Dbl(20) /\ Dbl(21) /\ Dbl(22) /\ Dbl(23) /\ Dbl(24) /\ Dbl(25) /\ Dbl(26) /\ Dbl(27)
  BY DEF Dbl
<1>6. Dbl(28) /\ Dbl(29) /\ Dbl(30) /\ Dbl(31)
  BY DEF Dbl
<1>. QED BY <1>1, <1>2, <1>3, <1>4, <1>5, <1>6

LEMMA Product == ASSUME NEW m \in Nat, NEW x \in Int, NEW y \in Int, x >= y + 1
  PROVE m * x \in Int /\ m * y \in Int /\ m * x >= m * y + m
<1>. DEFINE d == x - y - 1
<1>1. d \in Nat /\ x = y + 1 + d
  OBVIOUS
<1>. HIDE DEF d
<1>2. m * d \in Nat
  BY <1>1
<1>3. m * x = m * y + m + m * d
  BY <1>1
<1>4. m * y \in Int
  OBVIOUS
<1>. QED BY <1>2, <1>3, <1>4

LEMMA Division == ASSUME NEW m \in Nat \ {0}, NEW q \in Nat, NEW r \in 0..m-1
  PROVE (m * q + r) % m = r /\ (m * q + r) \div m = q
<1>. DEFINE a == m * q + r
            p == a \div m
            s == a % m
<1>0. a \in Nat
  OBVIOUS
<1>1. p \in Int /\ s \in 0..m-1 /\ a = m * p + s
  <2>. HIDE DEF a
  <2>. QED BY <1>0
<1>. HIDE DEF p, s
<1>2. a = m * q + r /\ m * q \in Int /\ m * p \in Int
  BY <1>1
<1>. HIDE DEF a
<1>3. ~(p >= q + 1)
  <2>. SUFFICES ASSUME p >= q + 1 PROVE FALSE
    OBVIOUS
  <2>1. m * p >= m * q + m
    BY <1>1, Product
  <2>. QED BY <1>1, <1>2, <2>1
<1>4. ~(q >= p + 1)
  <2>. SUFFICES ASSUME q >= p + 1 PROVE FALSE
    OBVIOUS
  <2>1. m * q >= m * p + m
    BY <1>1, Product
  <2>. QED BY <1>1, <1>2, <2>1
<1>5. p = q
  BY <1>1, <1>3, <1>4
<1>6. s = r
  BY <1>1, <1>2, <1>5
<1>. QED BY <1>5, <1>6 DEF a, p, s

LEMMA Parts == ASSUME NEW m \in Nat \ {0}, NEW a \in Nat
  PROVE a \div m \in Nat /\ a % m \in 0..m-1 /\ a = m * (a \div m) + (a % m)
<1>1. a \div m \in Int /\ a % m \in 0..m-1 /\ a = m * (a \div m) + (a % m)
  OBVIOUS
<1>2. a \div m >= 0
  <2>. DEFINE q == a \div m
  <2>. SUFFICES ASSUME 0 >= q + 1 PROVE FALSE
    BY <1>1
  <2>. HIDE DEF q
  <2>1. q \in Int
   BY <1>1 DEF q
  <2>2. m * 0 >= m * q + m
    BY <2>1, Product
  <2>3. a = m * q + (a % m) /\ m * q \in Int
    BY <1>1, <2>1 DEF q
  <2>. QED BY <1>1, <2>2, <2>3
<1>. QED BY <1>1, <1>2

LEMMA DivisionEven == ASSUME NEW m \in Nat \ {0}, NEW q \in Nat
  PROVE m * q \in Nat /\ (m * q) % m = 0 /\ (m * q) \div m = q
<1>. DEFINE a == m * q
<1>1. a \in Nat /\ 0 \in 0..m-1
  OBVIOUS
<1>2. (a + 0) % m = 0 /\ (a + 0) \div m = q
  BY <1>1, Division
<1>. HIDE DEF a
<1>3. a + 0 = a
  BY <1>1
<1>. QED BY <1>1, <1>2, <1>3 DEF a

\* A block and its halves, in numbers.
LEMMA HalfBlock == ASSUME NEW m \in Nat \ {0}, NEW a \in Nat
  PROVE a % (2 * m) = IF (a \div m) % 2 = 0 THEN a % m ELSE (a % m) + m
<1>. DEFINE q == a \div m
            r == a % m
            h == q \div 2
            e == q % 2
<1>1. q \in Nat /\ r \in 0..m-1 /\ a = m * q + r
  BY Parts
<1>. HIDE DEF q, r
<1>2. h \in Nat /\ e \in 0..1 /\ q = 2 * h + e
  BY <1>1, Parts
<1>. HIDE DEF h, e
<1>3. CASE e = 0
  <2>1. a = (2 * m) * h + r /\ r \in 0..(2 * m) - 1 /\ 2 * m \in Nat \ {0}
    BY <1>1, <1>2, <1>3
  <2>2. a % (2 * m) = r
    BY <1>2, <2>1, Division
  <2>. QED BY <1>3, <2>2 DEF q, r, e
<1>4. CASE e = 1
  <2>1. a = (2 * m) * h + (r + m) /\ r + m \in 0..(2 * m) - 1 /\ 2 * m \in Nat \ {0}
    BY <1>1, <1>2, <1>4
  <2>2. a % (2 * m) = r + m
    BY <1>2, <2>1, Division
  <2>. QED BY <1>4, <2>2 DEF q, r, e
<1>. QED BY <1>2, <1>3, <1>4

\* The powers that blocks are of.
LEMMA Powers == \A k \in 0..32 : 2^k \in Nat \ {0}
<1>. DEFINE m == 2^31
<1>1. m \in Nat \ {0} /\ 2^(31 + 1) = 2 * m
  BY Doubles
<1>. HIDE DEF m
<1>2. 2^(31 + 1) \in Nat \ {0}
  BY <1>1
<1>3. ASSUME NEW k \in 0..32 PROVE 2^k \in Nat \ {0}
  <2>1. CASE k \in 0..31
    BY <2>1, Doubles
  <2>2. CASE k = 31 + 1
    BY <1>2, <2>2
  <2>. QED BY <2>1, <2>2
<1>. QED BY <1>3

\* Sizes of blocks: a power of two, halved by each longer prefix.
LEMMA Sizes ==
    ASSUME NEW p \in 0..32
    PROVE  /\ 2^(32 - p) \in Nat \ {0}
           /\ p > 0 => 2^(32 - (p - 1)) = 2 * 2^(32 - p)
<1>1. 32 - p \in 0..32
  OBVIOUS
<1>2. p > 0 => 32 - p \in 0..31 /\ 32 - (p - 1) = (32 - p) + 1
  OBVIOUS
<1>. QED BY <1>1, <1>2, Powers, Doubles

\* Around gives the aligned block that an address is in.
LEMMA AroundIsBlock ==
    ASSUME NEW a \in Nat, NEW p \in 0..32
    PROVE  /\ IsBlock(Around(a, p)) /\ Around(a, p).len = p /\ a \in Addresses(Around(a, p))
           /\ Around(a, p).base = 2^(32 - p) * (a \div 2^(32 - p))
<1>. DEFINE m == 2^(32 - p)
            q == a \div m
            b == Around(a, p)
<1>1. m \in Nat \ {0}
  BY Sizes
<1>2. b = [base |-> a - (a % m), len |-> p] /\ Size(b) = m
  BY DEF Around, Cidr, Size
<1>. HIDE DEF m, b
<1>3. q \in Nat /\ a % m \in 0..m-1 /\ a = m * q + (a % m)
  BY <1>1, Parts
<1>. HIDE DEF q
<1>4. b.base = m * q /\ m * q \in Nat
  BY <1>1, <1>2, <1>3
<1>5. (m * q) % m = 0
  BY <1>1, <1>3, DivisionEven
<1>6. IsBlock(b) /\ b.len = p
  BY <1>2, <1>4, <1>5 DEF IsBlock, Cidr
<1>7. a \in Addresses(b)
  BY <1>1, <1>2, <1>3, <1>4 DEF Addresses
<1>. QED BY <1>4, <1>6, <1>7 DEF b, q, m

\* A block and its sibling are the halves of the block around them.
LEMMA SiblingIsOtherHalf ==
    ASSUME NEW a \in Nat, NEW p \in 1..32
    PROVE  LET u == Around(a, p)
               x == Sibling(u)
               w == Around(a, p - 1)
           IN  /\ IsBlock(x) /\ x.len = p
               /\ Addresses(u) \cup Addresses(x) = Addresses(w)
               /\ Addresses(u) \cap Addresses(x) = {}
<1>. DEFINE m == 2^(32 - p)
            q == a \div m
            u == Around(a, p)
            x == Sibling(u)
            w == Around(a, p - 1)
            c == IF q % 2 = 0 THEN m * q + m ELSE m * q - m
<1>0. p \in 0..32 /\ p - 1 \in 0..32 /\ p > 0
  OBVIOUS
<1>1. m \in Nat \ {0} /\ 2^(32 - (p - 1)) = 2 * m /\ p \in 0..32 /\ p - 1 \in 0..32
  BY <1>0, Sizes
<1>2. u.base = m * q /\ u.len = p /\ Size(u) = m /\ IsBlock(u)
  BY <1>1, AroundIsBlock DEF Size
<1>3. q \in Nat /\ a % m \in 0..m-1 /\ a = m * q + (a % m) /\ m * q \in Nat
  <2>. HIDE DEF m
  <2>1. q \in Nat /\ a % m \in 0..m-1 /\ a = m * q + (a % m)
    BY <1>1, Parts
  <2>. HIDE DEF q
  <2>. QED BY <1>1, <2>1, DivisionEven
<1>4. (m * q) \div m = q
  <2>. HIDE DEF m, q
  <2>. QED BY <1>1, <1>3, DivisionEven
<1>5. x = [base |-> c, len |-> p]
  <2>. HIDE DEF m, q, u
  <2>. QED BY <1>2, <1>4 DEF Sibling, Cidr
<1>6. w = [base |-> IF q % 2 = 0 THEN m * q ELSE m * q - m, len |-> p - 1]
  <2>1. w = [base |-> a - (a % (2 * m)), len |-> p - 1]
    BY <1>1 DEF Around, Cidr
  <2>2. a % (2 * m) = IF q % 2 = 0 THEN a % m ELSE (a % m) + m
    BY <1>1, HalfBlock
  <2>. HIDE DEF m, q, w
  <2>. QED BY <1>1, <1>3, <2>1, <2>2
<1>7. q % 2 \in 0..1 /\ (q % 2 # 0 => q >= 1)
  <2>. HIDE DEF q
  <2>. QED BY <1>3
<1>8. c \in Nat /\ c % m = 0
  <2>. HIDE DEF m, q
  <2>1. CASE q % 2 = 0
    <3>1. c = m * (q + 1) /\ q + 1 \in Nat /\ m * (q + 1) \in Nat
      BY <1>1, <1>3, <2>1
    <3>2. (m * (q + 1)) % m = 0
      BY <1>1, <3>1, DivisionEven
    <3>. QED BY <3>1, <3>2
  <2>2. CASE q % 2 # 0
    <3>1. c = m * (q - 1) /\ q - 1 \in Nat /\ m * (q - 1) \in Nat
      BY <1>1, <1>3, <1>7, <2>2
    <3>2. (m * (q - 1)) % m = 0
      BY <1>1, <3>1, DivisionEven
    <3>. QED BY <3>1, <3>2
  <2>. QED BY <2>1, <2>2
<1>9. Size(x) = m /\ Size(w) = 2 * m
  <2>1. x.len = p /\ w.len = p - 1
    <3>. HIDE DEF x, w
    <3>. QED BY <1>5, <1>6
  <2>. HIDE DEF x, w
  <2>. QED BY <1>1, <2>1 DEF Size
<1>. HIDE DEF x, w, u
<1>10. IsBlock(x) /\ x.len = p
  <2>. HIDE DEF m, c
  <2>. QED BY <1>1, <1>5, <1>8, <1>9 DEF IsBlock, Cidr
<1>11. /\ Addresses(u) \cup Addresses(x) = Addresses(w)
       /\ Addresses(u) \cap Addresses(x) = {}
  <2>. DEFINE e == m * q
  <2>1. e \in Nat /\ u.base = e /\ x.base = c
    BY <1>2, <1>3, <1>5
  <2>2. w.base = IF q % 2 = 0 THEN e ELSE e - m
    BY <1>6
  <2>3. c = IF q % 2 = 0 THEN e + m ELSE e - m
    OBVIOUS
  <2>. HIDE DEF e, m, q, c
  <2>. QED BY <1>1, <1>2, <1>9, <2>1, <2>2, <2>3 DEF Addresses
<1>. QED BY <1>10, <1>11 DEF x, w, u

\* A block is of addresses, at least one, and contains where it begins.
LEMMA BlockAddresses ==
    ASSUME NEW b, IsBlock(b)
    PROVE  /\ Size(b) \in Nat \ {0} /\ b.base \in Addresses(b)
           /\ Addresses(b) \subseteq Nat /\ b # Raised
<1>1. Size(b) \in Nat \ {0} /\ b.base \in Nat
  BY Sizes DEF IsBlock, Size
<1>. QED BY <1>1 DEF Addresses, Raised, Cidr, Nil

\* The block of some prefix around an address in a block of that prefix is that block.
LEMMA AroundInside ==
    ASSUME NEW b, IsBlock(b), NEW a \in Addresses(b)
    PROVE  Around(a, b.len) = b
<1>. DEFINE m == Size(b)
            r == a - b.base
            q == b.base \div m
<1>1. m \in Nat \ {0} /\ a \in Nat /\ r \in 0..m-1 /\ a = b.base + r /\ b.base \in Nat /\ b.base % m = 0
  BY BlockAddresses DEF Addresses, IsBlock
<1>2. m = 2^(32 - b.len)
  BY DEF Size
<1>. HIDE DEF m, r
<1>3. q \in Nat /\ b.base = m * q
  <2>1. q \in Nat /\ b.base = m * q + (b.base % m) /\ b.base % m = 0
    BY <1>1, Parts
  <2>. HIDE DEF q
  <2>2. m * q \in Int
    BY <1>1, <2>1
  <2>. QED BY <2>1, <2>2
<1>. HIDE DEF q
<1>4. a % m = r
  BY <1>1, <1>3, Division
<1>5. a - (a % m) = b.base
  BY <1>1, <1>4
<1>. QED BY <1>2, <1>5 DEF Around, IsBlock, Cidr

\* The block around an address with a shorter prefix contains the one with a longer prefix.
LEMMA AroundGrows ==
    ASSUME NEW a \in Nat, NEW p \in 0..32, NEW k \in 0..p
    PROVE  Addresses(Around(a, p)) \subseteq Addresses(Around(a, p - k))
<1>. DEFINE T == {i \in 0..p : Addresses(Around(a, p)) \subseteq Addresses(Around(a, p - i))}
<1>1. 0 \in T
  OBVIOUS
<1>2. ASSUME NEW i \in 1..p, i - 1 \in T PROVE i \in T
  <2>. DEFINE j == p - (i - 1)
  <2>1. j \in 1..32 /\ j - 1 = p - i /\ i \in 0..p
    OBVIOUS
  <2>2. Addresses(Around(a, p)) \subseteq Addresses(Around(a, j))
    BY <1>2
  <2>. HIDE DEF j
  <2>3. Addresses(Around(a, j)) \subseteq Addresses(Around(a, j - 1))
    BY <2>1, SiblingIsOtherHalf
  <2>4. Addresses(Around(a, p)) \subseteq Addresses(Around(a, p - i))
    BY <2>1, <2>2, <2>3
  <2>. QED BY <2>1, <2>4
<1>3. 0..p \subseteq T
  <2>. HIDE DEF T
  <2>. QED BY <1>1, <1>2, Induction
<1>. QED BY <1>3

\* Of two blocks with an address in common the one with the longer prefix is
\* inside the other.
LEMMA BlocksNest ==
    ASSUME NEW b, IsBlock(b), NEW u, IsBlock(u), NEW a \in Addresses(b) \cap Addresses(u), b.len <= u.len
    PROVE  Addresses(u) \subseteq Addresses(b) /\ subnet_of(u, b)
<1>1. a \in Nat /\ Around(a, b.len) = b /\ Around(a, u.len) = u
  BY AroundInside, BlockAddresses
<1>2. u.len \in 0..32 /\ u.len - b.len \in 0..u.len /\ u.len - (u.len - b.len) = b.len
  BY DEF IsBlock
<1>3. Addresses(u) \subseteq Addresses(b)
  BY <1>1, <1>2, AroundGrows
<1>. QED BY <1>3, BlockAddresses DEF subnet_of

\* What subnet_of says is what it is used for.
LEMMA SubnetInside ==
    ASSUME NEW b, IsBlock(b), NEW u, IsBlock(u), subnet_of(u, b)
    PROVE  b.len <= u.len /\ u.base \in Addresses(b) /\ Addresses(u) \subseteq Addresses(b)
<1>1. b.len \in Int /\ u.len \in Int /\ u.len >= b.len /\ u.base \in Addresses(b)
  BY DEF subnet_of, IsBlock
<1>. QED BY <1>1, BlocksNest, BlockAddresses

\* Blocks apart: no address in common, which is what `overlaps' denies.
LEMMA ApartIsNoOverlap ==
    ASSUME NEW a, IsBlock(a), NEW b, IsBlock(b)
    PROVE  overlaps(a, b) <=> Addresses(a) \cap Addresses(b) # {}
<1>1. ASSUME Addresses(a) \cap Addresses(b) # {} PROVE overlaps(a, b)
  <2>1. PICK x \in Addresses(a) \cap Addresses(b) : TRUE
    BY <1>1
  <2>2. a.len <= b.len \/ b.len <= a.len
    BY DEF IsBlock
  <2>. QED BY <2>1, <2>2, BlocksNest DEF overlaps
<1>2. ASSUME overlaps(a, b) PROVE Addresses(a) \cap Addresses(b) # {}
  BY <1>2, SubnetInside, BlockAddresses DEF overlaps
<1>. QED BY <1>1, <1>2

\* A set of blocks that are apart and together have the addresses of one.
Partition(b, blocks) ==
    /\ \A x \in blocks : IsBlock(x)
    /\ UNION {Addresses(x) : x \in blocks} = Addresses(b)
    /\ \A x, y \in blocks : x # y => Addresses(x) \cap Addresses(y) = {}

\* Partitions: of itself, of two halves, and of a part of it.
LEMMA PartitionItself == ASSUME NEW b, IsBlock(b) PROVE Partition(b, {b})
  BY DEF Partition

LEMMA PartitionHalves ==
    ASSUME NEW u, NEW blocks, Partition(u, blocks), NEW x, IsBlock(x), NEW w,
           Addresses(u) \cup Addresses(x) = Addresses(w), Addresses(u) \cap Addresses(x) = {}
    PROVE  Partition(w, blocks \cup {x})
  BY DEF Partition

LEMMA PartitionRefined ==
    ASSUME NEW c, NEW blocks, Partition(c, blocks), NEW b \in blocks, NEW parts, Partition(b, parts)
    PROVE  Partition(c, (blocks \ {b}) \cup parts)
<1>1. ASSUME NEW x \in parts PROVE Addresses(x) \subseteq Addresses(b) /\ IsBlock(x)
  BY DEF Partition
<1>2. UNION {Addresses(x) : x \in (blocks \ {b}) \cup parts} = Addresses(c)
  <2>1. \A a \in Addresses(c) : \E x \in (blocks \ {b}) \cup parts : a \in Addresses(x)
    <3>. SUFFICES ASSUME NEW a \in Addresses(c) PROVE \E x \in (blocks \ {b}) \cup parts : a \in Addresses(x)
      OBVIOUS
    <3>1. PICK y \in blocks : a \in Addresses(y)
      BY DEF Partition
    <3>2. CASE y = b
      BY <3>1, <3>2 DEF Partition
    <3>. QED BY <3>1, <3>2
  <2>2. \A x \in (blocks \ {b}) \cup parts : Addresses(x) \subseteq Addresses(c)
    BY <1>1 DEF Partition
  <2>. QED BY <2>1, <2>2
<1>3. ASSUME NEW x \in (blocks \ {b}) \cup parts, NEW y \in (blocks \ {b}) \cup parts, x # y
      PROVE  Addresses(x) \cap Addresses(y) = {}
  <2>1. CASE x \in blocks \ {b} /\ y \in blocks \ {b}
    BY <1>3, <2>1 DEF Partition
  <2>2. CASE x \in parts /\ y \in parts
    BY <1>3, <2>2 DEF Partition
  <2>3. CASE x \in blocks \ {b} /\ y \in parts
    <3>1. Addresses(x) \cap Addresses(b) = {}
      BY <2>3 DEF Partition
    <3>. QED BY <1>1, <2>3, <3>1
  <2>4. CASE x \in parts /\ y \in blocks \ {b}
    <3>1. Addresses(y) \cap Addresses(b) = {}
      BY <2>4 DEF Partition
    <3>. QED BY <1>1, <2>4, <3>1
  <2>. QED BY <2>1, <2>2, <2>3, <2>4
<1>. QED BY <1>1, <1>2, <1>3 DEF Partition

\* address_exclude: a block, and what is left of a larger one without it.
LEMMA ExcludePartitions ==
    ASSUME NEW b, IsBlock(b), NEW u, IsBlock(u), subnet_of(u, b)
    PROVE  Partition(b, {u} \cup address_exclude(b, u)) /\ u \notin address_exclude(b, u)
<1>. DEFINE a == u.base
            l == u.len
            n == u.len - b.len
            Rest(i) == {Sibling(Around(a, p)) : p \in l - i + 1 .. l}
            T == {i \in 0..n : Partition(Around(a, l - i), {u} \cup Rest(i))}
<1>1. l \in 0..32 /\ b.len \in 0..l /\ n \in Nat /\ n <= l /\ a \in Nat
  <2>1. u.len \in 0..32 /\ b.len \in 0..32 /\ u.base \in Nat
    BY DEF IsBlock
  <2>2. b.len <= u.len
    BY SubnetInside
  <2>3. \A x, y \in 0..32 : y <= x => y \in 0..x /\ x - y \in Nat /\ x - y <= x
    OBVIOUS
  <2>. QED BY <2>1, <2>2, <2>3
<1>2. u = Around(a, l) /\ b = Around(a, b.len)
  BY AroundInside, BlockAddresses, SubnetInside
<1>. HIDE DEF a, l
<1>3. 0 \in T
  <2>1. Rest(0) = {} /\ l - 0 = l
    BY <1>1
  <2>2. Partition(Around(a, l - 0), {u} \cup Rest(0))
    BY <1>2, <2>1, PartitionItself
  <2>. HIDE DEF Rest, n
  <2>. QED BY <1>1, <2>2
<1>4. ASSUME NEW i \in 1..n, i - 1 \in T PROVE i \in T
  <2>. DEFINE x == Sibling(Around(a, l - (i - 1)))
  <2>1. l - (i - 1) \in 1..32 /\ (l - (i - 1)) - 1 = l - i /\ i \in 0..n
    BY <1>1
  <2>2. Partition(Around(a, l - (i - 1)), {u} \cup Rest(i - 1))
    BY <1>4
  <2>3. Rest(i) = Rest(i - 1) \cup {x}
    <3>1. l - i + 1 = l - (i - 1) /\ l - (i - 1) + 1 = l - i + 2
      BY <1>1
    <3>2. (l - i + 1 .. l) = (l - (i - 1) + 1 .. l) \cup {l - (i - 1)}
      BY <1>1, <2>1
    <3>. QED BY <3>2
  <2>4. /\ IsBlock(x) /\ Addresses(Around(a, l - (i - 1))) \cup Addresses(x) = Addresses(Around(a, l - i))
        /\ Addresses(Around(a, l - (i - 1))) \cap Addresses(x) = {}
    <3>. DEFINE j == l - (i - 1)
    <3>. HIDE DEF j
    <3>1. j \in 1..32 /\ j - 1 = l - i /\ x = Sibling(Around(a, j)) /\ j = l - (i - 1)
      BY <2>1 DEF j
    <3>. HIDE DEF x
    <3>. QED BY <1>1, <3>1, SiblingIsOtherHalf
  <2>. HIDE DEF x, Rest
  <2>5. Partition(Around(a, l - i), ({u} \cup Rest(i - 1)) \cup {x})
    BY <2>2, <2>4, PartitionHalves
  <2>6. Partition(Around(a, l - i), {u} \cup Rest(i))
    <3>1. ({u} \cup Rest(i - 1)) \cup {x} = {u} \cup Rest(i)
      BY <2>3
    <3>. QED BY <2>5, <3>1
  <2>. QED BY <2>1, <2>6
<1>5. n \in T
  <2>1. 0..n \subseteq T
    <3>. HIDE DEF T, n
    <3>. QED BY <1>1, <1>3, <1>4, Induction
  <2>. QED BY <1>1, <2>1
<1>6. address_exclude(b, u) = Rest(n) /\ l - n = b.len
  BY <1>1 DEF address_exclude, a, l
<1>7. u \notin address_exclude(b, u)
  <2>. SUFFICES ASSUME NEW p \in b.len + 1 .. u.len, u = Sibling(Around(u.base, p)) PROVE FALSE
    BY DEF address_exclude
  <2>1. p \in 1..32 /\ p \in 0..32
    BY <1>1 DEF l
  <2>2. u.base \in Nat /\ u.base \in Addresses(u)
    BY BlockAddresses DEF IsBlock
  <2>3. u.base \in Addresses(Around(u.base, p))
    BY <2>1, <2>2, AroundIsBlock
  <2>. DEFINE x == Sibling(Around(u.base, p))
  <2>4. Addresses(Around(u.base, p)) \cap Addresses(x) = {}
    BY <2>1, <2>2, SiblingIsOtherHalf
  <2>5. x = u
    OBVIOUS
  <2>. HIDE DEF x
  <2>. QED BY <2>2, <2>3, <2>4, <2>5
<1>. QED BY <1>2, <1>5, <1>6, <1>7

-----------------------------------------------------------------------------
(* Blocks for cabinets.                                                    *)

\* Where a block of at least a /22 begins, a /22 begins.
LEMMA BeginsQuarter ==
    ASSUME NEW b, IsBlock(b), b.len <= 22
    PROVE  \E q \in Nat : b.base = 1024 * q
<1>. DEFINE a == b.base
            u == Around(a, 22)
            k == 22 - b.len
<1>1. a \in Nat /\ b.len \in 0..22 /\ k \in 0..22 /\ 22 - k = b.len
  <2>1. a \in Nat /\ b.len \in 0..32
    BY DEF IsBlock
  <2>2. \A x \in 0..32 : x <= 22 => x \in 0..22 /\ 22 - x \in 0..22 /\ 22 - (22 - x) = x
    OBVIOUS
  <2>. QED BY <2>1, <2>2
<1>2. a \in Addresses(b) /\ Around(a, b.len) = b /\ Size(b) \in Nat \ {0}
  BY BlockAddresses, AroundInside
<1>. HIDE DEF a, k
<1>3. Addresses(u) \subseteq Addresses(b)
  BY <1>1, <1>2, AroundGrows
<1>. DEFINE q == a \div 1024
<1>4. u.base \in Addresses(u) /\ u.base = 1024 * q /\ a \in Addresses(u) /\ u.base \in Nat
  <2>1. IsBlock(u) /\ a \in Addresses(u) /\ u.base = 2^(32 - 22) * (a \div 2^(32 - 22))
    <3>. DEFINE p == 22
    <3>1. p \in 0..32 /\ p = 22
      OBVIOUS
    <3>. HIDE DEF p
    <3>2. /\ IsBlock(Around(a, p)) /\ a \in Addresses(Around(a, p))
          /\ Around(a, p).base = 2^(32 - p) * (a \div 2^(32 - p))
      BY <1>1, <3>1, AroundIsBlock
    <3>. QED BY <3>1, <3>2
  <2>2. 2^(32 - 22) = 1024
    OBVIOUS
  <2>. HIDE DEF u
  <2>. QED BY <2>1, <2>2, BlockAddresses DEF IsBlock
<1>5. u.base <= a
  <2>. HIDE DEF u, q
  <2>. QED BY <1>1, <1>4 DEF Addresses
<1>6. u.base >= a
  <2>1. u.base \in Addresses(b)
    BY <1>3, <1>4
  <2>. HIDE DEF u, q
  <2>. QED BY <1>1, <1>2, <2>1, <1>4 DEF Addresses, a
<1>7. u.base = a
  <2>. HIDE DEF u, q
  <2>. QED BY <1>1, <1>4, <1>5, <1>6
<1>8. q \in Nat
  BY <1>1, Parts
<1>. HIDE DEF u, q
<1>. QED BY <1>4, <1>7, <1>8 DEF a

\* The blocks that are available are /22 blocks, none of which shares an address
\* with a subnet of that size or larger.
LEMMA AvailableBlock ==
    ASSUME NEW net, IsMountain(net), Available(net) # <<>>, NEW b, b = Available(net)[1]
    PROVE  /\ IsBlock(b) /\ b.len = 22
           /\ \A s \in ToSet(net.subnets) : s.cidr.len <= 22 => ~overlaps(b, s.cidr)
<1>. DEFINE n == 2^(22 - net.cidr.len)
            blocks == [i \in 1..n |-> Cidr(net.cidr.base + 1024 * (i - 1), 22)]
            X == ToSet(blocks)
            kept == {x \in X : ~Covered(x, net.subnets)}
<1>1. n \in Nat
  <2>1. \A x \in 0..32 : x <= 22 => 22 - x \in 0..32
    OBVIOUS
  <2>2. 22 - net.cidr.len \in 0..32
    BY <2>1 DEF IsMountain, IsBlock
  <2>. QED BY <2>2, Powers
<1>2. Available(net) = Those(blocks, kept)
  BY DEF Available
<1>. HIDE DEF n
<1>3. blocks \in Seq(X)
  <2>1. DOMAIN blocks = 1..n /\ blocks = [i \in 1..n |-> blocks[i]]
    OBVIOUS
  <2>. HIDE DEF blocks
  <2>. QED BY <1>1, <2>1 DEF ToSet
<1>. HIDE DEF blocks
<1>4. Available(net) \in Seq(X \cap kept)
  BY <1>2, <1>3, ThoseIn
<1>5. b \in kept
  BY <1>4
<1>6. PICK i \in 1..n : b = Cidr(net.cidr.base + 1024 * (i - 1), 22)
  BY <1>5 DEF ToSet, blocks
<1>7. b.base = net.cidr.base + 1024 * (i - 1) /\ b.len = 22 /\ b = Cidr(b.base, b.len)
  BY <1>6 DEF Cidr
<1>8. PICK q \in Nat : net.cidr.base = 1024 * q
  BY BeginsQuarter DEF IsMountain
<1>9. b.base = 1024 * (q + (i - 1)) /\ q + (i - 1) \in Nat /\ b.base \in Nat
  BY <1>1, <1>7, <1>8
<1>10. b.base % 1024 = 0
  BY <1>9, DivisionEven
<1>11. Size(b) = 1024 /\ IsBlock(b)
  <2>1. 2^(32 - 22) = 1024
    OBVIOUS
  <2>. QED BY <2>1, <1>7, <1>9, <1>10 DEF IsBlock, Size
<1>12. ASSUME NEW s \in ToSet(net.subnets), s.cidr.len <= 22, overlaps(b, s.cidr) PROVE FALSE
  <2>1. IsBlock(s.cidr)
    BY DEF IsMountain
  <2>2. Addresses(b) \subseteq Addresses(s.cidr)
    BY <2>1, <1>7, <1>11, <1>12, ApartIsNoOverlap, BlocksNest
  <2>3. ASSUME NEW j \in 0..3 PROVE subnet_of(Cidr(b.base + 256 * j, 24), s.cidr)
    <3>1. b.base + 256 * j \in Addresses(b)
      BY <1>9, <1>11 DEF Addresses
    <3>2. 24 >= s.cidr.len
      <4>1. \A x \in 0..32 : x <= 22 => 24 >= x
        OBVIOUS
      <4>. QED BY <4>1, <2>1, <1>12 DEF IsBlock
    <3>. QED BY <2>2, <3>1, <3>2 DEF subnet_of, Cidr
  <2>4. Covered(b, net.subnets)
    BY <2>3 DEF Covered
  <2>. QED BY <1>5, <2>4
<1>. QED BY <1>7, <1>11, <1>12

\* A list that is one longer.
LEMMA AppendSet ==
    ASSUME NEW list, list \in Seq(ToSet(list)), NEW x, NEW new, new = Append(list, x)
    PROVE  /\ new \in Seq(ToSet(new)) /\ ToSet(new) = ToSet(list) \cup {x}
           /\ Len(list) \in Nat /\ Len(new) = Len(list) + 1
           /\ DOMAIN list = 1..Len(list) /\ DOMAIN new = 1..Len(new)
           /\ new[Len(new)] = x /\ \A i \in 1..Len(list) : new[i] = list[i] /\ list[i] \in ToSet(list)
<1>. DEFINE X == ToSet(list)
            n == Len(list)
<1>1. n \in Nat /\ DOMAIN list = 1..n /\ X = {list[i] : i \in 1..n}
  BY DEF ToSet
<1>. HIDE DEF X
<1>2. /\ new \in Seq(X \cup {x}) /\ Len(new) = n + 1 /\ DOMAIN new = 1..n + 1
      /\ new[n + 1] = x /\ \A i \in 1..n : new[i] = list[i]
  <2>1. list \in Seq(X \cup {x}) /\ x \in X \cup {x}
    <3>1. list \in Seq(X)
      BY DEF X
    <3>. QED BY <3>1
  <2>. QED BY <2>1, <1>1
<1>3. ToSet(new) = X \cup {x}
  <2>1. 1..n + 1 = 1..n \cup {n + 1}
    BY <1>1
  <2>2. ToSet(new) = {new[i] : i \in 1..n} \cup {new[n + 1]}
    BY <1>2, <2>1 DEF ToSet
  <2>. QED BY <1>1, <1>2, <2>2
<1>. QED BY <1>1, <1>2, <1>3 DEF X

\* A network with one more subnet.
LEMMA OneMoreSubnet ==
    ASSUME NEW net, IsMountain(net), NEW s, IsBlock(s.cidr),
           NEW new, new = [net EXCEPT !.subnets = Append(@, s)]
    PROVE  /\ IsMountain(new) /\ new.subnets = Append(net.subnets, s)
           /\ ToSet(new.subnets) = ToSet(net.subnets) \cup {s}
           /\ SubnetsApart(net) /\ (\A t \in ToSet(net.subnets) : ~overlaps(s.cidr, t.cidr)) => SubnetsApart(new)
<1>. DEFINE list == net.subnets
            q == Append(net.subnets, s)
            n == Len(list)
<1>1. /\ net = [cidr |-> net.cidr, subnets |-> list] /\ list \in Seq(ToSet(list))
      /\ IsBlock(net.cidr) /\ net.cidr.len <= 22 /\ \A t \in ToSet(list) : IsBlock(t.cidr)
  BY DEF IsMountain
<1>2. new = [cidr |-> net.cidr, subnets |-> q]
  BY <1>1
<1>3. new.subnets = q /\ new.cidr = net.cidr
  BY <1>2
<1>4. /\ q \in Seq(ToSet(q)) /\ ToSet(q) = ToSet(list) \cup {s}
      /\ n \in Nat /\ Len(q) = n + 1 /\ DOMAIN list = 1..n /\ DOMAIN q = 1..n + 1
      /\ q[n + 1] = s /\ \A i \in 1..n : q[i] = list[i] /\ list[i] \in ToSet(list)
  <2>. HIDE DEF n, list
  <2>1. q = Append(list, s)
    BY DEF list
  <2>. HIDE DEF q
  <2>2. /\ Len(q) = Len(list) + 1 /\ DOMAIN q = 1..Len(q) /\ q[Len(q)] = s
        /\ \A i \in 1..Len(list) : q[i] = list[i] /\ list[i] \in ToSet(list)
    BY <1>1, <2>1, AppendSet
  <2>3. /\ q \in Seq(ToSet(q)) /\ ToSet(q) = ToSet(list) \cup {s}
        /\ Len(list) \in Nat /\ DOMAIN list = 1..Len(list)
    BY <1>1, <2>1, AppendSet
  <2>. QED BY <2>2, <2>3 DEF n
<1>. HIDE DEF q, n, list
<1>5. IsMountain(new)
  BY <1>1, <1>2, <1>3, <1>4 DEF IsMountain
<1>6. ASSUME SubnetsApart(net), \A t \in ToSet(net.subnets) : ~overlaps(s.cidr, t.cidr) PROVE SubnetsApart(new)
  <2>. SUFFICES ASSUME NEW i \in 1..n + 1, NEW j \in 1..n + 1, i # j PROVE ~overlaps(q[i].cidr, q[j].cidr)
    BY <1>3, <1>4 DEF SubnetsApart
  <2>1. CASE i \in 1..n /\ j \in 1..n
    BY <1>4, <1>6, <2>1 DEF SubnetsApart, list
  <2>2. CASE i = n + 1 /\ j \in 1..n
    BY <1>4, <1>6, <2>2 DEF list
  <2>3. CASE i \in 1..n /\ j = n + 1
    BY <1>4, <1>6, <2>3 DEF list, overlaps
  <2>. QED BY <1>4, <2>1, <2>2, <2>3
<1>. QED BY <1>3, <1>4, <1>5, <1>6 DEF q, list

\* The network of the first cabinet.
LEMMA NothingMountain ==
    /\ ToSet(NoMountain.subnets) = {} /\ SubnetsApart(NoMountain)
    /\ \A n \in CabinetNetwork : IsMountain([NoMountain EXCEPT !.cidr = DefaultCidr[n]])
                                 /\ [NoMountain EXCEPT !.cidr = DefaultCidr[n]].subnets = <<>>
<1>1. NoMountain.subnets = <<>> /\ ToSet(<<>>) = {}
  BY DEF NoMountain, ToSet
<1>2. ASSUME NEW n \in CabinetNetwork
      PROVE  IsBlock(DefaultCidr[n]) /\ DefaultCidr[n].len <= 22
  <2>1. DefaultCidr["HMN_MTN"] = Cidr(32768, 17) /\ DefaultCidr["NMN_MTN"] = Cidr(0, 17)
    <3>1. 2^15 = 32768
      OBVIOUS
    <3>3. /\ DefaultCidr["HMN_MTN"] = Cidr(2^15, 17)
          /\ DefaultCidr["NMN_MTN"] = Cidr(0, 17)
      BY Zenon DEF DefaultCidr, CabinetNetwork
    <3>. QED BY <3>1, <3>3
  <2>2. 2^(32 - 17) = 32768
    OBVIOUS
  <2>3. \A b : b = Cidr(32768, 17) \/ b = Cidr(0, 17) => IsBlock(b) /\ b.len <= 22
    <3>1. 0 % 32768 = 0 /\ 32768 % 32768 = 0
      OBVIOUS
    <3>2. \A x \in {0, 32768} : Cidr(x, 17).base = x /\ Cidr(x, 17).len = 17 /\ Cidr(x, 17) = Cidr(Cidr(x, 17).base, Cidr(x, 17).len)
                                 /\ Size(Cidr(x, 17)) = 32768
      BY <2>2 DEF Cidr, Size
    <3>. QED BY <3>1, <3>2 DEF IsBlock
  <2>. QED BY <2>1, <2>3 DEF CabinetNetwork
<1>3. ASSUME NEW b, IsBlock(b), b.len <= 22
      PROVE  IsMountain([NoMountain EXCEPT !.cidr = b]) /\ [NoMountain EXCEPT !.cidr = b].subnets = <<>>
  <2>1. [NoMountain EXCEPT !.cidr = b] = [cidr |-> b, subnets |-> <<>>]
    BY DEF NoMountain
  <2>2. <<>> \in Seq({})
    OBVIOUS
  <2>. QED BY <1>1, <1>3, <2>1, <2>2 DEF IsMountain
<1>4. SubnetsApart(NoMountain)
  BY <1>1 DEF SubnetsApart
<1>. QED BY <1>1, <1>2, <1>3, <1>4

\* What a run makes of the networks, and what it has checked.
VlanOf(command) == [n \in CabinetNetwork |-> IF n = "HMN_MTN" THEN command.hmnVlan ELSE command.nmnVlan]
FreeOf == [n \in CabinetNetwork |-> Available(Mountain(cabinetFile, n))]
NetsWith(command) ==
    [n \in CabinetNetwork |->
       [Mountain(cabinetFile, n) EXCEPT
           !.subnets = Append(@, CabinetSubnet(command.cabinet, FreeOf[n][1], VlanOf(command)[n]))]]
Adds(command) ==
    /\ ~BadCommand(command) /\ ~DuplicateNids(cabinetFile, command)
    /\ \A n \in CabinetNetwork : FreeOf[n] # <<>>
    /\ ~DuplicateVlans(NetsWith(command))
    /\ cabinetFile' = [cabinets |-> cabinetFile.cabinets \cup {command.cabinet},
                       nodes |-> cabinetFile.nodes
                                 \cup {[nid |-> i, role |-> "Compute"] : i \in NewNids(command)},
                       nets |-> NetsWith(command)]
    /\ cabinetsAdded' = Append(cabinetsAdded, command)
    /\ UNCHANGED cabinetDump
\* AddCabinet, for one command.
LEMMA AddsOne == ASSUME AddCabinet PROVE \E command \in CabinetCommands : Adds(command)
  BY Zenon DEF AddCabinet, Adds, NetsWith, FreeOf, VlanOf

\* A new cabinet gets a block of its own in both networks.
LEMMA AddsApart ==
    ASSUME CabinetNetsGood, CabinetNetsApart, AddCabinet
    PROVE  CabinetNetsGood' /\ CabinetNetsApart'
<1>1. PICK command \in CabinetCommands : Adds(command)
  BY AddsOne
<1>2. ASSUME NEW n \in CabinetNetwork
      PROVE  /\ Available(Mountain(cabinetFile, n)) # <<>>
             /\ cabinetFile'.nets[n] =
                 [Mountain(cabinetFile, n) EXCEPT !.subnets =
                    Append(@, CabinetSubnet(command.cabinet, Available(Mountain(cabinetFile, n))[1], VlanOf(command)[n]))]
  <2>1. FreeOf[n] = Available(Mountain(cabinetFile, n)) /\ FreeOf[n] # <<>>
    BY <1>1 DEF Adds, FreeOf
  <2>2. cabinetFile'.nets = NetsWith(command)
    BY <1>1 DEF Adds
  <2>. QED BY <2>1, <2>2 DEF NetsWith
<1>3. UNCHANGED cabinetDump
  BY <1>1 DEF Adds
<1>4. ASSUME NEW n \in CabinetNetwork
      PROVE  /\ IsMountain(cabinetFile'.nets[n])
             /\ (/\ \A s \in ToSet(cabinetFile.nets[n].subnets) : s.cidr.len <= 22
                 /\ SubnetsApart(cabinetFile.nets[n])) =>
                   /\ SubnetsApart(cabinetFile'.nets[n])
                   /\ \A s \in ToSet(cabinetFile'.nets[n].subnets) : s.cidr.len <= 22
  <2>. DEFINE net == Mountain(cabinetFile, n)
              b == Available(net)[1]
              s == CabinetSubnet(command.cabinet, b, VlanOf(command)[n])
              new == cabinetFile'.nets[n]
  <2>1. new = [net EXCEPT !.subnets = Append(@, s)] /\ Available(net) # <<>>
    BY <1>2
  <2>2. /\ IsMountain(net) /\ ToSet(net.subnets) = ToSet(cabinetFile.nets[n].subnets)
        /\ SubnetsApart(cabinetFile.nets[n]) => SubnetsApart(net)
    <3>1. CASE cabinetFile.nets[n] = NoMountain
      <4>1. IsMountain(net) /\ net.subnets = <<>>
        BY <3>1, NothingMountain DEF Mountain
      <4>2. SubnetsApart(net) /\ ToSet(net.subnets) = {}
        BY <4>1 DEF SubnetsApart, ToSet
      <4>. QED BY <3>1, <4>1, <4>2, NothingMountain
    <3>2. CASE cabinetFile.nets[n] # NoMountain
      BY <3>2 DEF Mountain, CabinetNetsGood
    <3>. QED BY <3>1, <3>2
  <2>3. s.cidr = b
    BY DEF CabinetSubnet
  <2>. HIDE DEF net, s, new
  <2>4. /\ IsBlock(b) /\ b.len = 22
        /\ \A t \in ToSet(net.subnets) : t.cidr.len <= 22 => ~overlaps(b, t.cidr)
    BY <2>1, <2>2, AvailableBlock
  <2>. HIDE DEF b
  <2>6. IsBlock(s.cidr)
    BY <2>3, <2>4
  <2>5. /\ IsMountain(new) /\ ToSet(new.subnets) = ToSet(net.subnets) \cup {s}
        /\ SubnetsApart(net) /\ (\A t \in ToSet(net.subnets) : ~overlaps(s.cidr, t.cidr)) => SubnetsApart(new)
    BY <2>1, <2>2, <2>6, OneMoreSubnet
  <2>. QED BY <2>2, <2>3, <2>4, <2>5 DEF new
<1>. QED BY <1>3, <1>4 DEF CabinetNetsGood, CabinetNetsApart, LargeIn

\* NodesOf, one command after the other.
Adding(command) == Chassis(command) * NodesPerChassis
NodesUpTo(acc, list) ==
    /\ acc[0] = 0 /\ NodesOf(list) = acc[Len(list)]
    /\ \A k \in 1..Len(list) : acc[k] = acc[k - 1] + Adding(list[k])
LEMMA NodesSteps ==
    ASSUME NEW X, NEW list \in Seq(X), \A x \in X : Adding(x) \in Nat
    PROVE  \E acc \in [0..Len(list) -> Nat] : NodesUpTo(acc, list)
<1>. DEFINE n == Len(list)
            V == Nat
            base == 0
            Op(v, x) == v + Adding(x)
            F == [i \in 1..n |-> [v \in V |-> Op(v, list[i])]]
            Is(g) == g = [s \in SUBSET (DOMAIN list) |->
                            IF s = {} THEN base ELSE Op(g[s \ {Max(s)}], list[Max(s)])]
            f == CHOOSE h : Is(h)
<1>1. n \in Nat /\ DOMAIN list = 1..n /\ \A i \in 1..n : list[i] \in X
  OBVIOUS
<1>2. base \in V /\ \A v \in V, x \in X : Op(v, x) \in V
  OBVIOUS
<1>3. NodesOf(list) = f[1..n]
  BY <1>1 DEF NodesOf, Adding, FoldLeft, MapThenFoldSet
<1>. HIDE DEF n, V, base, Op
<1>4. F \in [1..n -> [V -> V]]
  BY <1>1, <1>2
<1>5. PICK g \in [SUBSET (1..n) -> V] : Folds1(g, n, base, F)
  <2>. HIDE DEF F
  <2>. QED BY <1>1, <1>2, <1>4, FoldExists
<1>6. ASSUME NEW s \in SUBSET (1..n), s # {} PROVE Max(s) \in 1..n
  <2>1. s \in SUBSET (0..n)
    BY <1>1
  <2>. QED BY <1>1, <1>6, <2>1, MaxInside
<1>7. Is(f)
  <2>. DEFINE r == [s \in SUBSET (1..n) |-> IF s = {} THEN base ELSE Op(g[s \ {Max(s)}], list[Max(s)])]
  <2>1. \A s \in SUBSET (1..n) : g[s] = r[s]
    BY <1>5, <1>6 DEF Folds1
  <2>2. g = [s \in SUBSET (1..n) |-> g[s]] /\ r = [s \in SUBSET (1..n) |-> r[s]]
    OBVIOUS
  <2>3. g = r
    <3>. HIDE DEF r
    <3>. QED BY <2>1, <2>2
  <2>4. g = [s \in SUBSET (DOMAIN list) |-> IF s = {} THEN base ELSE Op(g[s \ {Max(s)}], list[Max(s)])]
    BY <1>1, <2>3
  <2>5. Is(g)
    BY <2>4
  <2>. HIDE DEF Is
  <2>. QED BY <2>5
<1>. HIDE DEF f
<1>8. \A s \in SUBSET (1..n) : f[s] = IF s = {} THEN base ELSE Op(f[s \ {Max(s)}], list[Max(s)])
  BY <1>1, <1>7
<1>9. PICK acc \in [0..n -> V] : ValuesOf(acc, n, base, F, f[1..n])
  <2>1. f[{}] = base
    BY <1>8
  <2>2. ASSUME NEW s \in SUBSET (1..n), s # {}, f[s \ {Max(s)}] \in V PROVE f[s] = F[Max(s)][f[s \ {Max(s)}]]
    BY <1>6, <1>8, <2>2
  <2>3. FoldsIn(f, n, V, base, F)
    BY <2>1, <2>2 DEF FoldsIn
  <2>. HIDE DEF F
  <2>. QED BY <1>1, <1>2, <1>4, <2>3, FoldValues
<1>10. ASSUME NEW k \in 1..n PROVE F[k][acc[k - 1]] = Op(acc[k - 1], list[k])
  <2>1. k - 1 \in 0..n
    BY <1>1
  <2>. QED BY <2>1
<1>. HIDE DEF F
<1>. QED BY <1>3, <1>9, <1>10 DEF NodesUpTo, ValuesOf, n, V, base, Op

\* One cabinet more.
LEMMA NodesOfOneMore ==
    ASSUME NEW X, NEW list \in Seq(X), \A x \in X : Adding(x) \in Nat, NEW x \in X
    PROVE  NodesOf(list) \in Nat /\ NodesOf(Append(list, x)) = NodesOf(list) + Adding(x)
<1>. DEFINE n == Len(list)
            new == Append(list, x)
<1>1. /\ n \in Nat /\ new \in Seq(X) /\ Len(new) = n + 1 /\ new[n + 1] = x
      /\ \A k \in 1..n : new[k] = list[k] /\ list[k] \in X
  OBVIOUS
<1>. HIDE DEF new
<1>2. PICK a \in [0..n -> Nat] : NodesUpTo(a, list)
  BY NodesSteps
<1>3. PICK b \in [0..n + 1 -> Nat] : NodesUpTo(b, new)
  <2>1. \E b \in [0..Len(new) -> Nat] : NodesUpTo(b, new)
    BY <1>1, NodesSteps
  <2>. QED BY <1>1, <2>1
<1>. DEFINE T == {k \in 0..n : a[k] = b[k]}
<1>4. 0 \in T
  BY <1>1, <1>2, <1>3 DEF NodesUpTo
<1>5. ASSUME NEW k \in 1..n, k - 1 \in T PROVE k \in T
  <2>1. a[k] = a[k - 1] + Adding(list[k])
    BY <1>2 DEF NodesUpTo
  <2>2. b[k] = b[k - 1] + Adding(new[k])
    BY <1>1, <1>3 DEF NodesUpTo
  <2>3. a[k - 1] = b[k - 1] /\ new[k] = list[k] /\ k \in 0..n
    BY <1>1, <1>5
  <2>. QED BY <2>1, <2>2, <2>3
<1>6. n \in T
  <2>1. 0..n \subseteq T
    <3>. HIDE DEF T
    <3>. QED BY <1>1, <1>4, <1>5, Induction
  <2>. QED BY <1>1, <2>1
<1>7. b[n + 1] = b[n] + Adding(x)
  <2>1. n + 1 \in 1..Len(new) /\ (n + 1) - 1 = n
    BY <1>1
  <2>. QED BY <1>1, <1>3, <2>1 DEF NodesUpTo
<1>8. NodesOf(list) = a[n] /\ NodesOf(new) = b[n + 1]
  BY <1>1, <1>2, <1>3 DEF NodesUpTo
<1>. QED BY <1>1, <1>2, <1>6, <1>7, <1>8 DEF new

LEMMA NodesOfNone == NodesOf(<<>>) = 0
<1>. DEFINE list == <<>>
            X == {}
<1>1. list \in Seq(X) /\ Len(list) = 0 /\ list = <<>> /\ \A x \in X : Adding(x) \in Nat
  OBVIOUS
<1>. HIDE DEF list, X
<1>2. PICK acc \in [0..Len(list) -> Nat] : NodesUpTo(acc, list)
  BY <1>1, NodesSteps
<1>. QED BY <1>1, <1>2 DEF NodesUpTo

\* What commands add, once they have been carried out.
LEMMA CarriedAdds == ASSUME NEW c \in Carried PROVE Chassis(c) \in Nat /\ Adding(c) \in Nat /\ c.startingNid \in Int
<1>1. c.type \in {"Mountain", "Hill", "EX2500"} /\ c.startingNid \in Int /\ (c.type = "EX2500" => c.chassis \in 1..3)
  BY CabinetCommandsAssumption DEF Carried, BadCommand
<1>2. Chassis(c) \in Nat
  BY <1>1 DEF Chassis
<1>. QED BY <1>1, <1>2, CabinetCommandsAssumption DEF Adding

\* A VLAN that is in use is refused.
LEMMA AddsVlans ==
    ASSUME CabinetNetsGood', NEW command, Adds(command) PROVE CabinetVlansApart'
<1>. DEFINE nets == NetsWith(command)
            h == nets["HMN_MTN"].subnets
            m == nets["NMN_MTN"].subnets
            all == h \o m
<1>1. cabinetFile'.nets = nets /\ ~\E i, j \in DOMAIN all : i # j /\ all[i].vlan = all[j].vlan
  BY DEF Adds, DuplicateVlans
<1>2. h \in Seq(ToSet(h)) /\ m \in Seq(ToSet(m))
  <2>1. ASSUME NEW n \in CabinetNetwork PROVE nets[n].subnets \in Seq(ToSet(nets[n].subnets))
    <3>1. nets[n] = NoMountain \/ IsMountain(nets[n])
      BY <1>1 DEF CabinetNetsGood
    <3>2. NoMountain.subnets \in Seq(ToSet(NoMountain.subnets))
      BY DEF NoMountain, ToSet
    <3>. HIDE DEF nets
    <3>. QED BY <3>1, <3>2 DEF IsMountain
  <2>. HIDE DEF nets
  <2>. QED BY <2>1 DEF CabinetNetwork
<1>. HIDE DEF h, m
<1>3. /\ Len(h) \in Nat /\ Len(m) \in Nat /\ DOMAIN all = 1..Len(h) + Len(m)
      /\ DOMAIN h = 1..Len(h) /\ DOMAIN m = 1..Len(m)
      /\ \A i \in 1..Len(h) : all[i] = h[i]
      /\ \A i \in 1..Len(m) : all[Len(h) + i] = m[i]
  <2>1. h \in Seq(ToSet(h) \cup ToSet(m)) /\ m \in Seq(ToSet(h) \cup ToSet(m))
    BY <1>2
  <2>. QED BY <2>1
<1>. HIDE DEF all
<1>4. ASSUME NEW s \in ToSet(h), NEW t \in ToSet(h), s # t PROVE s.vlan # t.vlan
  <2>1. PICK i \in 1..Len(h), j \in 1..Len(h) : s = h[i] /\ t = h[j]
    BY <1>3 DEF ToSet
  <2>2. i \in DOMAIN all /\ j \in DOMAIN all /\ i # j /\ all[i] = s /\ all[j] = t
    BY <1>3, <1>4, <2>1
  <2>. QED BY <1>1, <2>2
<1>5. ASSUME NEW s \in ToSet(m), NEW t \in ToSet(m), s # t PROVE s.vlan # t.vlan
  <2>1. PICK i \in 1..Len(m), j \in 1..Len(m) : s = m[i] /\ t = m[j]
    BY <1>3 DEF ToSet
  <2>2. Len(h) + i \in DOMAIN all /\ Len(h) + j \in DOMAIN all /\ Len(h) + i # Len(h) + j
        /\ all[Len(h) + i] = s /\ all[Len(h) + j] = t
    BY <1>3, <1>5, <2>1
  <2>. QED BY <1>1, <2>2
<1>6. ASSUME NEW s \in ToSet(h), NEW t \in ToSet(m) PROVE s.vlan # t.vlan
  <2>1. PICK i \in 1..Len(h), j \in 1..Len(m) : s = h[i] /\ t = m[j]
    BY <1>3 DEF ToSet
  <2>2. i \in DOMAIN all /\ Len(h) + j \in DOMAIN all /\ i # Len(h) + j
        /\ all[i] = s /\ all[Len(h) + j] = t
    BY <1>3, <2>1
  <2>. QED BY <1>1, <2>2
<1>. HIDE DEF nets
<1>7. ASSUME NEW k \in CabinetNetwork, NEW n \in CabinetNetwork, NEW s \in ToSet(nets[k].subnets),
             NEW t \in ToSet(nets[n].subnets), <<k, s>> # <<n, t>>
      PROVE  s.vlan # t.vlan
  BY <1>4, <1>5, <1>6, <1>7 DEF CabinetNetwork, h, m
<1>. QED BY <1>1, <1>7 DEF CabinetVlansApart

\* The new nodes have NIDs that no other has.
LEMMA AddsNodes ==
    ASSUME CabinetNodesCounted, NEW command \in CabinetCommands, Adds(command) PROVE CabinetNodesCounted'
<1>. DEFINE old == cabinetFile.nodes
            N == NewNids(command)
            f == [i \in N |-> [nid |-> i, role |-> "Compute"]]
            R == {[nid |-> i, role |-> "Compute"] : i \in N}
            size == Adding(command)
<1>1. command \in Carried /\ ~DuplicateNids(cabinetFile, command)
      /\ cabinetFile'.nodes = old \cup R /\ cabinetsAdded' = Append(cabinetsAdded, command) /\ cabinetDump' = cabinetDump
  BY DEF Adds, Carried
<1>2. size \in Nat /\ command.startingNid \in Int /\ \A c \in Carried : Adding(c) \in Nat
  BY <1>1, CarriedAdds
<1>3. IsFiniteSet(N) /\ Cardinality(N) = size
  <2>. DEFINE b == command.startingNid
              e == b + size - 1
  <2>1. N = b..e
    BY DEF NewNids, Adding
  <2>. HIDE DEF N, b, size
  <2>2. b \in Int /\ e \in Int
    BY <1>2 DEF b
  <2>3. IsFiniteSet(b..e) /\ Cardinality(b..e) = IF b > e THEN 0 ELSE e - b + 1
    <3>. HIDE DEF e
    <3>. QED BY <2>2, FS_Interval
  <2>. QED BY <1>2, <2>1, <2>2, <2>3
<1>. HIDE DEF N, size
<1>4. IsFiniteSet(R) /\ Cardinality(R) = size
  <2>1. f \in Bijection(N, R)
    <3>1. f \in [N -> R]
      OBVIOUS
    <3>2. ASSUME NEW i \in N, NEW j \in N, f[i] = f[j] PROVE i = j
      <4>1. f[i].nid = i /\ f[j].nid = j
        OBVIOUS
      <4>. HIDE DEF f
      <4>. QED BY <3>2, <4>1
    <3>3. \A r \in R : \E i \in N : f[i] = r
      OBVIOUS
    <3>. HIDE DEF f, R
    <3>. QED BY <3>1, <3>2, <3>3 DEF Bijection, Injection, Surjection, IsInjective
  <2>2. ExistsBijection(N, R)
    BY <2>1 DEF ExistsBijection
  <2>. HIDE DEF R
  <2>. QED BY <1>3, <2>2, FS_Bijection
<1>5. old \cap R = {}
  <2>. SUFFICES ASSUME NEW i \in N, [nid |-> i, role |-> "Compute"] \in old PROVE FALSE
    OBVIOUS
  <2>. DEFINE r == [nid |-> i, role |-> "Compute"]
  <2>1. r.role = "Compute" /\ r.nid = i
    OBVIOUS
  <2>. HIDE DEF r
  <2>. QED BY <1>1, <2>1 DEF DuplicateNids, N, r
<1>. HIDE DEF R
<1>6. IsFiniteSet(old \cup R) /\ Cardinality(old \cup R) = Cardinality(old) + size
  <2>1. IsFiniteSet(old)
    BY DEF CabinetNodesCounted
  <2>2. Cardinality(old) \in Nat /\ Cardinality({}) = 0
    BY <2>1, FS_CardinalityType, FS_EmptySet
  <2>3. IsFiniteSet(old \cup R) /\ Cardinality(old \cup R) = Cardinality(old) + Cardinality(R) - Cardinality(old \cap R)
    BY <1>4, <2>1, FS_Union
  <2>4. Cardinality(old \cap R) = 0 /\ Cardinality(R) = size
    BY <1>4, <1>5, <2>2
  <2>5. \A x, y \in Nat : x + y - 0 = x + y
    OBVIOUS
  <2>6. Cardinality(old) + Cardinality(R) - Cardinality(old \cap R) = Cardinality(old) + size
    BY <1>2, <2>2, <2>4, <2>5
  <2>. QED BY <2>3, <2>6
<1>7. /\ NodesOf(cabinetsAdded) \in Nat /\ cabinetsAdded' \in Seq(Carried)
      /\ NodesOf(cabinetsAdded') = NodesOf(cabinetsAdded) + size
  <2>1. cabinetsAdded \in Seq(Carried)
    BY DEF CabinetNodesCounted
  <2>2. NodesOf(Append(cabinetsAdded, command)) = NodesOf(cabinetsAdded) + Adding(command) /\ NodesOf(cabinetsAdded) \in Nat
    BY <1>1, <1>2, <2>1, NodesOfOneMore
  <2>. QED BY <1>1, <2>1, <2>2 DEF size
<1>. QED BY <1>1, <1>2, <1>6, <1>7 DEF CabinetNodesCounted

\* What an invariant of the cabinets needs of the first state.
LEMMA CabinetsBegin ==
    ASSUME cabinetFile = cabinetDump, cabinetsAdded = <<>>, IsFiniteSet(cabinetDump.nodes),
           \A n \in CabinetNetwork :
               cabinetDump.nets[n] = NoMountain \/ (IsMountain(cabinetDump.nets[n]) /\ SubnetsApart(cabinetDump.nets[n]))
    PROVE  CabinetsInv
<1>1. CabinetNetsGood /\ CabinetNetsApart
  BY NothingMountain DEF CabinetNetsGood, CabinetNetsApart
<1>2. CabinetVlansApart
  BY DEF CabinetVlansApart
<1>3. CabinetNodesCounted
  <2>1. Cardinality(cabinetDump.nodes) \in Nat
    BY FS_CardinalityType
  <2>2. <<>> \in Seq(Carried)
    OBVIOUS
  <2>. QED BY <2>1, <2>2, NodesOfNone DEF CabinetNodesCounted
<1>. QED BY <1>1, <1>2, <1>3 DEF CabinetsInv

\* The first state and every step of any change.
LEMMA CabinetsInit == ChangesInit => CabinetsInv
<1>1. ASSUME CabinetInit PROVE CabinetsInv
  BY <1>1, CabinetsBegin, CabinetFilesAssumption DEF CabinetInit
<1>2. ASSUME CabinetsAtRest PROVE CabinetsInv
  <2>1. cabinetDump.nodes = {} /\ \A n \in CabinetNetwork : cabinetDump.nets[n] = NoMountain
    BY <1>2 DEF CabinetsAtRest
  <2>2. IsFiniteSet({})
    BY FS_EmptySet
  <2>3. cabinetFile = cabinetDump /\ cabinetsAdded = <<>>
    BY <1>2 DEF CabinetsAtRest
  <2>4. IsFiniteSet(cabinetDump.nodes)
    BY <2>1, <2>2
  <2>5. \A n \in CabinetNetwork :
           cabinetDump.nets[n] = NoMountain \/ (IsMountain(cabinetDump.nets[n]) /\ SubnetsApart(cabinetDump.nets[n]))
    BY <2>1
  <2>. QED BY <2>3, <2>4, <2>5, CabinetsBegin
<1>. QED BY <1>1, <1>2 DEF ChangesInit

LEMMA CabinetsStep == CabinetsInv /\ [ChangesNext]_changesVars => CabinetsInv'
<1>. SUFFICES ASSUME CabinetsInv, [ChangesNext]_changesVars PROVE CabinetsInv'
  OBVIOUS
<1>1. CASE AddCabinet
  <2>1. PICK command \in CabinetCommands : Adds(command)
    BY <1>1, AddsOne
  <2>2. CabinetNetsGood' /\ CabinetNetsApart'
    BY <1>1, AddsApart DEF CabinetsInv
  <2>. QED BY <2>1, <2>2, AddsVlans, AddsNodes DEF CabinetsInv
<1>2. CASE UNCHANGED cabinetVars
  BY <1>2 DEF cabinetVars, CabinetsInv, CabinetNetsGood, CabinetNetsApart, CabinetVlansApart, CabinetNodesCounted
<1>3. AddCabinet \/ UNCHANGED cabinetVars
  BY DEF ChangesNext, UpgradeChanges, changesVars
<1>. QED BY <1>1, <1>2, <1>3

\* However many cabinets are added to whatever dump, in both networks their subnets
\* stay apart from each other and from those that were there, unless one of these is
\* smaller than a /22; and no VLAN and no node is in two cabinets.
THEOREM CabinetsStayApart == ChangesSpec => [](CabinetSubnetsApart /\ CabinetsApart)
<1>1. CabinetsInv => CabinetSubnetsApart /\ CabinetsApart
  BY DEF CabinetsInv, CabinetNetsApart, CabinetVlansApart, CabinetNodesCounted, LargeIn, CabinetSubnetsApart, CabinetsApart
<1>. QED BY <1>1, CabinetsInit, CabinetsStep, PTL DEF ChangesSpec

-----------------------------------------------------------------------------
(* The free blocks of a network.                                           *)

\* free_ipv4_subnets, one subnet after the other.
Blocks == {b \in [base : Nat, len : 0..32] : IsBlock(b)}
FreeUpTo(acc, network, list) ==
    /\ acc[0] = {network} /\ free_ipv4_subnets(network, list) = acc[Len(list)]
    /\ \A k \in 1..Len(list) : acc[k] = CutOut(acc[k - 1], is_supernet_hacked(network, list[k]))

\* Blocks as a set.
LEMMA IsInBlocks == \A b : IsBlock(b) <=> b \in Blocks
  BY DEF Blocks, IsBlock, Cidr

\* The block that a subnet is taken to have is one, guessed or not.
LEMMA HackIsBlock ==
    ASSUME NEW network, IsBlock(network), NEW s, HasBlock(s)
    PROVE  IsBlock(is_supernet_hacked(network, s))
<1>. DEFINE used == (Ips(s) \cup ToSet(s.dhcp)) \ {Nil}
            fit == {p \in network.len + 1 .. HackPrefix[s.name] :
                        used \subseteq Addresses(Around(Min(used), p)) \cap Addresses(network)}
<1>1. is_supernet_hacked(network, s) =
        IF s.cidr.len # network.len \/ used = {} \/ s.name \notin DOMAIN HackPrefix \/ fit = {}
        THEN s.cidr ELSE Around(Min(used), Max(fit))
  BY DEF is_supernet_hacked
<1>. HIDE DEF used
<1>2. CASE used # {} /\ s.name \in DOMAIN HackPrefix /\ fit # {}
  <2>1. used \subseteq Nat
    <3>1. used \subseteq Addresses(network)
      BY <1>2
    <3>. QED BY <3>1, BlockAddresses
  <2>2. Min(used) \in Nat
    <3>1. \E x \in used : \A y \in used : x <= y
      BY <1>2, <2>1, LeastNatural
    <3>. QED BY <2>1, <3>1 DEF Min
  <2>3. fit \subseteq 0..28
    <3>1. HackPrefix[s.name] \in {24, 27, 28} /\ network.len \in 0..32
      BY <1>2 DEF HackPrefix, IsBlock
    <3>2. \A n \in 0..32, h \in {24, 27, 28} : n + 1 .. h \subseteq 0..28
      OBVIOUS
    <3>. QED BY <3>1, <3>2
  <2>. HIDE DEF fit
  <2>4. Max(fit) \in 0..28
    BY <1>2, <2>3, MaxInside
  <2>5. IsBlock(Around(Min(used), Max(fit)))
    <3>1. Max(fit) \in 0..32
      BY <2>4
    <3>. QED BY <2>2, <3>1, AroundIsBlock
  <2>. QED BY <1>1, <2>5 DEF HasBlock, fit
<1>3. CASE ~(used # {} /\ s.name \in DOMAIN HackPrefix /\ fit # {})
  <2>. HIDE DEF fit
  <2>. QED BY <1>1, <1>3 DEF HasBlock, fit
<1>. QED BY <1>2, <1>3

\* The free blocks around a used one.
AroundOf(free, u) == {b \in free : b # Raised /\ subnet_of(u, b)}
LEMMA CutOutIs ==
    ASSUME NEW free, NEW u
    PROVE  CutOut(free, u) = (free \ AroundOf(free, u)) \cup (UNION {address_exclude(b, u) : b \in AroundOf(free, u)})
                             \cup {x \in {Raised} : AroundOf(free, u) = {}}
  BY Zenon DEF CutOut, AroundOf

LEMMA CutOutMembers ==
    ASSUME NEW free, NEW u, NEW x
    PROVE  x \in CutOut(free, u) <=>
             \/ x \in free \ AroundOf(free, u)
             \/ \E b \in AroundOf(free, u) : x \in address_exclude(b, u)
             \/ x = Raised /\ AroundOf(free, u) = {}
<1>. DEFINE A == AroundOf(free, u)
            U == UNION {address_exclude(b, u) : b \in A}
            M == {y \in {Raised} : A = {}}
<1>1. CutOut(free, u) = (free \ A) \cup U \cup M
  BY CutOutIs
<1>2. x \in U <=> \E b \in A : x \in address_exclude(b, u)
  BY Zenon
<1>3. x \in M <=> x = Raised /\ A = {}
  <2>. HIDE DEF A
  <2>. QED OBVIOUS
<1>. HIDE DEF A, U, M
<1>4. x \in CutOut(free, u) <=> x \in free \ A \/ x \in U \/ x \in M
  BY <1>1
<1>. QED BY <1>2, <1>3, <1>4 DEF A

\* Blocks are what is left when one is cut out.
LEMMA CutOutBlocks ==
    ASSUME NEW free \in SUBSET (Blocks \cup {Raised}), NEW u, IsBlock(u)
    PROVE  CutOut(free, u) \in SUBSET (Blocks \cup {Raised})
<1>1. ASSUME NEW b \in free, b # Raised, subnet_of(u, b) PROVE address_exclude(b, u) \subseteq Blocks
  <2>1. IsBlock(b)
    BY <1>1, IsInBlocks
  <2>2. \A x \in address_exclude(b, u) : IsBlock(x)
    BY <1>1, <2>1, ExcludePartitions DEF Partition
  <2>. QED BY <2>2, IsInBlocks
<1>. SUFFICES ASSUME NEW x \in CutOut(free, u) PROVE x \in Blocks \cup {Raised}
  OBVIOUS
<1>2. x \in free \/ x = Raised \/ \E b \in AroundOf(free, u) : x \in address_exclude(b, u)
  BY CutOutMembers
<1>. QED BY <1>1, <1>2 DEF AroundOf

\* One block is cut out: the used ones and the free ones still make up the network.
LEMMA CutOutPartitions ==
    ASSUME NEW network, NEW used, NEW free \in SUBSET Blocks, Partition(network, used \cup free), used \cap free = {},
           NEW u, IsBlock(u), Raised \notin CutOut(free, u)
    PROVE  Partition(network, (used \cup {u}) \cup CutOut(free, u)) /\ (used \cup {u}) \cap CutOut(free, u) = {}
<1>. DEFINE around == AroundOf(free, u)
<1>1. around # {}
  BY CutOutMembers
<1>2. PICK b \in around : TRUE
  BY <1>1
<1>3. b \in free /\ IsBlock(b) /\ subnet_of(u, b) /\ b \notin used
  BY <1>2, IsInBlocks DEF AroundOf
<1>4. ASSUME NEW c \in around PROVE c = b
  <2>1. u.base \in Addresses(c) \cap Addresses(b)
    BY <1>3 DEF subnet_of, AroundOf
  <2>. QED BY <1>3, <2>1 DEF Partition, AroundOf
<1>5. around = {b}
  BY <1>2, <1>4
<1>. DEFINE rest == address_exclude(b, u)
<1>6. CutOut(free, u) = (free \ {b}) \cup rest
  <2>1. CutOut(free, u) = (free \ around) \cup (UNION {address_exclude(c, u) : c \in around})
                          \cup {x \in {Raised} : around = {}}
    BY CutOutIs
  <2>. HIDE DEF around
  <2>2. UNION {address_exclude(c, u) : c \in around} = rest
    BY <1>5
  <2>. HIDE DEF rest
  <2>. QED BY <1>5, <2>1, <2>2
<1>. HIDE DEF around, rest
<1>7. Partition(b, {u} \cup rest) /\ u \notin rest
  BY <1>3, ExcludePartitions DEF rest
<1>8. Partition(network, ((used \cup free) \ {b}) \cup ({u} \cup rest))
  BY <1>3, <1>7, PartitionRefined
<1>9. ((used \cup free) \ {b}) \cup ({u} \cup rest) = (used \cup {u}) \cup CutOut(free, u)
  BY <1>3, <1>6
<1>10. ASSUME NEW x \in rest \cup {u} PROVE x \notin used /\ x \notin free \ {b}
  <2>1. x.base \in Addresses(x) /\ Addresses(x) \subseteq Addresses(b)
    BY <1>7, BlockAddresses DEF Partition
  <2>2. \A y \in used \cup free : y # b => Addresses(y) \cap Addresses(b) = {}
    BY <1>3 DEF Partition
  <2>. QED BY <1>3, <2>1, <2>2
<1>11. (used \cup {u}) \cap CutOut(free, u) = {}
  BY <1>6, <1>7, <1>10
<1>. QED BY <1>8, <1>9, <1>11

LEMMA FreeSteps ==
    ASSUME NEW network, IsBlock(network), NEW X, NEW list \in Seq(X), \A x \in X : HasBlock(x)
    PROVE  \E acc \in [0..Len(list) -> SUBSET (Blocks \cup {Raised})] : FreeUpTo(acc, network, list)
<1>. DEFINE n == Len(list)
            V == SUBSET (Blocks \cup {Raised})
            base == {network}
            Op(v, x) == CutOut(v, is_supernet_hacked(network, x))
            F == [i \in 1..n |-> [v \in V |-> Op(v, list[i])]]
            Is(g) == g = [s \in SUBSET (DOMAIN list) |->
                            IF s = {} THEN base ELSE Op(g[s \ {Max(s)}], list[Max(s)])]
            f == CHOOSE h : Is(h)
<1>1. n \in Nat /\ DOMAIN list = 1..n /\ \A i \in 1..n : list[i] \in X
  OBVIOUS
<1>2. base \in V /\ \A v \in V, x \in X : Op(v, x) \in V
  BY IsInBlocks, CutOutBlocks, HackIsBlock
<1>3. free_ipv4_subnets(network, list) = f[1..n]
  BY <1>1 DEF free_ipv4_subnets, FoldLeft, MapThenFoldSet
<1>. HIDE DEF n, V, base, Op
<1>4. F \in [1..n -> [V -> V]]
  BY <1>1, <1>2
<1>5. PICK g \in [SUBSET (1..n) -> V] : Folds1(g, n, base, F)
  <2>. HIDE DEF F
  <2>. QED BY <1>1, <1>2, <1>4, FoldExists
<1>6. ASSUME NEW s \in SUBSET (1..n), s # {} PROVE Max(s) \in 1..n
  <2>1. s \in SUBSET (0..n)
    BY <1>1
  <2>. QED BY <1>1, <1>6, <2>1, MaxInside
<1>7. Is(f)
  <2>. DEFINE r == [s \in SUBSET (1..n) |-> IF s = {} THEN base ELSE Op(g[s \ {Max(s)}], list[Max(s)])]
  <2>1. \A s \in SUBSET (1..n) : g[s] = r[s]
    BY <1>5, <1>6 DEF Folds1
  <2>2. g = [s \in SUBSET (1..n) |-> g[s]] /\ r = [s \in SUBSET (1..n) |-> r[s]]
    OBVIOUS
  <2>3. g = r
    <3>. HIDE DEF r
    <3>. QED BY <2>1, <2>2
  <2>4. g = [s \in SUBSET (DOMAIN list) |-> IF s = {} THEN base ELSE Op(g[s \ {Max(s)}], list[Max(s)])]
    BY <1>1, <2>3
  <2>5. Is(g)
    BY <2>4
  <2>. HIDE DEF Is
  <2>. QED BY <2>5
<1>. HIDE DEF f
<1>8. \A s \in SUBSET (1..n) : f[s] = IF s = {} THEN base ELSE Op(f[s \ {Max(s)}], list[Max(s)])
  BY <1>1, <1>7
<1>9. PICK acc \in [0..n -> V] : ValuesOf(acc, n, base, F, f[1..n])
  <2>1. f[{}] = base
    BY <1>8
  <2>2. ASSUME NEW s \in SUBSET (1..n), s # {}, f[s \ {Max(s)}] \in V PROVE f[s] = F[Max(s)][f[s \ {Max(s)}]]
    BY <1>6, <1>8, <2>2
  <2>3. FoldsIn(f, n, V, base, F)
    BY <2>1, <2>2 DEF FoldsIn
  <2>. HIDE DEF F
  <2>. QED BY <1>1, <1>2, <1>4, <2>3, FoldValues
<1>10. ASSUME NEW k \in 1..n PROVE F[k][acc[k - 1]] = Op(acc[k - 1], list[k])
  <2>1. k - 1 \in 0..n
    BY <1>1
  <2>. QED BY <2>1
<1>. HIDE DEF F
<1>. QED BY <1>3, <1>9, <1>10 DEF FreeUpTo, ValuesOf, n, V, base, Op

\* As long as no block is missing, the blocks of the subnets and the free ones make
\* up the network.
HackedTo(network, list, k) == {is_supernet_hacked(network, list[i]) : i \in 1..k}
LEMMA FreeBlocksPartitionNetwork ==
    ASSUME NEW network, IsBlock(network), NEW list, HaveBlocks(list), Raised \notin free_ipv4_subnets(network, list)
    PROVE  /\ Partition(network, {is_supernet_hacked(network, s) : s \in ToSet(list)} \cup free_ipv4_subnets(network, list))
           /\ free_ipv4_subnets(network, list) \subseteq Blocks
<1>. DEFINE n == Len(list)
            X == ToSet(list)
            Done(k) == HackedTo(network, list, k)
<1>1. list \in Seq(X) /\ \A x \in X : HasBlock(x)
  BY DEF HaveBlocks
<1>2. n \in Nat /\ DOMAIN list = 1..n /\ X = {list[i] : i \in 1..n} /\ \A i \in 1..n : list[i] \in X
  <2>1. DOMAIN list = 1..n /\ n \in Nat
    BY <1>1
  <2>. QED BY <2>1 DEF ToSet
<1>. HIDE DEF X
<1>3. PICK acc \in [0..n -> SUBSET (Blocks \cup {Raised})] : FreeUpTo(acc, network, list)
  BY <1>1, FreeSteps
<1>. DEFINE Good(k) == Partition(network, Done(k) \cup acc[k]) /\ Done(k) \cap acc[k] = {}
            T == {k \in 0..n : Raised \notin acc[k] => Good(k)}
<1>4. acc[0] = {network} /\ free_ipv4_subnets(network, list) = acc[n]
  BY <1>3 DEF FreeUpTo
<1>5. 0 \in T
  <2>1. Done(0) = {}
    BY DEF HackedTo
  <2>2. Good(0)
    BY <1>4, <2>1, PartitionItself
  <2>. HIDE DEF Good
  <2>. QED BY <1>2, <2>2
<1>6. ASSUME NEW k \in 1..n, k - 1 \in T PROVE k \in T
  <2>. DEFINE u == is_supernet_hacked(network, list[k])
              j == k - 1
  <2>1. IsBlock(u)
    BY <1>1, <1>2, HackIsBlock
  <2>2. j \in 0..n /\ k \in 0..n /\ acc[k] = CutOut(acc[j], u) /\ acc[j] \in SUBSET (Blocks \cup {Raised})
    <3>1. j \in 0..n /\ k \in 0..n
      BY <1>2
    <3>. QED BY <1>3, <3>1 DEF FreeUpTo
  <2>3. Done(k) = Done(j) \cup {u}
    <3>1. 1..k = 1..j \cup {k}
      BY <1>2
    <3>. QED BY <3>1 DEF HackedTo
  <2>4. Raised \in acc[j] => Raised \in acc[k]
    BY <2>2 DEF CutOut
  <2>. HIDE DEF u, j
  <2>5. ASSUME Raised \notin acc[k] PROVE Good(k)
    <3>1. Raised \notin acc[j]
      BY <2>4, <2>5
    <3>2. Partition(network, Done(j) \cup acc[j]) /\ Done(j) \cap acc[j] = {}
      BY <1>6, <2>2, <3>1 DEF j
    <3>3. acc[j] \in SUBSET Blocks
      BY <2>2, <3>1
    <3>. HIDE DEF Done
    <3>4. /\ Partition(network, (Done(j) \cup {u}) \cup CutOut(acc[j], u))
          /\ (Done(j) \cup {u}) \cap CutOut(acc[j], u) = {}
      BY <2>1, <2>2, <2>5, <3>2, <3>3, CutOutPartitions
    <3>. QED BY <2>2, <2>3, <3>4
  <2>. HIDE DEF Good
  <2>. QED BY <2>2, <2>5
<1>7. n \in T
  <2>1. 0..n \subseteq T
    <3>. HIDE DEF T
    <3>. QED BY <1>2, <1>5, <1>6, Induction
  <2>. QED BY <1>2, <2>1
<1>8. {is_supernet_hacked(network, s) : s \in X} = Done(n)
  BY <1>2 DEF HackedTo
<1>9. Partition(network, Done(n) \cup acc[n]) /\ acc[n] \subseteq Blocks
  <2>1. Raised \notin acc[n] /\ acc[n] \in SUBSET (Blocks \cup {Raised})
    BY <1>2, <1>4
  <2>. QED BY <1>7, <2>1
<1>. QED BY <1>4, <1>8, <1>9 DEF X

\* Lists of subnets that have blocks.
LEMMA HaveBlocksOf ==
    ASSUME NEW G, NEW list \in Seq(G), \A g \in G : HasBlock(g)
    PROVE  HaveBlocks(list) /\ \A i \in DOMAIN list : HasBlock(list[i])
<1>1. \A i \in DOMAIN list : list[i] \in G
  OBVIOUS
<1>2. ToSet(list) \subseteq G
  BY <1>1 DEF ToSet
<1>3. list \in Seq(ToSet(list))
  <2>1. DOMAIN list = 1..Len(list) /\ Len(list) \in Nat /\ list = [i \in 1..Len(list) |-> list[i]]
    OBVIOUS
  <2>2. \A i \in 1..Len(list) : list[i] \in ToSet(list)
    BY <2>1 DEF ToSet
  <2>. HIDE DEF ToSet
  <2>. QED BY <2>1, <2>2
<1>. QED BY <1>1, <1>2, <1>3 DEF HaveBlocks

\* Entries of such a list, and lists made of it.
LEMMA EachHasBlock ==
    ASSUME NEW list, HaveBlocks(list)
    PROVE  /\ DOMAIN list = 1..Len(list) /\ Len(list) \in Nat
           /\ \A i \in DOMAIN list : HasBlock(list[i]) /\ list[i] \in ToSet(list)
<1>1. list \in Seq(ToSet(list)) /\ \A s \in ToSet(list) : HasBlock(s)
  BY DEF HaveBlocks
<1>2. \A i \in DOMAIN list : list[i] \in ToSet(list)
  BY DEF ToSet
<1>. QED BY <1>1, <1>2

LEMMA HaveBlocksMap ==
    ASSUME NEW list, HaveBlocks(list), NEW q, DOMAIN q = DOMAIN list, q = [i \in DOMAIN q |-> q[i]],
           \A i \in DOMAIN list : HasBlock(q[i])
    PROVE  HaveBlocks(q)
<1>. DEFINE G == {q[i] : i \in DOMAIN list}
            n == Len(list)
<1>1. DOMAIN list = 1..n /\ n \in Nat
  BY EachHasBlock
<1>2. \A i \in 1..n : q[i] \in G
  BY <1>1
<1>3. \A g \in G : HasBlock(g)
  OBVIOUS
<1>. HIDE DEF G, n
<1>4. q \in Seq(G)
  BY <1>1, <1>2
<1>. QED BY <1>3, <1>4, HaveBlocksOf

LEMMA HaveBlocksThose ==
    ASSUME NEW list, HaveBlocks(list), NEW kept
    PROVE  HaveBlocks(Those(list, kept))
<1>. DEFINE X == ToSet(list)
<1>1. list \in Seq(X) /\ \A s \in X : HasBlock(s)
  BY DEF HaveBlocks
<1>. HIDE DEF X
<1>2. Those(list, kept) \in Seq(X \cap kept)
  BY <1>1, ThoseIn
<1>3. \A s \in X \cap kept : HasBlock(s)
  BY <1>1
<1>. QED BY <1>2, <1>3, HaveBlocksOf

LEMMA PutIn ==
    ASSUME NEW G, NEW list \in Seq(G), NEW r \in G
    PROVE  Put(list, r) \in Seq(G)
<1>1. Append(list, r) \in Seq(G)
  OBVIOUS
<1>2. [i \in DOMAIN list |-> IF list[i].key = r.key THEN r ELSE list[i]] \in Seq(G)
  <2>1. DOMAIN list = 1..Len(list) /\ Len(list) \in Nat /\ \A i \in 1..Len(list) : list[i] \in G
    OBVIOUS
  <2>. QED BY <2>1
<1>. QED BY <1>1, <1>2 DEF Put

\* One more entry.
LEMMA HaveBlocksPut ==
    ASSUME NEW list, HaveBlocks(list), NEW r, HasBlock(r)
    PROVE  HaveBlocks(Put(list, r))
<1>. DEFINE G == ToSet(list) \cup {r}
<1>1. list \in Seq(G) /\ r \in G /\ \A g \in G : HasBlock(g)
  <2>1. list \in Seq(ToSet(list)) /\ \A s \in ToSet(list) : HasBlock(s)
    BY DEF HaveBlocks
  <2>. QED BY <2>1
<1>. HIDE DEF G
<1>2. Put(list, r) \in Seq(G)
  BY <1>1, PutIn
<1>. QED BY <1>1, <1>2, HaveBlocksOf

\* The dict made of it.
LEMMA HaveBlocksKeyed ==
    ASSUME NEW list, HaveBlocks(list)
    PROVE  HaveBlocks(Keyed(list))
<1>. DEFINE X == ToSet(list)
            G == {ByName(x) : x \in X}
            V == Seq(G)
<1>1. list \in Seq(X) /\ \A s \in X : HasBlock(s)
  BY DEF HaveBlocks
<1>. HIDE DEF X
<1>2. \A g \in G : HasBlock(g)
  BY <1>1 DEF HasBlock, ByName
<1>3. \A x \in X : ByName(x) \in G
  OBVIOUS
<1>. HIDE DEF G
<1>4. <<>> \in V /\ \A v \in V, x \in X : Put(v, ByName(x)) \in V
  BY <1>3, PutIn
<1>. HIDE DEF V
<1>5. PICK acc \in [0..Len(list) -> V] : KeyedUpTo(acc, list)
  BY <1>1, <1>4, KeyedSteps
<1>6. Len(list) \in 0..Len(list)
  BY <1>1
<1>7. Keyed(list) \in V
  BY <1>5, <1>6 DEF KeyedUpTo
<1>. QED BY <1>2, <1>7, HaveBlocksOf DEF V

\* A network with other subnets, all of them with blocks.
LEMMA InBlocksSubnets ==
    ASSUME NEW net, IsNet(net), InBlocks(net), NEW q, HaveBlocks(q)
    PROVE  InBlocks([net EXCEPT !.subnets = q])
<1>. DEFINE w == [net EXCEPT !.subnets = q]
<1>1. w = [cidr |-> net.cidr, subnets |-> q, bgp |-> net.bgp, route |-> net.route]
  BY DEF IsNet
<1>. HIDE DEF w
<1>2. w.cidr = net.cidr /\ w.subnets = q
  BY <1>1
<1>3. InBlocks(w)
  BY <1>2 DEF InBlocks
<1>. QED BY <1>3 DEF w

LEMMA InBlocksMap ==
    ASSUME NEW net, IsNet(net), InBlocks(net), NEW q, DOMAIN q = DOMAIN net.subnets, q = [i \in DOMAIN q |-> q[i]],
           \A i \in DOMAIN net.subnets : HasBlock(net.subnets[i]) => HasBlock(q[i])
    PROVE  InBlocks([net EXCEPT !.subnets = q])
<1>1. HaveBlocks(net.subnets)
  BY DEF InBlocks
<1>2. HaveBlocks(q)
  BY <1>1, EachHasBlock, HaveBlocksMap
<1>. QED BY <1>2, InBlocksSubnets

-----------------------------------------------------------------------------
(* The functions of the upgrade keep subnets in blocks.                    *)

\* Nothing is in blocks; what is read is if the file is.
LEMMA NoNetworkInBlocks == InBlocks(NoNetwork)
<1>. DEFINE G == {}
            list == <<>>
<1>1. list \in Seq(G) /\ \A g \in G : HasBlock(g)
  OBVIOUS
<1>. HIDE DEF G, list
<1>2. HaveBlocks(list)
  BY <1>1, HaveBlocksOf
<1>. QED BY <1>2, NoNetworkIsNet DEF InBlocks, list

LEMMA ReadInBlocks ==
    ASSUME NEW net, IsNet(net), InBlocks(net) PROVE InBlocks(network_from_sls_data(net))
<1>. DEFINE q == [i \in DOMAIN net.subnets |-> subnet_from_sls_data(net.subnets[i])]
<1>1. HaveBlocks(net.subnets)
  BY DEF InBlocks
<1>2. \A i \in DOMAIN net.subnets : HasBlock(q[i])
  BY <1>1, EachHasBlock DEF HasBlock, subnet_from_sls_data
<1>3. HaveBlocks(q)
  BY <1>1, <1>2, HaveBlocksMap
<1>4. HaveBlocks(Keyed(q))
  <2>. HIDE DEF q
  <2>. QED BY <1>3, HaveBlocksKeyed
<1>. QED BY <1>4, InBlocksSubnets DEF network_from_sls_data

\* The functions that main() calls.
LEMMA SlsInBlocks == ASSUME NEW nets, NetsKnown(nets), BlocksIn(nets) PROVE BlocksIn(NetworksToSls(nets))
<1>. SUFFICES ASSUME NEW n \in {"CAN", "HMN"} PROVE InBlocks(NetworksToSls(nets)[n])
  BY DEF BlocksIn
<1>1. n \in SlsNetwork /\ IsNet(nets[n]) /\ InBlocks(nets[n])
  BY DEF NetsKnown, BlocksIn, SlsNetwork
<1>2. \A s : HasBlock(s) => HasBlock(SubnetToSls(s))
  BY DEF HasBlock, SubnetToSls
<1>. DEFINE q == [i \in DOMAIN nets[n].subnets |-> SubnetToSls(nets[n].subnets[i])]
<1>3. InBlocks([nets[n] EXCEPT !.subnets = q])
  BY <1>1, <1>2, InBlocksMap
<1>. QED BY <1>1, <1>3 DEF NetworksToSls, OnSubnets

LEMMA MigrateInBlocks == ASSUME NEW nets, NetsKnown(nets), BlocksIn(nets) PROVE BlocksIn(migrate_switch_names(nets))
<1>. SUFFICES ASSUME NEW n \in {"CAN", "HMN"} PROVE InBlocks(migrate_switch_names(nets)[n])
  BY DEF BlocksIn
<1>1. n \in SlsNetwork /\ IsNet(nets[n]) /\ InBlocks(nets[n])
  BY DEF NetsKnown, BlocksIn, SlsNetwork
<1>2. \A s, rs : HasBlock(s) => HasBlock([s EXCEPT !.reservations = rs])
  BY DEF HasBlock
<1>3. PICK q : /\ DOMAIN q = DOMAIN nets[n].subnets /\ q = [i \in DOMAIN q |-> q[i]]
               /\ \A i \in DOMAIN q : \E rs : q[i] \in {nets[n].subnets[i], [nets[n].subnets[i] EXCEPT !.reservations = rs]}
               /\ migrate_switch_names(nets)[n] = [nets[n] EXCEPT !.subnets = q]
  BY <1>1 DEF migrate_switch_names, OnSubnet, OnSubnets
<1>4. \A i \in DOMAIN nets[n].subnets : HasBlock(nets[n].subnets[i]) => HasBlock(q[i])
  BY <1>2, <1>3
<1>5. InBlocks([nets[n] EXCEPT !.subnets = q])
  BY <1>1, <1>3, <1>4, InBlocksMap
<1>. QED BY <1>3, <1>5

LEMMA KubeApiInBlocks == ASSUME NEW nets, NetsKnown(nets), BlocksIn(nets) PROVE BlocksIn(remove_kube_api_reservations(nets))
<1>. SUFFICES ASSUME NEW n \in {"CAN", "HMN"} PROVE InBlocks(remove_kube_api_reservations(nets)[n])
  BY DEF BlocksIn
<1>1. n \in SlsNetwork /\ n # "NMN" /\ IsNet(nets[n]) /\ InBlocks(nets[n])
  BY DEF NetsKnown, BlocksIn, SlsNetwork
<1>. DEFINE q == [i \in DOMAIN nets[n].subnets |->
                    [nets[n].subnets[i] EXCEPT !.reservations = Without(@, {KubeApi})]]
<1>2. \A i \in DOMAIN nets[n].subnets : HasBlock(nets[n].subnets[i]) => HasBlock(q[i])
  BY DEF HasBlock
<1>3. InBlocks([nets[n] EXCEPT !.subnets = q])
  BY <1>1, <1>2, InBlocksMap
<1>. QED BY <1>1, <1>3 DEF remove_kube_api_reservations, OnSubnets

LEMMA BgpInBlocks == ASSUME NEW nets, NetsKnown(nets), BlocksIn(nets) PROVE BlocksIn(create_metallb_pools_and_asns(nets))
<1>. SUFFICES ASSUME NEW n \in {"CAN", "HMN"} PROVE InBlocks(create_metallb_pools_and_asns(nets)[n])
  BY DEF BlocksIn
<1>1. n \in SlsNetwork /\ IsNet(nets[n]) /\ InBlocks(nets[n])
  BY DEF NetsKnown, BlocksIn, SlsNetwork
<1>2. \A s : HasBlock(s) => HasBlock([s EXCEPT !.pool = s.name])
  BY DEF HasBlock
<1>3. PICK q : /\ DOMAIN q = DOMAIN nets[n].subnets /\ q = [i \in DOMAIN q |-> q[i]]
               /\ \A i \in DOMAIN q : q[i] \in {nets[n].subnets[i], [nets[n].subnets[i] EXCEPT !.pool = nets[n].subnets[i].name]}
               /\ create_metallb_pools_and_asns(nets)[n]
                       = [[nets[n] EXCEPT !.subnets = q] EXCEPT
                            !.bgp = @ \/ (n \in {"CHN", "CMN", "NMN"} /\ nets[n] # NoNetwork)]
  BY <1>1 DEF create_metallb_pools_and_asns, OnSubnets
<1>. DEFINE w == [nets[n] EXCEPT !.subnets = q]
<1>4. InBlocks(w) /\ IsNet(w)
  BY <1>1, <1>2, <1>3, InBlocksMap, OtherSubnetsNet
<1>. HIDE DEF w
<1>5. ASSUME NEW b PROVE InBlocks([w EXCEPT !.bgp = b])
  BY <1>4 DEF IsNet, InBlocks
<1>. DEFINE b == w.bgp \/ (n \in {"CHN", "CMN", "NMN"} /\ nets[n] # NoNetwork)
<1>6. create_metallb_pools_and_asns(nets)[n] = [w EXCEPT !.bgp = b]
  BY <1>3 DEF w
<1>. HIDE DEF b
<1>. QED BY <1>5, <1>6

LEMMA WithoutInBlocks ==
    ASSUME NEW nets, NetsKnown(nets), BlocksIn(nets) PROVE BlocksIn(remove_can_static_pool(nets))
<1>. DEFINE q == Without(nets["CAN"].subnets, {Static("can")})
            w == [nets["CAN"] EXCEPT !.subnets = q]
<1>1. "CAN" \in SlsNetwork /\ "HMN" \in SlsNetwork /\ IsNet(nets["CAN"]) /\ InBlocks(nets["CAN"]) /\ InBlocks(nets["HMN"])
  BY DEF NetsKnown, BlocksIn, SlsNetwork
<1>2. HaveBlocks(q)
  BY <1>1, HaveBlocksThose DEF Without, InBlocks
<1>3. InBlocks(w)
  <2>. HIDE DEF q
  <2>. QED BY <1>1, <1>2, InBlocksSubnets
<1>4. remove_can_static_pool(nets) = [nets EXCEPT !["CAN"] = w]
  BY DEF remove_can_static_pool
<1>. HIDE DEF w
<1>5. nets = [n \in SlsNetwork |-> nets[n]]
  BY DEF NetsKnown
<1>. QED BY <1>1, <1>3, <1>4, <1>5 DEF BlocksIn

-----------------------------------------------------------------------------
(* The blocks of cloned subnets.                                           *)

\* An entry that a list has is among those that are looked for.
LEMMA ThoseFound ==
    ASSUME NEW X, NEW list \in Seq(X), NEW kept, NEW i \in DOMAIN list, list[i] \in kept
    PROVE  Those(list, kept) # <<>>
<1>. DEFINE n == Len(list)
<1>1. n \in Nat /\ i \in 1..n
  OBVIOUS
<1>2. PICK acc \in [0..n -> Seq(X)] : ThoseUpTo(acc, list, kept)
  BY ThoseSteps
<1>3. Those(list, kept) = acc[n]
  BY <1>2 DEF ThoseUpTo
<1>4. \A k \in 1..n : list[k] \in X /\ acc[k - 1] \in Seq(X) /\
                      acc[k] = IF list[k] \in kept THEN Append(acc[k - 1], list[k]) ELSE acc[k - 1]
  <2>1. \A k \in 1..n : k - 1 \in 0..n
    BY <1>1
  <2>2. \A k \in 1..n : list[k] \in X
    OBVIOUS
  <2>3. \A k \in 1..n : acc[k] = IF list[k] \in kept THEN Append(acc[k - 1], list[k]) ELSE acc[k - 1]
    BY <1>2 DEF ThoseUpTo
  <2>. HIDE DEF n
  <2>4. \A k \in 1..n : acc[k - 1] \in Seq(X)
    BY <1>2, <2>1
  <2>. QED BY <2>2, <2>3, <2>4
<1>. DEFINE T == {k \in 0..n : i <= k => acc[k] # <<>>}
<1>. HIDE DEF n
<1>5. ASSUME NEW k \in 1..n, k - 1 \in T PROVE k \in T
  <2>1. acc[k - 1] \in Seq(X) /\ list[k] \in X /\ k \in 0..n
    BY <1>1, <1>4
  <2>2. Append(acc[k - 1], list[k]) # <<>>
    <3>1. \A q \in Seq(X), x \in X : Append(q, x) # <<>>
      OBVIOUS
    <3>. QED BY <2>1, <3>1
  <2>3. CASE i = k
    BY <1>4, <2>1, <2>2, <2>3
  <2>4. CASE i # k
    <3>1. i <= k => acc[k - 1] # <<>>
      BY <1>1, <1>5, <2>4
    <3>2. i <= k => acc[k] # <<>>
      BY <1>4, <2>2, <3>1
    <3>. QED BY <2>1, <3>2
  <2>. QED BY <2>3, <2>4
<1>6. 0 \in T
  BY <1>1
<1>7. 0..n \subseteq T
  <2>. HIDE DEF T
  <2>. QED BY <1>1, <1>5, <1>6, Induction
<1>8. n \in T /\ i <= n
  BY <1>1, <1>7
<1>. QED BY <1>3, <1>8

\* An entry that is looked up.
LEMMA GetHasBlock ==
    ASSUME NEW list, HaveBlocks(list), NEW k, Has(list, k)
    PROVE  HasBlock(Get(list, k))
<1>. DEFINE X == ToSet(list)
            kept == {r \in X : r.key = k}
<1>1. list \in Seq(X) /\ \A s \in X : HasBlock(s)
  BY DEF HaveBlocks
<1>2. PICK i \in DOMAIN list : list[i].key = k
  BY DEF Has
<1>3. list[i] \in kept
  BY <1>2 DEF ToSet
<1>4. Get(list, k) = Those(list, kept)[1]
  BY DEF Get
<1>. HIDE DEF X, kept
<1>5. Those(list, kept) \in Seq(X \cap kept) /\ Those(list, kept) # <<>>
  BY <1>1, <1>3, ThoseIn, ThoseFound
<1>6. Those(list, kept)[1] \in X
  BY <1>5
<1>. QED BY <1>1, <1>4, <1>6

\* The template of a subnet, if there is one, has a block.
LEMMA TemplateHasBlock ==
    ASSUME NEW nets, BlocksIn(nets), NEW n, NEW t \in ToSet(Template(nets, n))
    PROVE  HasBlock(Template(nets, n)[1])
<1>. DEFINE own == nets["CAN"].subnets
            hmn == nets["HMN"].subnets
            k == NameIn("can", n)
<1>1. HaveBlocks(own) /\ HaveBlocks(hmn)
  BY DEF BlocksIn, InBlocks
<1>2. \A s : HasBlock(s) => HasBlock(Clone(s))
  BY DEF HasBlock, Clone, SubnetToSls, subnet_from_sls_data
<1>3. \A s, v : HasBlock(s) => HasBlock([s EXCEPT !.vlan = v])
  BY DEF HasBlock
<1>4. CASE Has(own, k)
  <2>1. Template(nets, n) = <<Clone(Get(own, k))>>
    BY <1>4 DEF Template
  <2>2. HasBlock(Clone(Get(own, k)))
    BY <1>1, <1>2, <1>4, GetHasBlock
  <2>. QED BY <2>1, <2>2
<1>5. CASE ~Has(own, k) /\ Has(hmn, k)
  <2>1. Template(nets, n) = <<[Clone(Get(hmn, k)) EXCEPT !.vlan = own[1].vlan]>>
    BY <1>5 DEF Template
  <2>2. HasBlock([Clone(Get(hmn, k)) EXCEPT !.vlan = own[1].vlan])
    BY <1>1, <1>2, <1>3, <1>5, GetHasBlock
  <2>. QED BY <2>1, <2>2
<1>6. CASE ~Has(own, k) /\ ~Has(hmn, k)
  <2>1. Template(nets, n) = <<>>
    BY <1>6 DEF Template
  <2>. QED BY <2>1 DEF ToSet
<1>. QED BY <1>4, <1>5, <1>6

\* The first block of some prefix in a larger one is a block.
LEMMA FirstIsBlock ==
    ASSUME NEW b, IsBlock(b), NEW p \in 0..32, b.len <= p
    PROVE  IsBlock(FirstOf(b, p))
<1>. DEFINE a == b.base
            u == Around(a, p)
            k == p - b.len
<1>1. a \in Nat /\ k \in 0..p /\ p - k = b.len
  <2>1. a \in Nat /\ b.len \in 0..32
    BY DEF IsBlock
  <2>2. \A x, y \in 0..32 : y <= x => x - y \in 0..x /\ x - (x - y) = y
    OBVIOUS
  <2>. QED BY <2>1, <2>2
<1>2. a \in Addresses(b) /\ Around(a, b.len) = b /\ Size(b) \in Nat \ {0}
  BY BlockAddresses, AroundInside
<1>3. IsBlock(u) /\ a \in Addresses(u) /\ u.len = p
  BY <1>1, AroundIsBlock
<1>. HIDE DEF a, k
<1>4. Addresses(u) \subseteq Addresses(b)
  BY <1>1, <1>2, AroundGrows
<1>. HIDE DEF u
<1>5. u.base \in Addresses(b) /\ u.base \in Nat
  BY <1>3, <1>4, BlockAddresses DEF IsBlock
<1>6. u.base = a
  BY <1>1, <1>2, <1>3, <1>5 DEF Addresses, a
<1>7. u = FirstOf(b, p)
  BY <1>3, <1>6 DEF IsBlock, FirstOf, a
<1>. QED BY <1>3, <1>7

\* A prefix length, whatever the number of hosts.
LEMMA PrefixInside == ASSUME NEW n PROVE prefixlength_from_hosts(n) \in 0..32
<1>. DEFINE s == {0} \cup {p \in 2..31 : 2^(32 - p) >= n + 2}
            m == 32
<1>1. m \in Nat /\ s \in SUBSET (0..m) /\ s # {} /\ m = 32
  OBVIOUS
<1>2. prefixlength_from_hosts(n) = Max(s)
  BY DEF prefixlength_from_hosts
<1>. HIDE DEF s, m
<1>. QED BY <1>1, <1>2, MaxInside

LEMMA SeedIsBlock ==
    ASSUME NEW clone, CloneInBlocks(clone), NEW overrides, \A name \in DOMAIN overrides : IsBlock(overrides[name]),
           NEW s, NEW seed \in Seeds(clone, s, overrides)
    PROVE  IsBlock(seed)
<1>. DEFINE free == free_ipv4_subnets(clone.cidr, clone.made)
            largest == {b \in free : \A c \in free : b.len <= c.len}
            prefix == prefixlength_from_hosts(Len(s.reservations))
<1>1. \/ s.name \in DOMAIN overrides /\ seed = overrides[s.name]
      \/ seed \in largest
      \/ seed \in {FirstOf(b, prefix) : b \in {l \in largest : l.len <= prefix}}
  BY DEF Seeds
<1>2. \A b \in free : IsBlock(b)
  BY FreeBlocksPartitionNetwork, IsInBlocks DEF CloneInBlocks
<1>. HIDE DEF free
<1>3. prefix \in 0..32
  BY PrefixInside
<1>. HIDE DEF prefix
<1>. QED BY <1>1, <1>2, <1>3, FirstIsBlock

\* The new subnet has the seed as its block, or keeps its own.
LEMMA ReIpHasBlock == ASSUME NEW s, HasBlock(s), NEW block, IsBlock(block) PROVE HasBlock(ReIp(s, block))
<1>. DEFINE empty == [s EXCEPT !.cidr = block, !.gateway = 0, !.reservations = <<>>]
            own == [empty EXCEPT !.gateway = next_free_ipv4_address(empty)]
            new == Addressed(own, ByNames(s.reservations))
<1>0. ReIp(s, block) \in {new, [new EXCEPT !.dhcp = <<next_free_ipv4_address(new), last_free_ipv4_address(new)>>]}
  BY DEF ReIp
<1>1. HasBlock(empty)
  BY DEF HasBlock
<1>. HIDE DEF empty
<1>2. HasBlock(own)
  BY <1>1 DEF HasBlock
<1>. HIDE DEF own
<1>3. HasBlock(new)
  BY <1>2 DEF HasBlock, Addressed
<1>. HIDE DEF new
<1>4. \A d : HasBlock([new EXCEPT !.dhcp = d])
  BY <1>3 DEF HasBlock
<1>. QED BY <1>0, <1>3, <1>4

LEMMA NewSubnetHasBlock ==
    ASSUME NEW to, NEW n, NEW template, HasBlock(template), NEW seed, IsBlock(seed)
    PROVE  HasBlock(NewSubnet(to, n, template, seed))
<1>. DEFINE s == [template EXCEPT !.key = NameIn(to.word, n), !.name = NameIn(to.word, n),
                                  !.reservations = NamesReplaced(@, "can", <<to.word>>)]
<1>1. HasBlock(s)
  BY DEF HasBlock
<1>2. NewSubnet(to, n, template, seed) \in {ReIp(s, seed), [s EXCEPT !.cidr = seed], s}
  BY DEF NewSubnet
<1>. HIDE DEF s
<1>3. HasBlock([s EXCEPT !.cidr = seed])
  BY <1>1 DEF HasBlock
<1>. QED BY <1>1, <1>2, <1>3, ReIpHasBlock

\* A network in which nothing is made yet is free as a whole.
LEMMA EmptyInBlocks ==
    ASSUME NEW network, IsBlock(network)
    PROVE  HaveBlocks(<<>>) /\ Raised \notin free_ipv4_subnets(network, <<>>)
<1>. DEFINE X == {}
            list == <<>>
<1>1. list \in Seq(X) /\ Len(list) = 0 /\ \A x \in X : HasBlock(x)
  OBVIOUS
<1>. HIDE DEF X, list
<1>2. HaveBlocks(list)
  BY <1>1, HaveBlocksOf
<1>3. PICK acc \in [0..Len(list) -> SUBSET (Blocks \cup {Raised})] : FreeUpTo(acc, network, list)
  BY <1>1, FreeSteps
<1>4. free_ipv4_subnets(network, list) = {network} /\ network # Raised
  BY <1>1, <1>3, BlockAddresses DEF FreeUpTo
<1>. QED BY <1>2, <1>4 DEF list

-----------------------------------------------------------------------------
(* The free blocks of a network that is being cloned.                      *)

\* One network in place of another.
LEMMA WithNetInBlocks ==
    ASSUME NEW nets, NetsKnown(nets), BlocksIn(nets), NEW n \in SlsNetwork, NEW net,
           n \in {"CAN", "HMN"} => InBlocks(net)
    PROVE  BlocksIn(WithNet(nets, n, net))
<1>1. nets = [m \in SlsNetwork |-> nets[m]] /\ "CAN" \in SlsNetwork /\ "HMN" \in SlsNetwork
  BY DEF NetsKnown, SlsNetwork
<1>. DEFINE new == WithNet(nets, n, net)
<1>2. \A m \in SlsNetwork : new[m] = IF m = n THEN net ELSE nets[m]
  BY <1>1 DEF WithNet
<1>. HIDE DEF new
<1>3. BlocksIn(new)
  BY <1>1, <1>2 DEF BlocksIn
<1>. QED BY <1>3 DEF new

\* A function that clones nothing.
LEMMA DoesInBlocks ==
    ASSUME UpgradeInBlocks, NEW step, NEW nets, NEW next, Does(step, nets, next), BlocksIn(nets),
           next \notin {"CMN subnets", "CAN subnets"}
    PROVE  UpgradeInBlocks'
  BY DEF UpgradeInBlocks, Does, SlsCalls, SlsGoTo

LEMMA FailsInBlocks == ASSUME UpgradeInBlocks, NEW step, Fails(step) PROVE UpgradeInBlocks'
<1>1. Does(step, slsNets, "failed") /\ BlocksIn(slsNets)
  BY DEF Fails, UpgradeInBlocks
<1>. QED BY <1>1, DoesInBlocks

\* The actions, in the order of a run.
LEMMA LoadInBlocks == ASSUME UpgradeRoutes, UpgradeInBlocks, LoadSls PROVE UpgradeInBlocks'
<1>1. ASSUME NEW n \in {"CAN", "HMN"} PROVE InBlocks(slsNets'[n])
  <2>1. n \in SlsNetwork /\ IsNet(slsFile.nets[n]) /\ InBlocks(slsFile.nets[n])
    BY DEF UpgradeRoutes, NetsKnown, UpgradeInBlocks, BlocksIn, SlsNetwork
  <2>2. slsNets'[n] = network_from_sls_data(slsFile.nets[n])
    BY <2>1 DEF LoadSls
  <2>. QED BY <2>1, <2>2, ReadInBlocks
<1>2. BlocksIn(slsNets')
  BY <1>1 DEF BlocksIn
<1>3. slsPc' \in {"failed", "switches"} /\ UNCHANGED slsFile
  BY DEF LoadSls, SlsCalls
<1>. QED BY <1>2, <1>3 DEF UpgradeInBlocks

LEMMA SwitchesInBlocks == ASSUME UpgradeRoutes, UpgradeInBlocks, MigrateSwitchNames PROVE UpgradeInBlocks'
<1>1. /\ slsPc' = "lb" /\ UNCHANGED slsFile
      /\ slsNets' = slsNets \/ slsNets' = migrate_switch_names(slsNets)
  BY DEF MigrateSwitchNames, slsLoaded, SlsCalls, SlsGoTo
<1>2. BlocksIn(slsNets')
  BY <1>1, MigrateInBlocks DEF UpgradeRoutes, UpgradeInBlocks
<1>. QED BY <1>1, <1>2 DEF UpgradeInBlocks

LEMMA BalancersInBlocks == ASSUME UpgradeRoutes, UpgradeInBlocks, CorrectLoadBalancers PROVE UpgradeInBlocks'
<1>. DEFINE mid == remove_api_gw_from_hmnlb_reservations(slsNets)
            new == correct_unbound_dns_address(mid)
<1>1. Does("lb", new, "cmn")
  BY DEF CorrectLoadBalancers
<1>2. slsNets = [n \in SlsNetwork |-> slsNets[n]] /\ {"CAN", "HMN"} \subseteq SlsNetwork
  BY DEF UpgradeRoutes, NetsKnown, SlsNetwork
<1>3. mid["CAN"] = slsNets["CAN"] /\ mid["HMN"] = slsNets["HMN"] /\ mid = [n \in SlsNetwork |-> mid[n]]
  BY <1>2 DEF remove_api_gw_from_hmnlb_reservations
<1>. HIDE DEF mid
<1>4. new["CAN"] = mid["CAN"] /\ new["HMN"] = mid["HMN"]
  BY <1>2, <1>3 DEF correct_unbound_dns_address
<1>. HIDE DEF new
<1>5. BlocksIn(new)
  BY <1>3, <1>4 DEF BlocksIn, UpgradeInBlocks
<1>. QED BY <1>1, <1>5, DoesInBlocks

LEMMA StartCmnInBlocks == ASSUME UpgradeRoutes, UpgradeInBlocks, StartCmn PROVE UpgradeInBlocks'
<1>1. CASE CmnDone(slsNets)
  <2>1. Does("cmn", slsNets, "static pool")
    BY <1>1 DEF StartCmn
  <2>. QED BY <2>1, DoesInBlocks DEF UpgradeInBlocks
<1>2. CASE ~CmnDone(slsNets)
  <2>1. /\ UNCHANGED <<slsFile, slsNets>>
        /\ \E names : slsClone' = [cidr |-> slsNets["CAN"].cidr, made |-> <<>>, todo |-> names]
    BY <1>2 DEF StartCmn, StartsClone, SlsCalls, SlsGoTo
  <2>2. slsNets["CAN"].cidr # Raised
    BY <1>2 DEF CmnDone, UpgradeRoutes, NetsKnown, Known, SlsNetwork
  <2>3. IsBlock(slsNets["CAN"].cidr)
    BY <2>2 DEF UpgradeInBlocks, BlocksIn, InBlocks
  <2>4. slsClone'.cidr = slsNets["CAN"].cidr /\ slsClone'.made = <<>>
    BY <2>1
  <2>5. CloneInBlocks(slsClone')
    BY <2>3, <2>4, EmptyInBlocks DEF CloneInBlocks
  <2>. QED BY <2>1, <2>5 DEF UpgradeInBlocks
<1>. QED BY <1>1, <1>2

LEMMA StartCanInBlocks == ASSUME UpgradeRoutes, UpgradeInBlocks, StartCan PROVE UpgradeInBlocks'
<1>1. CASE CanDone(slsNets)
  <2>1. Does("can", slsNets, "bgp")
    BY <1>1 DEF StartCan
  <2>. QED BY <2>1, DoesInBlocks DEF UpgradeInBlocks
<1>2. CASE ~CanDone(slsNets)
  <2>. DEFINE q == [i \in DOMAIN slsNets["CAN"].subnets |-> [slsNets["CAN"].subnets[i] EXCEPT !.vlan = slsOptions.canVlan]]
              sub == [slsNets["CAN"] EXCEPT !.subnets = q]
              net == [sub EXCEPT !.cidr = slsOptions.can]
              new == [slsNets EXCEPT !["CAN"] = net]
  <2>1. /\ slsNets' = new /\ UNCHANGED slsFile
        /\ \E names : slsClone' = [cidr |-> new["CAN"].cidr, made |-> <<>>, todo |-> names]
    BY <1>2 DEF StartCan, StartsClone, SlsCalls, SlsGoTo, OnSubnets
  <2>2. IsNet(slsNets["CAN"]) /\ InBlocks(slsNets["CAN"]) /\ NetsKnown(slsNets) /\ BlocksIn(slsNets) /\ "CAN" \in SlsNetwork
    BY DEF UpgradeRoutes, NetsKnown, SlsNetwork, UpgradeInBlocks, BlocksIn
  <2>3. \A s, v : HasBlock(s) => HasBlock([s EXCEPT !.vlan = v])
    BY DEF HasBlock
  <2>4. InBlocks(sub) /\ IsNet(sub)
    <3>1. \A i \in DOMAIN slsNets["CAN"].subnets : HasBlock(slsNets["CAN"].subnets[i]) => HasBlock(q[i])
      BY <2>3
    <3>2. DOMAIN q = DOMAIN slsNets["CAN"].subnets /\ q = [i \in DOMAIN q |-> q[i]]
      OBVIOUS
    <3>. HIDE DEF q
    <3>. QED BY <2>2, <3>1, <3>2, InBlocksMap, OtherSubnetsNet
  <2>. HIDE DEF sub
  <2>5. net = [cidr |-> slsOptions.can, subnets |-> sub.subnets, bgp |-> sub.bgp, route |-> sub.route]
    BY <2>4 DEF IsNet
  <2>. HIDE DEF net
  <2>6. IsBlock(slsOptions.can) /\ net.cidr = slsOptions.can /\ net.subnets = sub.subnets
    BY <2>5, FirstIsCommand, UpgradeOptionsAssumption
  <2>7. InBlocks(net)
    BY <2>4, <2>6 DEF InBlocks
  <2>8. BlocksIn(new) /\ new["CAN"] = net
    <3>1. BlocksIn(WithNet(slsNets, "CAN", net))
      BY <2>2, <2>7, WithNetInBlocks
    <3>. QED BY <2>2, <3>1 DEF WithNet, NetsKnown
  <2>. HIDE DEF new
  <2>9. slsClone'.cidr = slsOptions.can /\ slsClone'.made = <<>>
    BY <2>1, <2>6, <2>8
  <2>10. CloneInBlocks(slsClone')
    BY <2>6, <2>9, EmptyInBlocks DEF CloneInBlocks
  <2>. QED BY <2>1, <2>8, <2>10 DEF UpgradeInBlocks
<1>. QED BY <1>1, <1>2

\* The seeds of CloneSubnet.
CloneSeeds(to, n, found) ==
    UNION {Seeds(slsClone, [t EXCEPT !.name = NameIn(to.word, n)], to.overrides) : t \in ToSet(found)}
LEMMA CloneSubnetInBlocks == ASSUME UpgradeRoutes, UpgradeInBlocks, CloneSubnet PROVE UpgradeInBlocks'
<1>. DEFINE to == CloneTo[slsPc]
            n == Head(slsClone.todo)
            found == Template(slsNets, n)
<1>1. slsPc \in {"CMN subnets", "CAN subnets"} /\ UNCHANGED <<slsFile, slsNets>>
  BY StepsOfClone DEF CloneSubnet, slsLoaded, SlsCalls, SlsGoTo
<1>2. CloneInBlocks(slsClone) /\ IsClone(slsClone) /\ BlocksIn(slsNets)
  BY <1>1, StepsOfClone DEF UpgradeInBlocks, UpgradeRoutes
<1>3. \A name \in DOMAIN to.overrides : IsBlock(to.overrides[name])
  BY <1>1, FirstIsCommand, UpgradeOptionsAssumption DEF CloneTo
<1>4. CASE slsPc' = "failed"
  BY <1>1, <1>4 DEF UpgradeInBlocks
<1>5. CASE slsPc' # "failed"
  <2>0. PICK seed \in CloneSeeds(to, n, found) :
           /\ Raised \notin free_ipv4_subnets(slsClone.cidr, Put(slsClone.made, NewSubnet(to, n, found[1], seed)))
           /\ slsClone' = [slsClone EXCEPT !.made = Put(slsClone.made, NewSubnet(to, n, found[1], seed)), !.todo = Tail(@)]
    BY <1>5, Zenon DEF CloneSubnet, SlsCalls, SlsGoTo, CloneSeeds
  <2>1. PICK t \in ToSet(found) : seed \in Seeds(slsClone, [t EXCEPT !.name = NameIn(to.word, n)], to.overrides)
    BY <2>0, Zenon DEF CloneSeeds
  <2>. HIDE DEF to, n
  <2>2. IsBlock(seed)
    BY <1>2, <1>3, <2>1, SeedIsBlock
  <2>3. HasBlock(found[1])
    BY <1>2, <2>1, TemplateHasBlock
  <2>. HIDE DEF found
  <2>. DEFINE s == NewSubnet(to, n, found[1], seed)
  <2>4. HasBlock(s)
    BY <2>2, <2>3, NewSubnetHasBlock
  <2>. HIDE DEF s
  <2>5. HaveBlocks(Put(slsClone.made, s))
    BY <1>2, <2>4, HaveBlocksPut DEF CloneInBlocks
  <2>6. slsClone'.cidr = slsClone.cidr /\ slsClone'.made = Put(slsClone.made, s)
    BY <1>2, <2>0 DEF IsClone, s
  <2>7. CloneInBlocks(slsClone')
    BY <1>2, <2>0, <2>5, <2>6 DEF CloneInBlocks, s
  <2>. QED BY <1>1, <2>7 DEF UpgradeInBlocks
<1>. QED BY <1>4, <1>5

\* The supernet hack puts the block of the network in place of those of subnets.
LEMMA EndCloneInBlocks == ASSUME UpgradeRoutes, UpgradeInBlocks, EndClone PROVE UpgradeInBlocks'
<1>. DEFINE to == CloneTo[slsPc]
            n == to.net
            first == Net(slsClone.cidr, slsClone.made)
            p == [i \in DOMAIN first.subnets |-> SupernetHack(first.subnets[i], slsClone.cidr)]
            second == [first EXCEPT !.subnets = p]
<1>0. slsPc \in {"CMN subnets", "CAN subnets"}
  BY StepsOfClone DEF EndClone
<1>1. n \in {"CMN", "CAN"} /\ to.next \in {"static pool", "bgp"}
  BY <1>0 DEF CloneTo
<1>2. CloneInBlocks(slsClone) /\ BlocksIn(slsNets) /\ NetsKnown(slsNets) /\ n \in SlsNetwork
  BY <1>0, <1>1 DEF UpgradeInBlocks, UpgradeRoutes, SlsNetwork
<1>3. PICK gone : slsNets' = [slsNets EXCEPT ![n] = [second EXCEPT !.subnets =
             [i \in DOMAIN second.subnets |->
                IF second.subnets[i].key = Bootstrap
                THEN [second.subnets[i] EXCEPT !.reservations = Without(@, gone)] ELSE second.subnets[i]]]]
  BY DEF EndClone, OnSubnet, OnSubnets
<1>4. slsPc' = to.next /\ UNCHANGED slsFile
  BY DEF EndClone, SlsCalls, SlsGoTo
<1>. HIDE DEF to
<1>. DEFINE q == [i \in DOMAIN second.subnets |->
                IF second.subnets[i].key = Bootstrap
                THEN [second.subnets[i] EXCEPT !.reservations = Without(@, gone)] ELSE second.subnets[i]]
            third == [second EXCEPT !.subnets = q]
<1>5. IsNet(first) /\ first.cidr = slsClone.cidr /\ first.subnets = slsClone.made
  <2>1. slsClone.cidr # Raised
    BY <1>2, BlockAddresses DEF CloneInBlocks
  <2>2. first = [cidr |-> slsClone.cidr, subnets |-> slsClone.made, bgp |-> NoNetwork.bgp, route |-> NoNetwork.route]
    BY NetRecord
  <2>. HIDE DEF first
  <2>. QED BY <2>2 DEF IsNet
<1>6. InBlocks(first)
  <2>. HIDE DEF first
  <2>. QED BY <1>2, <1>5 DEF InBlocks, CloneInBlocks
<1>. HIDE DEF first
<1>7. \A s : HasBlock(s) => HasBlock(SupernetHack(s, slsClone.cidr))
  <2>1. \A s, g : HasBlock(s) => HasBlock([s EXCEPT !.cidr = slsClone.cidr, !.gateway = g])
    BY <1>2 DEF HasBlock, CloneInBlocks
  <2>. QED BY <2>1 DEF SupernetHack
<1>8. InBlocks(second) /\ IsNet(second)
  <2>1. \A i \in DOMAIN first.subnets : HasBlock(first.subnets[i]) => HasBlock(p[i])
    BY <1>7
  <2>2. DOMAIN p = DOMAIN first.subnets /\ p = [i \in DOMAIN p |-> p[i]]
    OBVIOUS
  <2>. HIDE DEF p
  <2>. QED BY <1>5, <1>6, <2>1, <2>2, InBlocksMap, OtherSubnetsNet
<1>. HIDE DEF second
<1>9. InBlocks(third)
  <2>0. \A s, rs : HasBlock(s) => HasBlock([s EXCEPT !.reservations = rs])
    BY DEF HasBlock
  <2>1. \A i \in DOMAIN second.subnets : HasBlock(second.subnets[i]) => HasBlock(q[i])
    BY <2>0
  <2>2. DOMAIN q = DOMAIN second.subnets /\ q = [i \in DOMAIN q |-> q[i]]
    OBVIOUS
  <2>. HIDE DEF q
  <2>. QED BY <1>8, <2>1, <2>2, InBlocksMap
<1>. HIDE DEF third
<1>10. slsNets' = WithNet(slsNets, n, third)
  BY <1>3 DEF WithNet, third
<1>11. BlocksIn(slsNets')
  BY <1>2, <1>9, <1>10, WithNetInBlocks
<1>. QED BY <1>1, <1>4, <1>11 DEF UpgradeInBlocks

\* Each step of the upgrade.
LEMMA StepInBlocks == ASSUME UpgradeRoutes, UpgradeInBlocks, SlsNext PROVE UpgradeInBlocks'
<1>0. /\ NetsKnown(slsNets) /\ BlocksIn(slsNets) /\ slsNets = [n \in SlsNetwork |-> slsNets[n]]
      /\ {"CAN", "HMN", "CHN", "NMN", "BICAN"} \subseteq SlsNetwork
  BY DEF UpgradeRoutes, NetsKnown, UpgradeInBlocks, SlsNetwork
<1>1. CASE RemoveStaticPool
  <2>. DEFINE new == remove_can_static_pool(slsNets)
  <2>1. Does("static pool", new, "kubeapi")
    BY <1>1 DEF RemoveStaticPool
  <2>2. BlocksIn(new)
    BY <1>0, WithoutInBlocks
  <2>. HIDE DEF new
  <2>. QED BY <2>1, <2>2, DoesInBlocks
<1>2. CASE RemoveKubeApi
  <2>. DEFINE new == remove_kube_api_reservations(slsNets)
  <2>1. Does("kubeapi", new, "chn")
    BY <1>2 DEF RemoveKubeApi
  <2>2. BlocksIn(new)
    BY <1>0, KubeApiInBlocks
  <2>. HIDE DEF new
  <2>. QED BY <2>1, <2>2, DoesInBlocks
<1>3. CASE CreateChn
  <2>. DEFINE new == WithNet(slsNets, "CHN", create_chn_network(slsNets, slsOptions))
  <2>1. Does("chn", slsNets, "can") \/ Fails("chn") \/ Does("chn", new, "can")
    BY <1>3 DEF CreateChn, WithNet
  <2>2. BlocksIn(new)
    BY <1>0, WithNetInBlocks
  <2>. HIDE DEF new
  <2>. QED BY <1>0, <2>1, <2>2, DoesInBlocks, FailsInBlocks
<1>4. CASE AddBgp
  <2>. DEFINE new == create_metallb_pools_and_asns(slsNets)
  <2>1. Does("bgp", new, "uai")
    BY <1>4 DEF AddBgp
  <2>2. BlocksIn(new)
    BY <1>0, BgpInBlocks
  <2>. HIDE DEF new
  <2>. QED BY <2>1, <2>2, DoesInBlocks
<1>5. CASE UpdateUai
  <2>. DEFINE mid == update_nmn_uai_macvlan_dhcp_ranges(slsNets)
              new == rename_uai_bridge_reservation(mid)
  <2>1. Fails("uai") \/ Does("uai", new, "remove")
    BY <1>5 DEF UpdateUai
  <2>2. mid["CAN"] = slsNets["CAN"] /\ mid["HMN"] = slsNets["HMN"] /\ mid = [n \in SlsNetwork |-> mid[n]]
    BY <1>0 DEF update_nmn_uai_macvlan_dhcp_ranges
  <2>. HIDE DEF mid
  <2>3. new["CAN"] = mid["CAN"] /\ new["HMN"] = mid["HMN"]
    BY <1>0, <2>2 DEF rename_uai_bridge_reservation
  <2>. HIDE DEF new
  <2>4. BlocksIn(new)
    BY <1>0, <2>2, <2>3 DEF BlocksIn
  <2>. QED BY <2>1, <2>4, DoesInBlocks, FailsInBlocks
<1>6. CASE RemoveUnused
  <2>. DEFINE new == [n \in SlsNetwork |-> IF n \in Unused(slsOptions) THEN NoNetwork ELSE slsNets[n]]
  <2>1. Does("remove", new, "bican")
    BY <1>6 DEF RemoveUnused
  <2>2. BlocksIn(new)
    BY <1>0, NoNetworkInBlocks DEF BlocksIn
  <2>. HIDE DEF new
  <2>. QED BY <2>1, <2>2, DoesInBlocks
<1>7. CASE CreateBican
  <2>. DEFINE new == WithNet(slsNets, "BICAN", [Net(Cidr(0, 0), <<>>) EXCEPT !.route = slsOptions.bican])
  <2>1. Does("bican", slsNets, "write") \/ Does("bican", new, "write")
    BY <1>7 DEF CreateBican, create_bican_network, WithNet
  <2>2. BlocksIn(new)
    BY <1>0, WithNetInBlocks
  <2>. HIDE DEF new
  <2>. QED BY <1>0, <2>1, <2>2, DoesInBlocks
<1>8. CASE WriteSls
  <2>1. slsFile'.nets = NetworksToSls(slsNets) /\ slsPc' = "written" /\ UNCHANGED slsNets
    BY <1>8 DEF WriteSls, slsLoaded
  <2>. QED BY <1>0, <2>1, SlsInBlocks DEF UpgradeInBlocks
<1>. QED BY <1>1, <1>2, <1>3, <1>4, <1>5, <1>6, <1>7, <1>8, LoadInBlocks, SwitchesInBlocks, BalancersInBlocks,
            StartCmnInBlocks, StartCanInBlocks, CloneSubnetInBlocks, EndCloneInBlocks DEF SlsNext

\* The first state.
LEMMA InitInBlocks == SlsInit => UpgradeInBlocks
<1>. SUFFICES ASSUME SlsInit PROVE UpgradeInBlocks
  OBVIOUS
<1>1. BlocksIn(slsFile.nets)
  BY SlsInputsAssumption DEF SlsInit, BlocksIn
<1>2. BlocksIn(slsNets)
  BY NoNetworkInBlocks DEF SlsInit, BlocksIn, SlsNetwork
<1>3. slsPc = "load"
  BY DEF SlsInit
<1>. QED BY <1>1, <1>2, <1>3 DEF UpgradeInBlocks

\* The invariant and the property.
LEMMA BlocksPartition == UpgradeInBlocks => FreeBlocksPartition
<1>. SUFFICES ASSUME UpgradeInBlocks, slsPc \in DOMAIN CloneTo,
                     NEW blocks, blocks = {is_supernet_hacked(slsClone.cidr, s) : s \in ToSet(slsClone.made)}
                                            \cup free_ipv4_subnets(slsClone.cidr, slsClone.made)
              PROVE  /\ UNION {Addresses(b) : b \in blocks} = Addresses(slsClone.cidr)
                     /\ \A a, b \in blocks : a # b => ~overlaps(a, b)
  BY DEF FreeBlocksPartition
<1>1. CloneInBlocks(slsClone)
  BY StepsOfClone DEF UpgradeInBlocks
<1>2. Partition(slsClone.cidr, blocks)
  BY <1>1, FreeBlocksPartitionNetwork DEF CloneInBlocks
<1>. QED BY <1>2, ApartIsNoOverlap DEF Partition

\* The same among all changes.
LEMMA InitBlocksInChanges == ChangesInit => BlocksInChanges
  BY InitRoutes, InitInBlocks DEF ChangesInit, BlocksInChanges, UpgradeAtRest

LEMMA StepBlocksInChanges == ASSUME BlocksInChanges, [ChangesNext]_changesVars PROVE BlocksInChanges'
<1>1. CASE ~InUpgrade
  <2>1. UNCHANGED <<changed, slsPc>>
    BY <1>1 DEF ChangesNext, changesVars, UpgradeChanges, slsVars
  <2>. QED BY <1>1, <2>1 DEF BlocksInChanges, InUpgrade
<1>2. CASE InUpgrade
  <2>0. UpgradeRoutes /\ UpgradeInBlocks
    BY <1>2 DEF BlocksInChanges
  <2>1. InUpgrade' /\ (SlsNext \/ UNCHANGED slsVars)
    BY <1>2 DEF ChangesNext, changesVars, InUpgrade, UpgradeChanges
  <2>2. UNCHANGED slsVars => UpgradeInBlocks'
    BY <2>0 DEF UpgradeInBlocks, slsVars
  <2>3. UpgradeRoutes' /\ UpgradeInBlocks'
    BY <2>0, <2>1, <2>2, StepRoutes, StutterRoutes, StepInBlocks
  <2>. QED BY <2>1, <2>3 DEF BlocksInChanges
<1>. QED BY <1>1, <1>2

LEMMA InBlocksPartition == BlocksInChanges => FreeBlocksPartition
<1>1. slsPc = "load" => FreeBlocksPartition
  BY StepsOfClone DEF FreeBlocksPartition
<1>. QED BY <1>1, BlocksPartition DEF BlocksInChanges

\* While a network is cloned, the blocks of the subnets that it has so far and the
\* free ones around them are apart and together make up the network: for every
\* dump and every block on the command line, guessed blocks included.
THEOREM FreeBlocksAlwaysPartition == ChangesSpec => []FreeBlocksPartition
<1>1. BlocksInChanges /\ [ChangesNext]_changesVars => BlocksInChanges'
  BY StepBlocksInChanges
<1>. QED BY <1>1, InitBlocksInChanges, InBlocksPartition, PTL DEF ChangesSpec

-----------------------------------------------------------------------------
(* Looking up entries of a list.                                           *)

\* An entry that is kept is among those.
LEMMA ThoseHas ==
    ASSUME NEW X, NEW list \in Seq(X), NEW kept, NEW i \in DOMAIN list, list[i] \in kept
    PROVE  \E j \in DOMAIN Those(list, kept) : Those(list, kept)[j] = list[i]
<1>. DEFINE n == Len(list)
            Finds(q) == \E j \in DOMAIN q : q[j] = list[i]
<1>1. n \in Nat /\ i \in 1..n /\ \A k \in 1..n : list[k] \in X
  OBVIOUS
<1>2. PICK acc \in [0..n -> Seq(X)] : ThoseUpTo(acc, list, kept)
  BY ThoseSteps
<1>3. Those(list, kept) = acc[n]
  BY <1>2 DEF ThoseUpTo
<1>4. \A q \in Seq(X), x \in X : (Finds(q) => Finds(Append(q, x))) /\ (x = list[i] => Finds(Append(q, x)))
  <2>. SUFFICES ASSUME NEW q \in Seq(X), NEW x \in X
                PROVE  (Finds(q) => Finds(Append(q, x))) /\ (x = list[i] => Finds(Append(q, x)))
    OBVIOUS
  <2>1. /\ DOMAIN q = 1..Len(q) /\ Len(q) \in Nat /\ DOMAIN Append(q, x) = 1..Len(q) + 1
        /\ \A j \in 1..Len(q) : Append(q, x)[j] = q[j]
        /\ Append(q, x)[Len(q) + 1] = x
    OBVIOUS
  <2>. QED BY <2>1
<1>. HIDE DEF Finds
<1>. DEFINE T == {k \in 0..n : i <= k => Finds(acc[k])}
<1>5. ASSUME NEW k \in 1..n, k - 1 \in T PROVE k \in T
  <2>1. k - 1 \in 0..n /\ k \in 0..n
    BY <1>1
  <2>2. acc[k - 1] \in Seq(X) /\ list[k] \in X
    BY <1>1, <1>2, <2>1
  <2>3. acc[k] = IF list[k] \in kept THEN Append(acc[k - 1], list[k]) ELSE acc[k - 1]
    BY <1>2 DEF ThoseUpTo
  <2>4. CASE i = k
    BY <1>4, <2>1, <2>2, <2>3, <2>4
  <2>5. CASE i # k
    <3>1. i <= k => i <= k - 1
      BY <1>1, <2>5
    <3>2. i <= k => Finds(acc[k - 1])
      BY <1>5, <3>1
    <3>. QED BY <1>4, <2>1, <2>2, <2>3, <3>2
  <2>. QED BY <2>4, <2>5
<1>6. 0 \in T
  BY <1>1
<1>7. 0..n \subseteq T
  <2>. HIDE DEF T, n
  <2>. QED BY <1>1, <1>5, <1>6, Induction
<1>8. n \in T /\ i <= n
  BY <1>1, <1>7
<1>. QED BY <1>3, <1>8 DEF Finds

\* An entry that is looked up is one of the list, with that key.
LEMMA GetIs ==
    ASSUME NEW X, NEW list \in Seq(X), NEW k, Has(list, k)
    PROVE  Get(list, k) \in ToSet(list) /\ Get(list, k) \in X /\ Get(list, k).key = k
<1>. DEFINE Y == ToSet(list)
            kept == {r \in Y : r.key = k}
<1>0. DOMAIN list = 1..Len(list) /\ Len(list) \in Nat /\ \A i \in DOMAIN list : list[i] \in Y /\ list[i] \in X
  BY DEF ToSet
<1>1. Y \subseteq X
  BY <1>0 DEF ToSet
<1>2. PICK i \in DOMAIN list : list[i].key = k
  BY DEF Has
<1>3. list[i] \in kept
  BY <1>2 DEF ToSet
<1>4. Get(list, k) = Those(list, kept)[1]
  BY DEF Get
<1>5. kept \subseteq Y /\ \A r \in kept : r.key = k
  OBVIOUS
<1>. HIDE DEF Y, kept
<1>6. Those(list, kept) \in Seq(X \cap kept) /\ Those(list, kept) # <<>>
  BY <1>3, ThoseIn, ThoseFound
<1>7. Those(list, kept)[1] \in kept
  BY <1>6
<1>. QED BY <1>1, <1>4, <1>5, <1>7 DEF Y

-----------------------------------------------------------------------------
(* The entries of lists and dicts.                                          *)

\* What is in a dict after an entry was put into it.
WithEntry(list, r, q) ==
    /\ \A j \in DOMAIN q : q[j] = r \/ \E i \in DOMAIN list : q[j] = list[i]
    /\ \E j \in DOMAIN q : q[j] = r
    /\ \A i \in DOMAIN list : list[i].key # r.key => \E j \in DOMAIN q : q[j] = list[i]
LEMMA PutEntries == ASSUME NEW X, NEW list \in Seq(X), NEW r PROVE WithEntry(list, r, Put(list, r))
<1>0. DOMAIN list = 1..Len(list) /\ Len(list) \in Nat
  OBVIOUS
<1>1. CASE Has(list, r.key)
  <2>1. Put(list, r) = [i \in DOMAIN list |-> IF list[i].key = r.key THEN r ELSE list[i]]
    BY <1>1 DEF Put
  <2>. QED BY <1>1, <2>1 DEF Has, WithEntry
<1>2. CASE ~Has(list, r.key)
  <2>1. Put(list, r) = Append(list, r)
    BY <1>2 DEF Put
  <2>2. /\ DOMAIN Append(list, r) = 1..Len(list) + 1 /\ Append(list, r)[Len(list) + 1] = r
        /\ \A i \in 1..Len(list) : Append(list, r)[i] = list[i]
    <3>1. list \in Seq(X \cup {r}) /\ r \in X \cup {r}
      OBVIOUS
    <3>. QED BY <3>1
  <2>3. \A j \in 1..Len(list) + 1 : j \in 1..Len(list) \/ j = Len(list) + 1
    BY <1>0
  <2>. QED BY <1>0, <2>1, <2>2, <2>3 DEF WithEntry
<1>. QED BY <1>1, <1>2

\* The dict that is made of a list of entries with names: each name is a key, of an entry
\* of the list with that name.
MadeOf(dict, list) ==
    /\ \A j \in DOMAIN dict : \E i \in DOMAIN list : dict[j] = ByName(list[i])
    /\ \A i \in DOMAIN list : \E j \in DOMAIN dict : dict[j].key = list[i].name
LEMMA NamedEntry ==
    ASSUME NEW r, {"key", "name"} \subseteq DOMAIN r
    PROVE  ByName(r).key = r.name /\ ByName(r).name = r.name
  BY DEF ByName

LEMMA KeyedEntries ==
    ASSUME NEW list, Entries(list)
    PROVE  MadeOf(Keyed(list), list) /\ Entries(Keyed(list))
<1>. DEFINE X == ToSet(list)
            G == {ByName(x) : x \in X}
            V == Seq(G)
            n == Len(list)
<1>1. /\ list \in Seq(X) /\ n \in Nat /\ DOMAIN list = 1..n
      /\ (\A i \in DOMAIN list : list[i] \in X)
      /\ \A x \in X : \E i \in DOMAIN list : x = list[i]
  BY DEF Entries, ToSet
<1>2. \A x \in X : {"key", "name"} \subseteq DOMAIN x
  BY <1>1 DEF Entries
<1>. HIDE DEF X, n
<1>3. \A x \in X : ByName(x).key = x.name /\ ByName(x).name = x.name /\ {"key", "name"} \subseteq DOMAIN ByName(x)
  BY <1>2, NamedEntry DEF ByName
<1>4. \A x \in X : ByName(x) \in G
  OBVIOUS
<1>5. \A g \in G : \E x \in X : g = ByName(x)
  OBVIOUS
<1>. HIDE DEF G
<1>6. <<>> \in V /\ \A v \in V, x \in X : Put(v, ByName(x)) \in V
  BY <1>4, PutIn
<1>7. PICK acc \in [0..n -> V] : KeyedUpTo(acc, list)
  <2>. HIDE DEF V
  <2>. QED BY <1>1, <1>6, KeyedSteps DEF n
<1>8. /\ Keyed(list) = acc[n] /\ acc[0] = <<>>
      /\ \A k \in 1..n : acc[k] = Put(acc[k - 1], ByName(list[k]))
  BY <1>7 DEF KeyedUpTo, n
<1>9. n \in 0..n
  BY <1>1
<1>10. Keyed(list) \in Seq(G)
  BY <1>7, <1>8, <1>9
<1>. DEFINE dict == Keyed(list)
<1>. HIDE DEF dict
<1>11. DOMAIN dict = 1..Len(dict) /\ Len(dict) \in Nat /\ \A j \in DOMAIN dict : dict[j] \in G
  BY <1>10 DEF dict
<1>12. \A j \in DOMAIN dict : \E i \in DOMAIN list : dict[j] = ByName(list[i])
  BY <1>1, <1>5, <1>11
<1>13. Entries(dict)
  <2>1. \A j \in DOMAIN dict : {"key", "name"} \subseteq DOMAIN dict[j]
    BY <1>3, <1>5, <1>11
  <2>2. dict \in Seq(ToSet(dict))
    <3>1. \A j \in 1..Len(dict) : dict[j] \in ToSet(dict)
      BY <1>11 DEF ToSet
    <3>2. dict = [j \in 1..Len(dict) |-> dict[j]]
      BY <1>10, <1>11 DEF dict
    <3>. QED BY <1>11, <3>1, <3>2
  <2>. QED BY <2>1, <2>2 DEF Entries
<1>14. ASSUME NEW i \in DOMAIN list PROVE \E j \in DOMAIN dict : dict[j].key = list[i].name
  <2>. DEFINE Filed(q) == \E j \in DOMAIN q : q[j].key = list[i].name
              T == {k \in 0..n : i <= k => Filed(acc[k])}
  <2>0. i \in 1..n
    BY <1>1
  <2>1. 0 \in T
    BY <1>1, <2>0
  <2>2. ASSUME NEW k \in 1..n, k - 1 \in T PROVE k \in T
    <3>1. k - 1 \in 0..n /\ k \in 0..n /\ list[k] \in X
      BY <1>1
    <3>2. acc[k - 1] \in Seq(G)
      BY <1>7, <3>1
    <3>. DEFINE r == ByName(list[k])
    <3>3. acc[k] = Put(acc[k - 1], r) /\ r.key = list[k].name
      BY <1>3, <1>8, <3>1
    <3>. HIDE DEF r
    <3>4. (\E j \in DOMAIN acc[k] : acc[k][j] = r) /\ (Filed(acc[k - 1]) => Filed(acc[k]))
      <4>. DEFINE v == acc[k - 1]
                  w == acc[k]
      <4>1. WithEntry(v, r, w)
        BY <3>2, <3>3, PutEntries
      <4>. HIDE DEF v, w
      <4>2. Filed(v) => Filed(w)
        BY <3>3, <4>1 DEF WithEntry
      <4>. QED BY <4>1, <4>2 DEF v, w, WithEntry
    <3>5. CASE i = k
      BY <3>1, <3>3, <3>4, <3>5
    <3>6. CASE i # k
      <4>1. i <= k => i <= k - 1
        BY <1>1, <2>0, <3>6
      <4>. QED BY <2>2, <3>1, <3>4, <4>1
    <3>. QED BY <3>5, <3>6
  <2>3. 0..n \subseteq T
    <3>. HIDE DEF T
    <3>. QED BY <1>1, <2>1, <2>2, Induction
  <2>4. n \in T /\ i <= n
    BY <1>1, <1>9, <2>0, <2>3
  <2>. QED BY <1>8, <2>4 DEF dict
<1>. QED BY <1>12, <1>13, <1>14 DEF MadeOf, dict

\* A list of entries with as many entries.
LEMMA EntriesMap ==
    ASSUME NEW list, Entries(list), NEW q, DOMAIN q = DOMAIN list, q = [i \in DOMAIN q |-> q[i]],
           \A i \in DOMAIN list : {"key", "name"} \subseteq DOMAIN q[i]
    PROVE  Entries(q)
<1>1. DOMAIN q = 1..Len(list) /\ Len(list) \in Nat
  BY DEF Entries
<1>2. \A i \in 1..Len(list) : q[i] \in ToSet(q)
  BY <1>1 DEF ToSet
<1>3. q \in Seq(ToSet(q))
  BY <1>1, <1>2
<1>. QED BY <1>3 DEF Entries

\* What is left of it without some keys.
LEMMA EntriesThose ==
    ASSUME NEW list, Entries(list), NEW keys
    PROVE  LET q == Without(list, keys)
           IN  /\ Entries(q) /\ \A j \in DOMAIN q : \E i \in DOMAIN list : q[j] = list[i]
               /\ \A i \in DOMAIN list : list[i].key \notin keys => \E j \in DOMAIN q : q[j] = list[i]
<1>. DEFINE X == ToSet(list)
            kept == {r \in X : r.key \notin keys}
            q == Those(list, kept)
<1>1. Without(list, keys) = q
  BY DEF Without
<1>2. /\ list \in Seq(X) /\ (\A i \in DOMAIN list : list[i] \in X)
      /\ \A x \in X : \E i \in DOMAIN list : x = list[i]
  BY DEF Entries, ToSet
<1>3. \A i \in DOMAIN list : list[i].key \notin keys => list[i] \in kept
  BY <1>2
<1>. HIDE DEF X, kept
<1>4. \A i \in DOMAIN list : list[i] \in kept => \E j \in DOMAIN q : q[j] = list[i]
  BY <1>2, ThoseHas
<1>5. q \in Seq(X)
  <2>1. q \in Seq(X \cap kept)
    BY <1>2, ThoseIn
  <2>. HIDE DEF q
  <2>. QED BY <2>1
<1>. HIDE DEF q
<1>6. DOMAIN q = 1..Len(q) /\ Len(q) \in Nat /\ q = [j \in 1..Len(q) |-> q[j]] /\ \A j \in DOMAIN q : q[j] \in X
  BY <1>5
<1>7. \A j \in DOMAIN q : \E i \in DOMAIN list : q[j] = list[i]
  BY <1>2, <1>6
<1>8. q \in Seq(ToSet(q))
  <2>1. \A j \in 1..Len(q) : q[j] \in ToSet(q)
    BY <1>6 DEF ToSet
  <2>. QED BY <1>6, <2>1
<1>9. Entries(q)
  BY <1>7, <1>8 DEF Entries
<1>. QED BY <1>1, <1>3, <1>4, <1>7, <1>9

-----------------------------------------------------------------------------
(* Reservations before UANs have addresses.                                 *)

LEMMA BareOf ==
    ASSUME NEW G, NEW rs \in Seq(G), \A g \in G : {"key", "name"} \subseteq DOMAIN g /\ "comment" \notin DOMAIN g
    PROVE  Bare(rs)
<1>1. DOMAIN rs = 1..Len(rs) /\ Len(rs) \in Nat /\ rs = [i \in 1..Len(rs) |-> rs[i]] /\ \A i \in DOMAIN rs : rs[i] \in G
  OBVIOUS
<1>2. \A i \in 1..Len(rs) : rs[i] \in ToSet(rs)
  BY <1>1 DEF ToSet
<1>3. rs \in Seq(ToSet(rs))
  BY <1>1, <1>2
<1>. QED BY <1>1, <1>3 DEF Bare, Entries

\* With other names and addresses, with other keys, in a dict, or without some.
LEMMA BareMap ==
    ASSUME NEW rs, Bare(rs), NEW q, DOMAIN q = DOMAIN rs, q = [i \in DOMAIN q |-> q[i]],
           \A i \in DOMAIN rs : DOMAIN q[i] = DOMAIN rs[i]
    PROVE  Bare(q)
<1>1. Entries(rs) /\ \A i \in DOMAIN rs : "comment" \notin DOMAIN rs[i] /\ {"key", "name"} \subseteq DOMAIN rs[i]
  BY DEF Bare, Entries
<1>2. Entries(q)
  BY <1>1, EntriesMap
<1>. QED BY <1>1, <1>2 DEF Bare
LEMMA BareKeyed == ASSUME NEW rs, Bare(rs) PROVE Bare(Keyed(rs))
<1>1. MadeOf(Keyed(rs), rs) /\ Entries(Keyed(rs))
  BY KeyedEntries DEF Bare
<1>2. \A r : DOMAIN ByName(r) = DOMAIN r
  BY DEF ByName
<1>. QED BY <1>1, <1>2 DEF Bare, MadeOf
LEMMA BareWithout == ASSUME NEW rs, Bare(rs), NEW keys PROVE Bare(Without(rs, keys))
  BY EntriesThose DEF Bare
LEMMA BareRenamed == ASSUME NEW rs, Bare(rs), NEW w, NEW by PROVE Bare(NamesReplaced(rs, w, by))
<1>. DEFINE q == [i \in DOMAIN rs |-> [rs[i] EXCEPT !.name = Renamed(@, w, by)]]
<1>1. DOMAIN q = DOMAIN rs /\ q = [i \in DOMAIN q |-> q[i]] /\ \A i \in DOMAIN rs : DOMAIN q[i] = DOMAIN rs[i]
  OBVIOUS
<1>2. NamesReplaced(rs, w, by) = q
  BY DEF NamesReplaced
<1>. HIDE DEF q
<1>. QED BY <1>1, <1>2, BareMap
LEMMA BareNothing == Bare(<<>>)
  BY DEF Bare, Entries

-----------------------------------------------------------------------------
(* Lists of subnets on one VLAN, with a bootstrap_dhcp, before UANs have    *)
(* addresses.                                                               *)

LEMMA OnVlansOf ==
    ASSUME NEW G, NEW W, NEW list \in Seq(G), \A g \in G : Filled(g) /\ g.vlan \in W
    PROVE  OnVlans(list, W)
<1>1. \A i \in DOMAIN list : list[i] \in G
  OBVIOUS
<1>2. ToSet(list) \subseteq G
  BY <1>1 DEF ToSet
<1>3. list \in Seq(ToSet(list))
  <2>1. DOMAIN list = 1..Len(list) /\ Len(list) \in Nat /\ list = [i \in 1..Len(list) |-> list[i]]
    OBVIOUS
  <2>2. \A i \in 1..Len(list) : list[i] \in ToSet(list)
    BY <2>1 DEF ToSet
  <2>. HIDE DEF ToSet
  <2>. QED BY <2>1, <2>2
<1>. QED BY <1>1, <1>2, <1>3 DEF OnVlans

LEMMA EachOnVlan ==
    ASSUME NEW W, NEW list, OnVlans(list, W)
    PROVE  /\ DOMAIN list = 1..Len(list) /\ Len(list) \in Nat
           /\ \A i \in DOMAIN list : Filled(list[i]) /\ Labelled(list[i]) /\ list[i].vlan \in W /\ list[i] \in ToSet(list)
<1>1. list \in Seq(ToSet(list)) /\ \A s \in ToSet(list) : Filled(s) /\ Labelled(s) /\ s.vlan \in W
  BY DEF OnVlans, Filled
<1>2. \A i \in DOMAIN list : list[i] \in ToSet(list)
  BY DEF ToSet
<1>. QED BY <1>1, <1>2

\* A list with as many entries.
LEMMA OnVlansMap ==
    ASSUME NEW W, NEW list, OnVlans(list, W), NEW V, NEW q, DOMAIN q = DOMAIN list, q = [i \in DOMAIN q |-> q[i]],
           \A i \in DOMAIN list : Filled(q[i]) /\ q[i].vlan \in V
    PROVE  OnVlans(q, V)
<1>. DEFINE G == {q[i] : i \in DOMAIN list}
            n == Len(list)
<1>1. DOMAIN list = 1..n /\ n \in Nat
  BY EachOnVlan
<1>2. \A i \in 1..n : q[i] \in G
  BY <1>1
<1>3. \A g \in G : Filled(g) /\ g.vlan \in V
  OBVIOUS
<1>. HIDE DEF G, n
<1>4. q \in Seq(G)
  BY <1>1, <1>2
<1>. QED BY <1>3, <1>4, OnVlansOf

\* Subnets with other contents: what a function does that changes no label of any.
Relabels(list, q) ==
    /\ DOMAIN q = DOMAIN list /\ q = [i \in DOMAIN q |-> q[i]]
    /\ \A i \in DOMAIN list : Filled(list[i]) =>
            Filled(q[i]) /\ q[i].vlan = list[i].vlan /\ q[i].name = list[i].name
                           /\ q[i].key \in {list[i].key, list[i].name}
LEMMA RelabelsOnVlans ==
    ASSUME NEW W, NEW list, OnVlans(list, W), NEW q, Relabels(list, q)
    PROVE  OnVlans(q, W) /\ (Booted(list) => Booted(q))
<1>1. \A i \in DOMAIN list : Filled(list[i]) /\ list[i].vlan \in W
  BY EachOnVlan
<1>2. OnVlans(q, W)
  BY <1>1, OnVlansMap DEF Relabels
<1>. QED BY <1>1, <1>2 DEF Relabels, Booted

LEMMA OnVlansThose ==
    ASSUME NEW W, NEW list, OnVlans(list, W), NEW kept
    PROVE  OnVlans(Those(list, kept), W)
<1>. DEFINE X == ToSet(list)
<1>1. list \in Seq(X) /\ \A s \in X : Filled(s) /\ s.vlan \in W
  BY DEF OnVlans
<1>. HIDE DEF X
<1>2. Those(list, kept) \in Seq(X \cap kept)
  BY <1>1, ThoseIn
<1>3. \A s \in X \cap kept : Filled(s) /\ s.vlan \in W
  BY <1>1
<1>. QED BY <1>2, <1>3, OnVlansOf

\* Its bootstrap_dhcp stays when subnets with other keys go.
LEMMA WithoutOnVlans ==
    ASSUME NEW W, NEW list, OnVlans(list, W), NEW keys, Bootstrap \notin keys
    PROVE  OnVlans(Without(list, keys), W) /\ (Booted(list) => Booted(Without(list, keys)))
<1>. DEFINE X == ToSet(list)
            kept == {r \in X : r.key \notin keys}
<1>1. Without(list, keys) = Those(list, kept)
  BY DEF Without
<1>2. list \in Seq(X) /\ \A i \in DOMAIN list : list[i] \in X
  BY DEF OnVlans, ToSet
<1>3. ASSUME Booted(list) PROVE Booted(Those(list, kept))
  <2>1. PICK i \in DOMAIN list : list[i].key = Bootstrap /\ list[i].name = Bootstrap
    BY <1>3 DEF Booted
  <2>2. list[i] \in kept
    BY <1>2, <2>1
  <2>. HIDE DEF X, kept
  <2>3. \E j \in DOMAIN Those(list, kept) : Those(list, kept)[j] = list[i]
    BY <1>2, <2>2, ThoseHas
  <2>. QED BY <2>1, <2>3 DEF Booted
<1>. QED BY <1>1, <1>3, OnVlansThose

\* One more subnet, in place of the one with its key or at the end.
LEMMA PutBooted ==
    ASSUME NEW X, NEW list \in Seq(X), NEW r, r.key = r.name
    PROVE  (Booted(list) \/ r.name = Bootstrap) => Booted(Put(list, r))
<1>0. DOMAIN list = 1..Len(list) /\ Len(list) \in Nat
  OBVIOUS
<1>1. CASE Has(list, r.key)
  <2>1. Put(list, r) = [i \in DOMAIN list |-> IF list[i].key = r.key THEN r ELSE list[i]]
    BY <1>1 DEF Put
  <2>. QED BY <1>1, <2>1 DEF Booted, Has
<1>2. CASE ~Has(list, r.key)
  <2>1. Put(list, r) = Append(list, r)
    BY <1>2 DEF Put
  <2>2. /\ DOMAIN Append(list, r) = 1..Len(list) + 1 /\ Append(list, r)[Len(list) + 1] = r
        /\ \A i \in 1..Len(list) : Append(list, r)[i] = list[i]
    <3>1. list \in Seq(X \cup {r}) /\ r \in X \cup {r}
      OBVIOUS
    <3>. QED BY <3>1
  <2>. QED BY <1>0, <2>1, <2>2 DEF Booted
<1>. QED BY <1>1, <1>2

LEMMA OnVlansPut ==
    ASSUME NEW W, NEW list, OnVlans(list, W), NEW r, Filled(r), r.vlan \in W
    PROVE  OnVlans(Put(list, r), W)
<1>. DEFINE G == ToSet(list) \cup {r}
<1>1. list \in Seq(G) /\ r \in G /\ \A g \in G : Filled(g) /\ g.vlan \in W
  <2>1. list \in Seq(ToSet(list)) /\ \A s \in ToSet(list) : Filled(s) /\ s.vlan \in W
    BY DEF OnVlans
  <2>. QED BY <2>1
<1>. HIDE DEF G
<1>2. Put(list, r) \in Seq(G)
  BY <1>1, PutIn
<1>. QED BY <1>1, <1>2, OnVlansOf

LEMMA PutNamed ==
    ASSUME NEW X, NEW list \in Seq(X), Named(list), NEW r, r.key = r.name
    PROVE  Named(Put(list, r))
<1>0. DOMAIN list = 1..Len(list) /\ Len(list) \in Nat
  OBVIOUS
<1>1. CASE Has(list, r.key)
  <2>1. Put(list, r) = [i \in DOMAIN list |-> IF list[i].key = r.key THEN r ELSE list[i]]
    BY <1>1 DEF Put
  <2>. QED BY <1>1, <2>1 DEF Named
<1>2. CASE ~Has(list, r.key)
  <2>1. Put(list, r) = Append(list, r)
    BY <1>2 DEF Put
  <2>2. /\ DOMAIN Append(list, r) = 1..Len(list) + 1 /\ Append(list, r)[Len(list) + 1] = r
        /\ \A i \in 1..Len(list) : Append(list, r)[i] = list[i]
    <3>1. list \in Seq(X \cup {r}) /\ r \in X \cup {r}
      OBVIOUS
    <3>. QED BY <3>1
  <2>3. ASSUME NEW i \in DOMAIN Append(list, r) PROVE Append(list, r)[i].key = Append(list, r)[i].name
    <3>1. i \in 1..Len(list) \/ i = Len(list) + 1
      BY <1>0, <2>2
    <3>. QED BY <1>0, <2>2, <3>1 DEF Named
  <2>. QED BY <2>1, <2>3 DEF Named
<1>. QED BY <1>1, <1>2

LEMMA KeyedOnVlans ==
    ASSUME NEW W, NEW list, OnVlans(list, W)
    PROVE  /\ OnVlans(Keyed(list), W) /\ Named(Keyed(list))
           /\ (\E i \in DOMAIN list : list[i].name = Bootstrap) => Booted(Keyed(list))
<1>. DEFINE X == ToSet(list)
            G == {ByName(x) : x \in X}
            V == {v \in Seq(G) : Named(v)}
            n == Len(list)
<1>1. /\ list \in Seq(X) /\ n \in Nat /\ DOMAIN list = 1..n
      /\ (\A i \in DOMAIN list : list[i] \in X) /\ \A s \in X : Filled(s) /\ s.vlan \in W
  BY EachOnVlan DEF OnVlans
<1>. HIDE DEF X, n
<1>2. \A x \in X : Filled(ByName(x)) /\ ByName(x).vlan \in W /\ ByName(x).key = ByName(x).name /\ ByName(x).name = x.name
  BY <1>1 DEF Labelled, ByName, Filled
<1>3. /\ \A g \in G : Filled(g) /\ g.vlan \in W
      /\ \A x \in X : ByName(x) \in G
  BY <1>2
<1>. HIDE DEF G
<1>4. <<>> \in V /\ \A v \in V, x \in X : Put(v, ByName(x)) \in V
  <2>1. <<>> \in V
    BY DEF Named
  <2>. QED BY <1>2, <1>3, <2>1, PutIn, PutNamed
<1>5. V \subseteq Seq(G) /\ \A v \in V : Named(v)
  OBVIOUS
<1>. HIDE DEF V
<1>6. PICK acc \in [0..n -> V] : KeyedUpTo(acc, list)
  BY <1>1, <1>4, KeyedSteps DEF n
<1>7. /\ Keyed(list) = acc[n] /\ acc[0] = <<>>
      /\ \A k \in 1..n : acc[k] = Put(acc[k - 1], ByName(list[k]))
  BY <1>6 DEF KeyedUpTo, n
<1>8. n \in 0..n
  BY <1>1
<1>9. Keyed(list) \in Seq(G) /\ Named(Keyed(list))
  BY <1>5, <1>6, <1>7, <1>8
<1>10. ASSUME NEW i \in DOMAIN list, list[i].name = Bootstrap PROVE Booted(Keyed(list))
  <2>. DEFINE T == {k \in 0..n : i <= k => Booted(acc[k])}
  <2>0. i \in 1..n
    BY <1>1, <1>10
  <2>1. 0 \in T
    BY <1>1, <2>0
  <2>2. ASSUME NEW k \in 1..n, k - 1 \in T PROVE k \in T
    <3>1. k - 1 \in 0..n /\ k \in 0..n /\ list[k] \in X
      BY <1>1
    <3>2. acc[k - 1] \in Seq(G)
      BY <1>5, <1>6, <3>1
    <3>3. (Booted(acc[k - 1]) \/ ByName(list[k]).name = Bootstrap) => Booted(acc[k])
      BY <1>2, <1>7, <3>1, <3>2, PutBooted
    <3>4. CASE i = k
      BY <1>2, <1>10, <3>1, <3>3, <3>4
    <3>5. CASE i # k
      <4>1. i <= k => i <= k - 1
        BY <1>1, <2>0, <3>5
      <4>. QED BY <2>2, <3>1, <3>3, <4>1
    <3>. QED BY <3>4, <3>5
  <2>3. 0..n \subseteq T
    <3>. HIDE DEF T
    <3>. QED BY <1>1, <2>1, <2>2, Induction
  <2>4. n \in T /\ i <= n
    BY <1>1, <1>8, <2>0, <2>3
  <2>. QED BY <1>7, <2>4
<1>. QED BY <1>3, <1>9, <1>10, OnVlansOf

-----------------------------------------------------------------------------
(* The functions of the upgrade change no VLAN but that of the new CAN.     *)

\* A network without subnets.
LEMMA NothingOnVlans == ASSUME NEW W PROVE OnVlans(<<>>, W)
<1>. DEFINE G == {}
            list == <<>>
<1>1. list \in Seq(G) /\ \A g \in G : Filled(g) /\ g.vlan \in W
  OBVIOUS
<1>. HIDE DEF G, list
<1>2. OnVlans(list, W)
  BY <1>1, OnVlansOf
<1>. QED BY <1>2 DEF list

LabelledNets == {"CAN", "CMN", "CHN", "HMN", "HSN"}
\* The networks `new' have the subnets of `old' with their labels.
Kin(old, new) ==
    \A W : OnVlans(old, W) => OnVlans(new, W) /\ (Booted(old) => Booted(new))
NetsKin(old, new) == \A n \in LabelledNets : Kin(old[n].subnets, new[n].subnets)

LEMMA RelabelsKin == ASSUME NEW list, NEW q, Relabels(list, q) PROVE Kin(list, q)
  BY RelabelsOnVlans DEF Kin
LEMMA KinRefl == ASSUME NEW list PROVE Kin(list, list)
  BY DEF Kin
LEMMA WithoutKin == ASSUME NEW list, NEW keys, Bootstrap \notin keys PROVE Kin(list, Without(list, keys))
  BY WithoutOnVlans DEF Kin
LEMMA KinTrans == ASSUME NEW p, NEW q, NEW r, Kin(p, q), Kin(q, r) PROVE Kin(p, r)
  BY DEF Kin

\* A subnet that is read, or written.
LEMMA ReadFilled ==
    ASSUME NEW s, Filled(s)
    PROVE  LET t == subnet_from_sls_data(s) IN Filled(t) /\ t.vlan = s.vlan /\ t.name = s.name /\ t.key = s.name
<1>1. Labelled(s) /\ Bare(Keyed(s.reservations))
  BY BareKeyed DEF Filled
<1>. QED BY <1>1 DEF Labelled, Filled, subnet_from_sls_data
LEMMA ToSlsFilled ==
    ASSUME NEW s, Filled(s)
    PROVE  LET t == SubnetToSls(s) IN Filled(t) /\ t.vlan = s.vlan /\ t.name = s.name /\ t.key = s.name
<1>. DEFINE rs == [i \in DOMAIN s.reservations |-> ByName(s.reservations[i])]
<1>1. Labelled(s) /\ Bare(s.reservations) /\ \A r : DOMAIN ByName(r) = DOMAIN r
  BY DEF Filled, ByName
<1>2. SubnetToSls(s) = [s EXCEPT !.dhcp = Whole(@), !.range = Whole(@), !.key = s.name, !.reservations = rs]
  BY DEF SubnetToSls
<1>3. Bare(rs)
  <2>1. DOMAIN rs = DOMAIN s.reservations /\ rs = [i \in DOMAIN rs |-> rs[i]]
        /\ \A i \in DOMAIN s.reservations : DOMAIN rs[i] = DOMAIN s.reservations[i]
    BY <1>1
  <2>. HIDE DEF rs
  <2>. QED BY <1>1, <2>1, BareMap
<1>. HIDE DEF rs
<1>. QED BY <1>1, <1>2, <1>3 DEF Labelled, Filled

\* A list that is read.
LEMMA ReadKin == ASSUME NEW net, IsNet(net) PROVE Kin(net.subnets, network_from_sls_data(net).subnets)
<1>. DEFINE list == net.subnets
            q == [i \in DOMAIN list |-> subnet_from_sls_data(list[i])]
<1>1. Relabels(list, q)
  BY ReadFilled DEF Relabels
<1>2. network_from_sls_data(net).subnets = Keyed(q)
  BY DEF network_from_sls_data, IsNet
<1>. HIDE DEF q, list
<1>3. Kin(list, q)
  BY <1>1, RelabelsKin
<1>4. Kin(q, Keyed(q))
  BY KeyedOnVlans DEF Kin, Booted
<1>. QED BY <1>2, <1>3, <1>4, KinTrans DEF list

\* The networks that are read, from a file.
LEMMA NetsReadKin ==
    ASSUME NEW nets, NetsKnown(nets)
    PROVE  NetsKin(nets, [n \in SlsNetwork |-> network_from_sls_data(nets[n])])
<1>1. \A n \in LabelledNets : n \in SlsNetwork /\ IsNet(nets[n])
  BY DEF LabelledNets, SlsNetwork, NetsKnown
<1>. QED BY <1>1, ReadKin DEF NetsKin

LEMMA NetsKinRefl == ASSUME NEW nets PROVE NetsKin(nets, nets)
  BY KinRefl DEF NetsKin

\* A function that works on the subnets of each network.
LEMMA MapKin ==
    ASSUME NEW nets, NetsKnown(nets), NEW new,
           \A n \in LabelledNets : \E q : Relabels(nets[n].subnets, q) /\ new[n].subnets = q
    PROVE  NetsKin(nets, new)
  BY RelabelsKin DEF NetsKin

LEMMA SubnetsOfExcept ==
    ASSUME NEW net, IsNet(net), NEW q
    PROVE  [net EXCEPT !.subnets = q].subnets = q
  BY DEF IsNet

LEMMA ToSlsKin == ASSUME NEW nets, NetsKnown(nets) PROVE NetsKin(nets, NetworksToSls(nets))
<1>1. ASSUME NEW n \in LabelledNets
      PROVE  \E q : Relabels(nets[n].subnets, q) /\ NetworksToSls(nets)[n].subnets = q
  <2>. DEFINE q == [i \in DOMAIN nets[n].subnets |-> SubnetToSls(nets[n].subnets[i])]
  <2>1. n \in SlsNetwork /\ IsNet(nets[n])
    BY DEF LabelledNets, SlsNetwork, NetsKnown
  <2>2. NetworksToSls(nets)[n].subnets = q
    BY <2>1, SubnetsOfExcept DEF NetworksToSls, OnSubnets
  <2>3. Relabels(nets[n].subnets, q)
    BY ToSlsFilled DEF Relabels
  <2>. QED BY <2>2, <2>3
<1>. QED BY <1>1, MapKin

\* A subnet with other reservations, or another pool.
SameLabels(s, t) == Labelled(t) /\ t.vlan = s.vlan /\ t.name = s.name /\ t.key = s.key
LEMMA OtherContents ==
    ASSUME NEW s, Labelled(s), NEW x
    PROVE  SameLabels(s, [s EXCEPT !.reservations = x]) /\ SameLabels(s, [s EXCEPT !.pool = x])
  BY DEF Labelled, SameLabels

LEMMA OtherFilled ==
    ASSUME NEW s, Filled(s), NEW x
    PROVE  /\ Bare(x) => Filled([s EXCEPT !.reservations = x])
           /\ Filled([s EXCEPT !.pool = x]) /\ Filled([s EXCEPT !.vlan = x]) /\ Filled([s EXCEPT !.cidr = x])
  BY DEF Labelled, Filled

\* Reservations with new addresses: whatever the addresses are.
LEMMA AddressedBare ==
    ASSUME NEW s, {"cidr", "reservations"} \subseteq DOMAIN s, Bare(s.reservations), NEW list, Bare(list)
    PROVE  \E rs : Bare(rs) /\ Addressed(s, list) = [s EXCEPT !.reservations = rs]
<1>. DEFINE X == ToSet(list)
            U == {Nil} \cup {Min(H) : H \in SUBSET hosts(s.cidr)}
            G == ToSet(s.reservations) \cup {[r EXCEPT !.ip = u] : r \in X, u \in U}
            n == Len(list)
            V == Seq(G)
            base == s.reservations
            Op(v, x) == Put(v, [x EXCEPT !.ip = next_free_ipv4_address([s EXCEPT !.reservations = v])])
            F == [i \in 1..n |-> [v \in V |-> Op(v, list[i])]]
            Is(g) == g = [z \in SUBSET (DOMAIN list) |->
                            IF z = {} THEN base ELSE Op(g[z \ {Max(z)}], list[Max(z)])]
            f == CHOOSE h : Is(h)
<1>1. /\ n \in Nat /\ DOMAIN list = 1..n /\ (\A i \in 1..n : list[i] \in X)
      /\ \A x \in X : \E i \in DOMAIN list : x = list[i]
  BY DEF Bare, Entries, ToSet
<1>2. \A x \in X : {"key", "name"} \subseteq DOMAIN x /\ "comment" \notin DOMAIN x
  BY <1>1 DEF Bare, Entries
<1>3. Addressed(s, list) = [s EXCEPT !.reservations = f[1..n]]
  BY <1>1 DEF Addressed, FoldLeft, MapThenFoldSet
<1>4. ASSUME NEW v PROVE next_free_ipv4_address([s EXCEPT !.reservations = v]) \in U
  <2>. DEFINE t == [s EXCEPT !.reservations = v]
              H == hosts(t.cidr) \ (Ips(t) \cup {t.gateway})
  <2>1. t.cidr = s.cidr
    OBVIOUS
  <2>2. H \in SUBSET hosts(s.cidr)
    BY <2>1
  <2>3. next_free_ipv4_address(t) = IF H = {} THEN Nil ELSE Min(H)
    BY DEF next_free_ipv4_address, free_ipv4_addresses
  <2>. HIDE DEF H, t
  <2>4. next_free_ipv4_address(t) \in U
    BY <2>2, <2>3
  <2>. QED BY <2>4 DEF t
<1>. HIDE DEF X, U
<1>5. \A g \in G : {"key", "name"} \subseteq DOMAIN g /\ "comment" \notin DOMAIN g
  <2>1. \A g \in ToSet(s.reservations) : {"key", "name"} \subseteq DOMAIN g /\ "comment" \notin DOMAIN g
    BY DEF Bare, Entries, ToSet
  <2>. QED BY <1>2, <2>1
<1>6. base \in V
  <2>1. base \in Seq(ToSet(base)) /\ ToSet(base) \subseteq G
    BY DEF Bare, Entries
  <2>. HIDE DEF G, base
  <2>. QED BY <2>1
<1>7. \A v \in V, x \in X : Op(v, x) \in V
  <2>1. \A v, x : x \in X => [x EXCEPT !.ip = next_free_ipv4_address([s EXCEPT !.reservations = v])] \in G
    BY <1>4
  <2>. HIDE DEF G
  <2>. QED BY <2>1, PutIn
<1>. HIDE DEF n, base, Op, G, V
<1>8. F \in [1..n -> [V -> V]]
  BY <1>1, <1>7
<1>9. PICK g \in [SUBSET (1..n) -> V] : Folds1(g, n, base, F)
  <2>. HIDE DEF F
  <2>. QED BY <1>1, <1>6, <1>8, FoldExists
<1>10. ASSUME NEW z \in SUBSET (1..n), z # {} PROVE Max(z) \in 1..n
  <2>1. z \in SUBSET (0..n)
    BY <1>1
  <2>. QED BY <1>1, <1>10, <2>1, MaxInside
<1>11. Is(f)
  <2>. DEFINE r == [z \in SUBSET (1..n) |-> IF z = {} THEN base ELSE Op(g[z \ {Max(z)}], list[Max(z)])]
  <2>1. \A z \in SUBSET (1..n) : g[z] = r[z]
    BY <1>9, <1>10 DEF Folds1
  <2>2. g = [z \in SUBSET (1..n) |-> g[z]] /\ r = [z \in SUBSET (1..n) |-> r[z]]
    OBVIOUS
  <2>3. g = r
    <3>. HIDE DEF r
    <3>. QED BY <2>1, <2>2
  <2>4. g = [z \in SUBSET (DOMAIN list) |-> IF z = {} THEN base ELSE Op(g[z \ {Max(z)}], list[Max(z)])]
    BY <1>1, <2>3
  <2>5. Is(g)
    BY <2>4
  <2>. HIDE DEF Is
  <2>. QED BY <2>5
<1>. HIDE DEF f
<1>12. \A z \in SUBSET (1..n) : f[z] = IF z = {} THEN base ELSE Op(f[z \ {Max(z)}], list[Max(z)])
  BY <1>1, <1>11
<1>13. f[1..n] \in V
  <2>1. f[{}] = base
    BY <1>12
  <2>2. ASSUME NEW z \in SUBSET (1..n), z # {}, f[z \ {Max(z)}] \in V PROVE f[z] = F[Max(z)][f[z \ {Max(z)}]]
    BY <1>10, <1>12, <2>2
  <2>3. FoldsIn(f, n, V, base, F)
    BY <2>1, <2>2 DEF FoldsIn
  <2>. HIDE DEF F
  <2>4. PICK acc \in [0..n -> V] : ValuesOf(acc, n, base, F, f[1..n])
    BY <1>1, <1>6, <1>8, <2>3, FoldValues
  <2>. QED BY <1>1, <2>4 DEF ValuesOf
<1>14. Bare(f[1..n])
  <2>. DEFINE rs == f[1..n]
  <2>. HIDE DEF rs
  <2>1. rs \in Seq(G)
    BY <1>13 DEF V, rs
  <2>. QED BY <1>5, <2>1, BareOf DEF rs
<1>. QED BY <1>3, <1>14

LEMMA AddressedFilled ==
    ASSUME NEW s, Filled(s), NEW list, Bare(list)
    PROVE  Filled(Addressed(s, list)) /\ SameLabels(s, Addressed(s, list)) /\ DOMAIN Addressed(s, list) = DOMAIN s
<1>1. {"cidr", "reservations"} \subseteq DOMAIN s /\ Bare(s.reservations) /\ Labelled(s)
  BY DEF Filled, Labelled
<1>2. PICK rs : Bare(rs) /\ Addressed(s, list) = [s EXCEPT !.reservations = rs]
  BY <1>1, AddressedBare
<1>. DEFINE t == [s EXCEPT !.reservations = rs]
<1>3. DOMAIN t = DOMAIN s
  OBVIOUS
<1>4. Filled(t) /\ SameLabels(s, t)
  BY <1>1, <1>2, OtherFilled, OtherContents
<1>. HIDE DEF t
<1>. QED BY <1>2, <1>3, <1>4 DEF t

LEMMA BareByNames == ASSUME NEW X, NEW list \in Seq(X) PROVE Bare(ByNames(list))
<1>. DEFINE q == [i \in DOMAIN list |-> Reservation(list[i].name, Nil)]
            n == Len(list)
            G == {q[i] : i \in DOMAIN list}
<1>1. DOMAIN list = 1..n /\ n \in Nat
  OBVIOUS
<1>2. \A g \in G : {"key", "name"} \subseteq DOMAIN g /\ "comment" \notin DOMAIN g
  BY DEF Reservation
<1>3. DOMAIN q = 1..n /\ q = [i \in DOMAIN q |-> q[i]] /\ \A i \in 1..n : q[i] \in G
  BY <1>1
<1>. HIDE DEF q, G, n
<1>4. q \in Seq(G)
  BY <1>1, <1>3
<1>. QED BY <1>2, <1>4, BareOf DEF q, ByNames

LEMMA MigrateKin == ASSUME NEW nets, NetsKnown(nets) PROVE NetsKin(nets, migrate_switch_names(nets))
<1>2. ASSUME NEW rs, Bare(rs) PROVE Bare(SwitchesRenamed(rs))
  <2>. DEFINE q == [i \in DOMAIN rs |-> [rs[i] EXCEPT !.name = SwitchName(@)]]
  <2>1. DOMAIN q = DOMAIN rs /\ q = [i \in DOMAIN q |-> q[i]] /\ \A i \in DOMAIN rs : DOMAIN q[i] = DOMAIN rs[i]
    OBVIOUS
  <2>. HIDE DEF q
  <2>2. Bare(Keyed(q))
    BY <1>2, <2>1, BareMap, BareKeyed
  <2>. QED BY <2>2 DEF q, SwitchesRenamed
<1>1. ASSUME NEW n \in LabelledNets
      PROVE  \E q : Relabels(nets[n].subnets, q) /\ migrate_switch_names(nets)[n].subnets = q
  <2>1. n \in SlsNetwork /\ IsNet(nets[n])
    BY DEF LabelledNets, SlsNetwork, NetsKnown
  <2>2. PICK q : /\ DOMAIN q = DOMAIN nets[n].subnets /\ q = [i \in DOMAIN q |-> q[i]]
                 /\ \A i \in DOMAIN q : q[i] \in {nets[n].subnets[i], [nets[n].subnets[i] EXCEPT !.reservations = SwitchesRenamed(@)]}
                 /\ migrate_switch_names(nets)[n] = [nets[n] EXCEPT !.subnets = q]
    BY <2>1 DEF migrate_switch_names, OnSubnet, OnSubnets
  <2>3. ASSUME NEW i \in DOMAIN q, Filled(nets[n].subnets[i])
        PROVE  Filled(q[i]) /\ SameLabels(nets[n].subnets[i], q[i])
    <3>. DEFINE s == nets[n].subnets[i]
                x == SwitchesRenamed(s.reservations)
    <3>1. q[i] = s \/ q[i] = [s EXCEPT !.reservations = x]
      BY <2>2
    <3>2. Filled(s) /\ Labelled(s) /\ Bare(x)
      BY <1>2, <2>3 DEF Filled
    <3>. HIDE DEF s, x
    <3>3. SameLabels(s, s)
      BY <3>2 DEF SameLabels
    <3>4. SameLabels(s, [s EXCEPT !.reservations = x]) /\ Filled([s EXCEPT !.reservations = x])
      BY <3>2, OtherContents, OtherFilled
    <3>. QED BY <3>1, <3>2, <3>3, <3>4 DEF s
  <2>4. Relabels(nets[n].subnets, q)
    BY <2>2, <2>3 DEF Relabels, SameLabels
  <2>. QED BY <2>1, <2>2, <2>4, SubnetsOfExcept
<1>. QED BY <1>1, MapKin

LEMMA KubeApiKin == ASSUME NEW nets, NetsKnown(nets) PROVE NetsKin(nets, remove_kube_api_reservations(nets))
<1>1. ASSUME NEW n \in LabelledNets
      PROVE  \E q : Relabels(nets[n].subnets, q) /\ remove_kube_api_reservations(nets)[n].subnets = q
  <2>1. n \in SlsNetwork /\ n # "NMN" /\ IsNet(nets[n])
    BY DEF LabelledNets, SlsNetwork, NetsKnown
  <2>. DEFINE q == [i \in DOMAIN nets[n].subnets |->
                      [nets[n].subnets[i] EXCEPT !.reservations = Without(@, {KubeApi})]]
  <2>2. remove_kube_api_reservations(nets)[n] = [nets[n] EXCEPT !.subnets = q]
    BY <2>1 DEF remove_kube_api_reservations, OnSubnets
  <2>3. Relabels(nets[n].subnets, q)
    BY OtherContents, OtherFilled, BareWithout DEF Relabels, SameLabels, Filled
  <2>. HIDE DEF q
  <2>. QED BY <2>1, <2>2, <2>3, SubnetsOfExcept
<1>. QED BY <1>1, MapKin

LEMMA WithBgp ==
    ASSUME NEW net, IsNet(net), NEW q, NEW b
    PROVE  [[net EXCEPT !.subnets = q] EXCEPT !.bgp = b].subnets = q
  BY DEF IsNet
LEMMA BgpKin == ASSUME NEW nets, NetsKnown(nets) PROVE NetsKin(nets, create_metallb_pools_and_asns(nets))
<1>1. ASSUME NEW n \in LabelledNets
      PROVE  \E q : Relabels(nets[n].subnets, q) /\ create_metallb_pools_and_asns(nets)[n].subnets = q
  <2>1. n \in SlsNetwork /\ IsNet(nets[n])
    BY DEF LabelledNets, SlsNetwork, NetsKnown
  <2>. DEFINE named == {Pool(w) : w \in {"can", "chn", "cmn", "hmn", "nmn"}} \cup {Static("cmn")}
              Q == [i \in DOMAIN nets[n].subnets |->
                      IF nets[n].subnets[i].name \in named
                      THEN [nets[n].subnets[i] EXCEPT !.pool = nets[n].subnets[i].name] ELSE nets[n].subnets[i]]
              b == [nets[n] EXCEPT !.subnets = Q].bgp \/ (n \in {"CHN", "CMN", "NMN"} /\ nets[n] # NoNetwork)
  <2>2. create_metallb_pools_and_asns(nets)[n] = [[nets[n] EXCEPT !.subnets = Q] EXCEPT !.bgp = b]
    BY <2>1 DEF create_metallb_pools_and_asns, OnSubnets
  <2>3. Relabels(nets[n].subnets, Q)
    BY OtherContents, OtherFilled DEF Relabels, SameLabels, Filled
  <2>. HIDE DEF b, Q
  <2>. QED BY <2>1, <2>2, <2>3, WithBgp
<1>. QED BY <1>1, MapKin

LEMMA StaticPoolKin == ASSUME NEW nets, NetsKnown(nets) PROVE NetsKin(nets, remove_can_static_pool(nets))
<1>. DEFINE q == Without(nets["CAN"].subnets, {Static("can")})
            w == [nets["CAN"] EXCEPT !.subnets = q]
<1>1. nets = [n \in SlsNetwork |-> nets[n]] /\ LabelledNets \subseteq SlsNetwork /\ "CAN" \in SlsNetwork /\ IsNet(nets["CAN"])
  BY DEF NetsKnown, SlsNetwork, LabelledNets
<1>2. remove_can_static_pool(nets) = [nets EXCEPT !["CAN"] = w]
  BY DEF remove_can_static_pool
<1>3. w.subnets = q
  <2>. HIDE DEF q
  <2>. QED BY <1>1, SubnetsOfExcept
<1>4. Kin(nets["CAN"].subnets, q)
  <2>1. Bootstrap \notin {Static("can")}
    <3>1. Len(Bootstrap) = 1 /\ Len(Static("can")) = 2
      BY DEF Bootstrap, Static
    <3>. QED BY <3>1
  <2>. QED BY <2>1, WithoutKin
<1>. HIDE DEF w, q
<1>5. \A n \in LabelledNets : remove_can_static_pool(nets)[n] = IF n = "CAN" THEN w ELSE nets[n]
  BY <1>1, <1>2
<1>. QED BY <1>3, <1>4, <1>5, KinRefl DEF NetsKin

-----------------------------------------------------------------------------
(* The VLANs of the customer networks.                                      *)

\* The functions of main() between the cloning of networks.
LEMMA DoesOnVlans ==
    ASSUME UpgradeOnVlans, NEW step, NEW nets, NEW next, Does(step, nets, next),
           next \notin {"CMN subnets", "CAN subnets", "written"}, next \notin Resting => RunOnVlans(nets, next)
    PROVE  UpgradeOnVlans'
<1>1. slsPc' = next /\ slsNets' = nets /\ UNCHANGED <<slsFile, slsOptions, slsCommands, slsDump>>
  BY DEF Does, SlsCalls, SlsGoTo
<1>2. FileOnVlans'
  BY <1>1 DEF UpgradeOnVlans, FileOnVlans, NetsOnVlans, OldVlans, NewVlans, FirstCommand, HmnVlans, NetsBooted
<1>3. next \notin Resting => RunOnVlans(nets, next)'
  BY <1>1 DEF RunOnVlans, NetsOnVlans, CanVlans, OldVlans, NewVlans, FirstCommand, HmnVlans, NetsBooted
<1>. QED BY <1>1, <1>2, <1>3 DEF UpgradeOnVlans

LEMMA FailsOnVlans == ASSUME UpgradeOnVlans, NEW step, Fails(step) PROVE UpgradeOnVlans'
<1>1. Does(step, slsNets, "failed") /\ "failed" \in Resting
  BY DEF Fails, Resting
<1>. QED BY <1>1, DoesOnVlans

\* The same networks with other contents are on the same VLANs.
LEMMA KinOnVlans ==
    ASSUME NEW old, NetsKnown(old), NEW new, SameNets(old, new), NetsKin(old, new), NEW W, NetsOnVlans(old, W)
    PROVE  NetsOnVlans(new, W) /\ (NetsBooted(old) => NetsBooted(new))
<1>1. \A n \in LabelledNets : Kin(old[n].subnets, new[n].subnets)
  BY DEF NetsKin
<1>2. NetsOnVlans(new, W)
  BY <1>1 DEF NetsOnVlans, LabelledNets, Kin
<1>3. \A n \in UserNets : (new[n] = NoNetwork <=> old[n] = NoNetwork) /\ \E V : OnVlans(old[n].subnets, V)
  BY SameNetsKnown DEF UserNets, SlsNetwork, NetsOnVlans
<1>4. NetsBooted(old) => NetsBooted(new)
  BY <1>1, <1>3 DEF NetsBooted, UserNets, LabelledNets, Kin
<1>. QED BY <1>2, <1>4

LEMMA SamePresence ==
    ASSUME NEW old, NetsKnown(old), NEW new, SameNets(old, new)
    PROVE  /\ new["BICAN"] = NoNetwork <=> old["BICAN"] = NoNetwork
           /\ new["CMN"] = NoNetwork <=> old["CMN"] = NoNetwork
  BY SameNetsKnown DEF SlsNetwork

LEMMA KinRunOnVlans ==
    ASSUME NEW old, NetsKnown(old), NEW new, SameNets(old, new), NetsKin(old, new), NEW step, NEW next,
           RunOnVlans(old, step), next \notin {"CMN subnets", "CAN subnets"},
           old["BICAN"] # NoNetwork \/ (step \in WithNewCan <=> next \in WithNewCan),
           old["CMN"] # NoNetwork \/ (next \in WithoutCmn)
    PROVE  RunOnVlans(new, next)
<1>1. /\ new["BICAN"] = NoNetwork <=> old["BICAN"] = NoNetwork
      /\ new["CMN"] = NoNetwork <=> old["CMN"] = NoNetwork
  BY SamePresence
<1>2. CanVlans(new, next) = CanVlans(old, step)
  BY <1>1 DEF CanVlans
<1>3. NetsOnVlans(new, CanVlans(new, next)) /\ NetsBooted(new)
  BY <1>2, KinOnVlans DEF RunOnVlans
<1>. QED BY <1>1, <1>3 DEF RunOnVlans

\* A function that changes none of these networks.
LEMMA OthersKin ==
    ASSUME NEW old, NEW new, \A n \in LabelledNets : new[n] = old[n]
    PROVE  NetsKin(old, new)
  BY KinRefl DEF NetsKin

LEMMA SwitchesOnVlans == ASSUME UpgradeRoutes, UpgradeOnVlans, MigrateSwitchNames PROVE UpgradeOnVlans'
<1>1. /\ slsPc = "switches" /\ slsPc' = "lb" /\ UNCHANGED <<slsFile, slsOptions, slsCommands, slsDump>>
      /\ slsNets' = slsNets \/ slsNets' = migrate_switch_names(slsNets)
  BY DEF MigrateSwitchNames, slsLoaded, SlsCalls, SlsGoTo
<1>2. NetsKnown(slsNets) /\ RunOnVlans(slsNets, "switches")
  BY <1>1 DEF UpgradeRoutes, UpgradeOnVlans, Resting
<1>3. SameNets(slsNets, slsNets') /\ NetsKin(slsNets, slsNets')
  BY <1>1, <1>2, MigrateSame, MigrateKin, NetsSameRefl, NetsKinRefl
<1>4. RunOnVlans(slsNets', "lb")
  <2>1. "switches" \notin WithNewCan /\ "lb" \notin WithNewCan /\ "lb" \in WithoutCmn /\ "lb" \notin {"CMN subnets", "CAN subnets"}
    BY DEF WithNewCan, WithoutCmn
  <2>. QED BY <1>2, <1>3, <2>1, KinRunOnVlans
<1>5. FileOnVlans'
  BY <1>1 DEF UpgradeOnVlans, FileOnVlans, NetsOnVlans, OldVlans, NewVlans, FirstCommand, HmnVlans, NetsBooted
<1>6. RunOnVlans(slsNets, slsPc)'
  BY <1>1, <1>4 DEF RunOnVlans, NetsOnVlans, CanVlans, OldVlans, NewVlans, FirstCommand, HmnVlans, NetsBooted
<1>. QED BY <1>1, <1>5, <1>6 DEF UpgradeOnVlans

\* A function of main() that keeps the labels of all subnets.
LEMMA KinDoesOnVlans ==
    ASSUME UpgradeRoutes, UpgradeOnVlans, NEW step, NEW nets, NEW next, Does(step, nets, next),
           SameNets(slsNets, nets), NetsKin(slsNets, nets), step \notin Resting,
           next \notin {"CMN subnets", "CAN subnets", "written"},
           slsNets["BICAN"] # NoNetwork \/ (step \in WithNewCan <=> next \in WithNewCan),
           slsNets["CMN"] # NoNetwork \/ (next \in WithoutCmn)
    PROVE  UpgradeOnVlans'
<1>1. slsPc = step /\ NetsKnown(slsNets)
  BY DEF Does, UpgradeRoutes
<1>2. RunOnVlans(slsNets, step)
  BY <1>1 DEF UpgradeOnVlans
<1>3. RunOnVlans(nets, next)
  BY <1>1, <1>2, KinRunOnVlans
<1>. QED BY <1>3, DoesOnVlans

\* The VLANs of the old CAN are one.
LEMMA OneOldVlan == ASSUME slsDump \in SlsInputs PROVE \A v, w \in OldVlans : v = w
<1>. SUFFICES ASSUME NEW s \in ToSet(slsDump.nets["CAN"].subnets), NEW t \in ToSet(slsDump.nets["CAN"].subnets)
              PROVE  s.vlan = t.vlan
  BY DEF OldVlans
<1>. QED BY SlsInputsAssumption DEF SubnetsIn

\* The dump that is read: the CAN has a bootstrap_dhcp, on another VLAN than the new CAN.
LEMMA LoadOnVlans == ASSUME UpgradeRoutes, UpgradeOnVlans, LoadSls PROVE UpgradeOnVlans'
<1>. DEFINE old == slsFile.nets
            read == [n \in SlsNetwork |-> network_from_sls_data(old[n])]
<1>0. slsNets' = read /\ UNCHANGED <<slsFile, slsDump>> /\ FirstCommand' = FirstCommand /\ slsPc \in {"load", "written"}
  BY LoadCommands DEF LoadSls, SlsCalls, FirstCommand
<1>1. NetsKnown(old) /\ FileOnVlans
  BY DEF UpgradeRoutes, UpgradeOnVlans
<1>2. SameNets(old, read)
  BY <1>1, NetworkReadSame DEF SameNets, NetsKnown
<1>3. NetsKin(old, read)
  BY <1>1, NetsReadKin
<1>4. slsPc' = IF InputError(read, slsOptions') THEN "failed" ELSE "switches"
  <2>1. slsPc' = IF InputError(slsNets', slsOptions') THEN "failed" ELSE "switches"
    BY DEF LoadSls, SlsCalls
  <2>. HIDE DEF read
  <2>. QED BY <1>0, <2>1
<1>5. Named(read["CAN"].subnets)
  <2>1. IsNet(old["CAN"]) /\ "CAN" \in SlsNetwork
    BY <1>1 DEF NetsKnown, SlsNetwork
  <2>. DEFINE q == [i \in DOMAIN old["CAN"].subnets |-> subnet_from_sls_data(old["CAN"].subnets[i])]
  <2>2. read["CAN"].subnets = Keyed(q)
    BY <2>1 DEF network_from_sls_data, IsNet
  <2>3. \E W : OnVlans(old["CAN"].subnets, W)
    BY <1>1 DEF FileOnVlans, NetsOnVlans
  <2>4. Relabels(old["CAN"].subnets, q)
    BY ReadFilled DEF Relabels
  <2>. HIDE DEF q
  <2>5. \E W : OnVlans(q, W)
    BY <2>3, <2>4, RelabelsOnVlans
  <2>. QED BY <2>2, <2>5, KeyedOnVlans
<1>6. /\ read["BICAN"] = NoNetwork <=> old["BICAN"] = NoNetwork
      /\ read["CMN"] = NoNetwork <=> old["CMN"] = NoNetwork
  <2>. HIDE DEF read, old
  <2>. QED BY <1>1, <1>2, SamePresence
<1>7. read["CHN"] = NoNetwork <=> old["CHN"] = NoNetwork
  <2>1. "CHN" \in SlsNetwork
    BY DEF SlsNetwork
  <2>. HIDE DEF read, old
  <2>. QED BY <1>1, <1>2, <2>1, SameNetsKnown
<1>. HIDE DEF read
<1>8. FileOnVlans' /\ slsPc' \in {"failed", "switches"}
  BY <1>0, <1>1, <1>4 DEF FileOnVlans, NetsOnVlans, OldVlans, NewVlans, HmnVlans, NetsBooted
<1>9. ASSUME ~InputError(read, slsOptions') PROVE RunOnVlans(read, "switches")
  <2>1. CASE old["BICAN"] # NoNetwork
    <3>1. old["CMN"] # NoNetwork /\ OldVlans \cap NewVlans = {} /\ NetsOnVlans(old, NewVlans) /\ NetsBooted(old)
      BY <1>1, <2>1 DEF FileOnVlans
    <3>2. NetsOnVlans(read, NewVlans) /\ NetsBooted(read)
      <4>. HIDE DEF old
      <4>. QED BY <1>1, <1>2, <1>3, <3>1, KinOnVlans
    <3>. QED BY <1>6, <2>1, <3>1, <3>2 DEF RunOnVlans, CanVlans
  <2>2. CASE old["BICAN"] = NoNetwork
    <3>1. /\ old["CMN"] = NoNetwork /\ old["CHN"] = NoNetwork /\ NetsOnVlans(old, OldVlans)
      BY <1>1, <2>2 DEF FileOnVlans
    <3>2. NetsOnVlans(read, OldVlans)
      <4>. HIDE DEF old
      <4>. QED BY <1>1, <1>2, <1>3, <3>1, KinOnVlans
    <3>3. Has(read["CAN"].subnets, Bootstrap) /\ Get(read["CAN"].subnets, Bootstrap).vlan # slsOptions'.canVlan
      BY <1>6, <1>9, <3>1 DEF InputError
    <3>. DEFINE X == ToSet(read["CAN"].subnets)
                s == Get(read["CAN"].subnets, Bootstrap)
    <3>4. read["CAN"].subnets \in Seq(X) /\ \A t \in X : t.vlan \in OldVlans
      BY <3>2 DEF NetsOnVlans, OnVlans
    <3>5. s \in X
      <4>. HIDE DEF X
      <4>. QED BY <3>3, <3>4, GetIs DEF X
    <3>6. s.vlan \in OldVlans /\ s.vlan # slsOptions'.canVlan
      BY <3>3, <3>4, <3>5
    <3>. HIDE DEF s, X
    <3>7. \A v, w \in OldVlans : v = w
      BY OneOldVlan DEF UpgradeOnVlans
    <3>8. OldVlans \cap NewVlans = {}
      <4>1. slsOptions' = FirstCommand
        BY <2>2, LoadCommands DEF UpgradeRoutes, FileReady, FirstCommand
      <4>. QED BY <3>6, <3>7, <4>1 DEF NewVlans
    <3>9. Booted(read["CAN"].subnets)
      BY <1>5, <3>3 DEF Has, Named, Booted
    <3>10. NetsBooted(read)
      BY <1>6, <1>7, <3>1, <3>9 DEF NetsBooted, UserNets
    <3>. QED BY <1>6, <2>2, <3>2, <3>8, <3>10 DEF RunOnVlans, CanVlans, WithNewCan, WithoutCmn
  <2>. QED BY <2>1, <2>2
<1>10. ~InputError(read, slsOptions') => RunOnVlans(slsNets, "switches")'
  BY <1>0, <1>9 DEF RunOnVlans, NetsOnVlans, CanVlans, OldVlans, NewVlans, HmnVlans, NetsBooted
<1>11. slsPc' \notin Resting => RunOnVlans(slsNets, slsPc)'
  BY <1>4, <1>10 DEF Resting
<1>. QED BY <1>0, <1>8, <1>11 DEF UpgradeOnVlans

\* The functions that keep all labels.
LEMMA BalancersOnVlans == ASSUME UpgradeRoutes, UpgradeOnVlans, CorrectLoadBalancers PROVE UpgradeOnVlans'
<1>. DEFINE mid == remove_api_gw_from_hmnlb_reservations(slsNets)
            new == correct_unbound_dns_address(mid)
<1>1. Does("lb", new, "cmn")
  BY DEF CorrectLoadBalancers
<1>2. slsNets = [n \in SlsNetwork |-> slsNets[n]] /\ LabelledNets \subseteq SlsNetwork \ {"HMNLB", "NMNLB"} /\ NetsKnown(slsNets)
  BY DEF UpgradeRoutes, NetsKnown, SlsNetwork, LabelledNets
<1>3. SameNets(slsNets, mid) /\ NetsKnown(mid)
  BY ApiGwSame, SameNetsKnown DEF UpgradeRoutes
<1>4. (\A n \in LabelledNets : mid[n] = slsNets[n]) /\ mid = [n \in SlsNetwork |-> mid[n]]
  BY <1>2 DEF remove_api_gw_from_hmnlb_reservations
<1>. HIDE DEF mid
<1>5. SameNets(mid, new)
  BY <1>3, UnboundSame
<1>6. \A n \in LabelledNets : new[n] = mid[n]
  BY <1>2, <1>4 DEF correct_unbound_dns_address
<1>. HIDE DEF new
<1>7. SameNets(slsNets, new) /\ NetsKin(slsNets, new)
  BY <1>3, <1>4, <1>5, <1>6, SameNetsTrans, OthersKin
<1>. QED BY <1>1, <1>7, KinDoesOnVlans DEF Resting, WithNewCan, WithoutCmn

LEMMA UaiOnVlans == ASSUME UpgradeRoutes, UpgradeOnVlans, UpdateUai PROVE UpgradeOnVlans'
<1>. DEFINE mid == update_nmn_uai_macvlan_dhcp_ranges(slsNets)
            new == rename_uai_bridge_reservation(mid)
<1>1. Fails("uai") \/ Does("uai", new, "remove")
  BY DEF UpdateUai
<1>2. slsNets = [n \in SlsNetwork |-> slsNets[n]] /\ LabelledNets \subseteq SlsNetwork \ {"NMN"} /\ NetsKnown(slsNets)
  BY DEF UpgradeRoutes, NetsKnown, SlsNetwork, LabelledNets
<1>3. SameNets(slsNets, mid) /\ NetsKnown(mid)
  BY UaiSame, SameNetsKnown DEF UpgradeRoutes
<1>4. (\A n \in LabelledNets : mid[n] = slsNets[n]) /\ mid = [n \in SlsNetwork |-> mid[n]]
  BY <1>2 DEF update_nmn_uai_macvlan_dhcp_ranges
<1>. HIDE DEF mid
<1>5. SameNets(mid, new)
  BY <1>3, BlackholeSame
<1>6. \A n \in LabelledNets : new[n] = mid[n]
  BY <1>2, <1>4 DEF rename_uai_bridge_reservation
<1>. HIDE DEF new
<1>7. SameNets(slsNets, new) /\ NetsKin(slsNets, new)
  BY <1>3, <1>4, <1>5, <1>6, SameNetsTrans, OthersKin
<1>8. CASE Does("uai", new, "remove")
  <2>1. slsPc = "uai" /\ "uai" \notin Resting \cup WithoutCmn
    BY <1>8 DEF Does, Resting, WithoutCmn
  <2>2. slsNets["CMN"] # NoNetwork
    BY <2>1 DEF UpgradeOnVlans, RunOnVlans
  <2>. QED BY <1>7, <1>8, <2>1, <2>2, KinDoesOnVlans DEF WithNewCan
<1>. QED BY <1>1, <1>8, FailsOnVlans

LEMMA StaticPoolOnVlans == ASSUME UpgradeRoutes, UpgradeOnVlans, RemoveStaticPool PROVE UpgradeOnVlans'
<1>. DEFINE new == remove_can_static_pool(slsNets)
<1>1. Does("static pool", new, "kubeapi")
  BY DEF RemoveStaticPool
<1>2. SameNets(slsNets, new) /\ NetsKin(slsNets, new)
  BY StaticPoolSame, StaticPoolKin DEF UpgradeRoutes
<1>3. slsPc = "static pool" /\ "static pool" \notin Resting \cup WithoutCmn
  BY <1>1 DEF Does, Resting, WithoutCmn
<1>4. slsNets["CMN"] # NoNetwork
  BY <1>3 DEF UpgradeOnVlans, RunOnVlans
<1>. HIDE DEF new
<1>. QED BY <1>1, <1>2, <1>3, <1>4, KinDoesOnVlans DEF WithNewCan

LEMMA KubeApiOnVlans == ASSUME UpgradeRoutes, UpgradeOnVlans, RemoveKubeApi PROVE UpgradeOnVlans'
<1>. DEFINE new == remove_kube_api_reservations(slsNets)
<1>1. Does("kubeapi", new, "chn")
  BY DEF RemoveKubeApi
<1>2. SameNets(slsNets, new) /\ NetsKin(slsNets, new)
  BY KubeApiSame, KubeApiKin DEF UpgradeRoutes
<1>3. slsPc = "kubeapi" /\ "kubeapi" \notin Resting \cup WithoutCmn
  BY <1>1 DEF Does, Resting, WithoutCmn
<1>4. slsNets["CMN"] # NoNetwork
  BY <1>3 DEF UpgradeOnVlans, RunOnVlans
<1>. HIDE DEF new
<1>. QED BY <1>1, <1>2, <1>3, <1>4, KinDoesOnVlans DEF WithNewCan

LEMMA BgpOnVlans == ASSUME UpgradeRoutes, UpgradeOnVlans, AddBgp PROVE UpgradeOnVlans'
<1>. DEFINE new == create_metallb_pools_and_asns(slsNets)
<1>1. Does("bgp", new, "uai")
  BY DEF AddBgp
<1>2. SameNets(slsNets, new) /\ NetsKin(slsNets, new)
  BY BgpSame, BgpKin DEF UpgradeRoutes
<1>3. slsPc = "bgp" /\ "bgp" \notin Resting \cup WithoutCmn
  BY <1>1 DEF Does, Resting, WithoutCmn
<1>4. slsNets["CMN"] # NoNetwork
  BY <1>3 DEF UpgradeOnVlans, RunOnVlans
<1>. HIDE DEF new
<1>. QED BY <1>1, <1>2, <1>3, <1>4, KinDoesOnVlans DEF WithNewCan

\* The other functions of main() but those that clone networks.
LEMMA RemoveUnusedOnVlans == ASSUME UpgradeRoutes, UpgradeOnVlans, RemoveUnused PROVE UpgradeOnVlans'
<1>. DEFINE new == [n \in SlsNetwork |-> IF n \in Unused(slsOptions) THEN NoNetwork ELSE slsNets[n]]
<1>1. Does("remove", new, "bican")
  BY DEF RemoveUnused
<1>2. slsPc = "remove" /\ "remove" \notin Resting \cup WithoutCmn /\ {"remove", "bican"} \subseteq WithNewCan
  BY <1>1 DEF Does, Resting, WithoutCmn, WithNewCan
<1>3. RunOnVlans(slsNets, "remove") /\ slsNets["CMN"] # NoNetwork
  BY <1>2 DEF UpgradeOnVlans, RunOnVlans
<1>4. NetsOnVlans(slsNets, NewVlans) /\ NetsBooted(slsNets) /\ OldVlans \cap NewVlans = {}
  BY <1>2, <1>3 DEF RunOnVlans, CanVlans
<1>5. Unused(slsOptions) \subseteq {"CAN", "CHN"}
  BY DEF Unused
<1>6. \A n \in LabelledNets : new[n] = slsNets[n] \/ new[n] = NoNetwork
  BY DEF LabelledNets, SlsNetwork
<1>7. new["CMN"] = slsNets["CMN"]
  BY <1>5 DEF SlsNetwork
<1>. HIDE DEF new
<1>8. NetsOnVlans(new, NewVlans)
  BY <1>4, <1>6, NothingOnVlans, NoNetworkIsNet DEF NetsOnVlans, LabelledNets
<1>9. NetsBooted(new)
  BY <1>4, <1>6 DEF NetsBooted, UserNets, LabelledNets
<1>10. RunOnVlans(new, "bican")
  BY <1>2, <1>3, <1>4, <1>7, <1>8, <1>9 DEF RunOnVlans, CanVlans
<1>. QED BY <1>1, <1>10, DoesOnVlans

LEMMA BicanOnVlans == ASSUME UpgradeRoutes, UpgradeOnVlans, CreateBican PROVE UpgradeOnVlans'
<1>. DEFINE new == create_bican_network(slsNets, slsOptions.bican)
<1>1. Does("bican", new, "write")
  BY DEF CreateBican
<1>2. slsPc = "bican" /\ "bican" \notin Resting \cup WithoutCmn /\ {"bican", "write"} \subseteq WithNewCan
  BY <1>1 DEF Does, Resting, WithoutCmn, WithNewCan
<1>3. RunOnVlans(slsNets, "bican") /\ slsNets["CMN"] # NoNetwork
  BY <1>2 DEF UpgradeOnVlans, RunOnVlans
<1>4. NetsOnVlans(slsNets, NewVlans) /\ NetsBooted(slsNets) /\ OldVlans \cap NewVlans = {}
  BY <1>2, <1>3 DEF RunOnVlans, CanVlans
<1>5. \A n \in LabelledNets : new[n] = slsNets[n]
  BY DEF create_bican_network, LabelledNets, UpgradeRoutes, NetsKnown, SlsNetwork
<1>. HIDE DEF new
<1>6. NetsOnVlans(new, NewVlans) /\ NetsBooted(new) /\ new["CMN"] # NoNetwork
  BY <1>3, <1>4, <1>5 DEF NetsOnVlans, NetsBooted, UserNets, LabelledNets
<1>7. RunOnVlans(new, "write")
  BY <1>2, <1>4, <1>6 DEF RunOnVlans, CanVlans
<1>. QED BY <1>1, <1>7, DoesOnVlans

LEMMA WriteOnVlans == ASSUME UpgradeRoutes, UpgradeOnVlans, WriteSls PROVE UpgradeOnVlans'
<1>. DEFINE new == NetworksToSls(slsNets)
<1>1. /\ slsPc = "write" /\ slsPc' = "written" /\ slsFile'.nets = new
      /\ UNCHANGED <<slsNets, slsOptions, slsCommands, slsDump>>
  BY DEF WriteSls, slsLoaded
<1>2. NetsKnown(slsNets) /\ SameNets(slsNets, new) /\ NetsKin(slsNets, new)
  BY NetworksToSlsSame, ToSlsKin DEF UpgradeRoutes
<1>3. slsPc \notin Resting \cup WithoutCmn /\ slsPc \in WithNewCan
  BY <1>1 DEF Resting, WithoutCmn, WithNewCan
<1>4. slsNets["BICAN"] # NoNetwork
  BY <1>1, <1>3 DEF UpgradeRoutes, NetsReady
<1>5. NetsOnVlans(slsNets, NewVlans) /\ NetsBooted(slsNets) /\ OldVlans \cap NewVlans = {} /\ slsNets["CMN"] # NoNetwork
  BY <1>3 DEF UpgradeOnVlans, RunOnVlans, CanVlans
<1>. HIDE DEF new
<1>6. new["BICAN"] # NoNetwork /\ new["CMN"] # NoNetwork
  BY <1>2, <1>4, <1>5, SamePresence
<1>7. NetsOnVlans(new, NewVlans) /\ NetsBooted(new)
  BY <1>2, <1>5, KinOnVlans
<1>8. FileOnVlans'
  BY <1>1, <1>5, <1>6, <1>7 DEF FileOnVlans, NetsOnVlans, OldVlans, NewVlans, FirstCommand, HmnVlans, NetsBooted
<1>. QED BY <1>1, <1>8 DEF UpgradeOnVlans, Resting

-----------------------------------------------------------------------------
(* The networks that clone_subnet_and_pivot makes.                          *)

JoinOf(p, q) ==
    /\ Len(p) \in Nat /\ Len(q) \in Nat /\ DOMAIN (p \o q) = 1..Len(p) + Len(q)
    /\ \A i \in 1..Len(p) : (p \o q)[i] = p[i]
    /\ \A i \in 1..Len(q) : (p \o q)[Len(p) + i] = q[i]
LEMMA Joined == ASSUME NEW G, NEW p \in Seq(G), NEW q \in Seq(G) PROVE p \o q \in Seq(G) /\ JoinOf(p, q)
  BY DEF JoinOf

\* bootstrap_dhcp is among the subnets that are made, whatever comes first.
LEMMA OrderHasBootstrap ==
    ASSUME NEW preserve
    PROVE  LET names == SubnetOrder(<<"bootstrap_dhcp", "metallb_address_pool", "metallb_static_pool",
                                      "network_hardware">>, preserve)
           IN  names \in Seq(CloneNames) /\ "bootstrap_dhcp" \in ToSet(names)
<1>. DEFINE all == <<"bootstrap_dhcp", "metallb_address_pool", "metallb_static_pool", "network_hardware">>
            X == ToSet(all)
            names == SubnetOrder(all, preserve)
<1>1. all \in Seq(CloneNames) /\ 1 \in DOMAIN all /\ all[1] = "bootstrap_dhcp"
  BY DEF CloneNames
<1>2. "bootstrap_dhcp" \in X
  BY <1>1 DEF ToSet
<1>. HIDE DEF all, X
<1>3. CASE preserve = "external-dns"
  <2>. DEFINE kept == X \ {"metallb_static_pool", "metallb_address_pool"}
              first == <<"metallb_static_pool", "metallb_address_pool">>
              rest == Those(all, kept)
  <2>1. "bootstrap_dhcp" \in kept
    BY <1>2
  <2>2. names = first \o rest
    BY <1>3 DEF SubnetOrder, X
  <2>. HIDE DEF kept
  <2>3. rest \in Seq(CloneNames) /\ \E j \in DOMAIN rest : rest[j] = "bootstrap_dhcp"
    <3>1. rest \in Seq(CloneNames \cap kept)
      BY <1>1, ThoseIn
    <3>2. \E j \in DOMAIN rest : rest[j] = all[1]
      <4>1. all[1] \in kept
        BY <1>1, <2>1
      <4>. QED BY <1>1, <4>1, ThoseHas
    <3>. QED BY <1>1, <3>1, <3>2
  <2>. HIDE DEF rest
  <2>4. first \in Seq(CloneNames) /\ Len(first) = 2
    BY DEF CloneNames
  <2>. HIDE DEF first
  <2>5. first \o rest \in Seq(CloneNames) /\ JoinOf(first, rest)
    BY <2>3, <2>4, Joined
  <2>6. PICK j \in 1..Len(rest) : rest[j] = "bootstrap_dhcp"
    BY <2>3
  <2>7. (first \o rest)[2 + j] = "bootstrap_dhcp" /\ 2 + j \in DOMAIN (first \o rest)
    BY <2>4, <2>5, <2>6 DEF JoinOf
  <2>. QED BY <2>2, <2>5, <2>7 DEF all, ToSet
<1>4. CASE preserve = "ncns"
  <2>. DEFINE kept == X \ {"bootstrap_dhcp"}
              first == <<"bootstrap_dhcp">>
              rest == Those(all, kept)
  <2>1. names = first \o rest
    BY <1>4 DEF SubnetOrder, X
  <2>. HIDE DEF kept
  <2>2. rest \in Seq(CloneNames)
    <3>1. rest \in Seq(CloneNames \cap kept)
      BY <1>1, ThoseIn
    <3>. QED BY <3>1
  <2>. HIDE DEF rest
  <2>3. first \in Seq(CloneNames) /\ Len(first) = 1 /\ first[1] = "bootstrap_dhcp"
    BY DEF CloneNames
  <2>. HIDE DEF first
  <2>4. first \o rest \in Seq(CloneNames) /\ (first \o rest)[1] = "bootstrap_dhcp" /\ 1 \in DOMAIN (first \o rest)
    <3>1. first \o rest \in Seq(CloneNames) /\ JoinOf(first, rest)
      BY <2>2, <2>3, Joined
    <3>. QED BY <2>3, <3>1 DEF JoinOf
  <2>. QED BY <2>1, <2>4 DEF all, ToSet
<1>5. CASE preserve \notin {"external-dns", "ncns"}
  <2>1. names = all
    BY <1>5 DEF SubnetOrder
  <2>. QED BY <1>1, <1>2, <2>1 DEF all, X
<1>. QED BY <1>3, <1>4, <1>5 DEF all

LEMMA StartCmnOnVlans == ASSUME UpgradeRoutes, UpgradeOnVlans, StartCmn PROVE UpgradeOnVlans'
<1>0. slsPc = "cmn" /\ slsPc \notin Resting /\ "cmn" \notin WithNewCan
  BY DEF StartCmn, Resting, WithNewCan
<1>1. RunOnVlans(slsNets, "cmn") /\ NetsKnown(slsNets)
  BY <1>0 DEF UpgradeOnVlans, UpgradeRoutes
<1>2. CASE CmnDone(slsNets)
  <2>1. Does("cmn", slsNets, "static pool")
    BY <1>2 DEF StartCmn
  <2>2. slsNets["CMN"] # NoNetwork
    <3>1. slsNets["BICAN"] = NoNetwork => slsNets["CAN"] # NoNetwork
      BY <1>0 DEF UpgradeRoutes, NetsReady
    <3>. QED BY <1>1, <1>2, <3>1 DEF CmnDone, RunOnVlans
  <2>. QED BY <1>1, <2>1, <2>2, NetsSameRefl, NetsKinRefl, KinDoesOnVlans DEF Resting, WithNewCan, WithoutCmn
<1>3. CASE ~CmnDone(slsNets)
  <2>. DEFINE names == SubnetOrder(<<"bootstrap_dhcp", "metallb_address_pool", "metallb_static_pool",
                                     "network_hardware">>, slsOptions.preserve)
  <2>1. /\ slsPc' = "CMN subnets" /\ UNCHANGED <<slsFile, slsOptions, slsCommands, slsNets, slsDump>>
        /\ slsClone' = [cidr |-> slsNets["CAN"].cidr, made |-> <<>>, todo |-> names]
    BY <1>3 DEF StartCmn, StartsClone, SlsCalls, SlsGoTo
  <2>2. names \in Seq(CloneNames) /\ "bootstrap_dhcp" \in ToSet(names)
    BY OrderHasBootstrap
  <2>. HIDE DEF names
  <2>3. slsNets["BICAN"] = NoNetwork
    BY <1>1, <1>3 DEF RunOnVlans, CmnDone, UpgradeOnVlans, WithoutCmn
  <2>4. RunOnVlans(slsNets, "CMN subnets")
    BY <1>0, <1>1, <2>3 DEF RunOnVlans, CanVlans, WithNewCan, WithoutCmn
  <2>5. slsClone'.made = <<>> /\ slsClone'.todo = names
    BY <2>1
  <2>6. CloneOnVlans(slsClone', OldVlans)
    BY <2>2, <2>5, NothingOnVlans DEF CloneOnVlans
  <2>7. FileOnVlans' /\ RunOnVlans(slsNets, slsPc)' /\ OldVlans' = OldVlans
    BY <2>1, <2>4 DEF UpgradeOnVlans, FileOnVlans, RunOnVlans, NetsOnVlans, CanVlans, OldVlans, NewVlans, FirstCommand, HmnVlans, NetsBooted
  <2>8. CloneOnVlans(slsClone, OldVlans)'
    BY <2>6, <2>7
  <2>. QED BY <2>1, <2>7, <2>8 DEF UpgradeOnVlans
<1>. QED BY <1>2, <1>3

\* The new CAN.
LEMMA StartCanOnVlans == ASSUME UpgradeRoutes, UpgradeOnVlans, StartCan PROVE UpgradeOnVlans'
<1>0. slsPc = "can" /\ slsPc \notin Resting \cup WithoutCmn
  BY DEF StartCan, Resting, WithoutCmn
<1>1. RunOnVlans(slsNets, "can") /\ NetsKnown(slsNets) /\ slsNets["CMN"] # NoNetwork
  BY <1>0 DEF UpgradeOnVlans, UpgradeRoutes, RunOnVlans
<1>2. slsNets["BICAN"] = NoNetwork => slsNets["CAN"] # NoNetwork
  BY <1>0 DEF UpgradeRoutes, NetsReady
<1>3. CASE CanDone(slsNets)
  <2>1. Does("can", slsNets, "bgp")
    BY <1>3 DEF StartCan
  <2>2. slsNets["BICAN"] # NoNetwork
    BY <1>2, <1>3 DEF CanDone
  <2>. QED BY <1>1, <2>1, <2>2, NetsSameRefl, NetsKinRefl, KinDoesOnVlans DEF Resting
<1>4. CASE ~CanDone(slsNets)
  <2>. DEFINE list == slsNets["CAN"].subnets
              q == [i \in DOMAIN list |-> [list[i] EXCEPT !.vlan = slsOptions.canVlan]]
              sub == [slsNets["CAN"] EXCEPT !.subnets = q]
              net == [sub EXCEPT !.cidr = slsOptions.can]
              new == [slsNets EXCEPT !["CAN"] = net]
              names == <<"bootstrap_dhcp", "metallb_address_pool">>
  <2>1. /\ slsPc' = "CAN subnets" /\ UNCHANGED <<slsFile, slsOptions, slsCommands, slsDump>>
        /\ slsNets' = new /\ slsClone' = [cidr |-> new["CAN"].cidr, made |-> <<>>, todo |-> names]
    BY <1>4 DEF StartCan, StartsClone, SlsCalls, SlsGoTo, OnSubnets
  <2>2. /\ slsNets["BICAN"] = NoNetwork /\ Booted(list) /\ OldVlans \cap NewVlans = {}
        /\ NetsOnVlans(slsNets, OldVlans)
    BY <1>0, <1>1, <1>4 DEF CanDone, RunOnVlans, CanVlans, NetsBooted, UserNets, WithNewCan
  <2>3. OnVlans(q, NewVlans) /\ Booted(q)
    <3>1. \A i \in DOMAIN list : Filled(list[i]) /\ Labelled(list[i])
      BY <2>2, EachOnVlan DEF NetsOnVlans
    <3>2. \A i \in DOMAIN list : Filled(q[i]) /\ q[i].vlan = slsOptions.canVlan /\ q[i].key = list[i].key /\ q[i].name = list[i].name
      BY <3>1, OtherFilled DEF Labelled
    <3>3. DOMAIN q = DOMAIN list /\ q = [i \in DOMAIN q |-> q[i]]
      OBVIOUS
    <3>4. \A i \in DOMAIN list : q[i].vlan \in NewVlans
      <4>1. slsOptions = FirstCommand
        BY <1>0, <2>2 DEF UpgradeRoutes, NetsReady, FirstCommand
      <4>. QED BY <3>2, <4>1 DEF NewVlans
    <3>5. OnVlans(list, OldVlans)
      BY <2>2 DEF NetsOnVlans
    <3>. HIDE DEF q, list
    <3>6. OnVlans(q, NewVlans)
      BY <3>2, <3>3, <3>4, <3>5, OnVlansMap
    <3>. QED BY <2>2, <3>2, <3>3, <3>6 DEF Booted
  <2>. HIDE DEF q, list
  <2>4. IsNet(sub) /\ sub.subnets = q
    BY <1>1 DEF NetsKnown, IsNet, SlsNetwork
  <2>. HIDE DEF sub
  <2>5. net.subnets = q
    BY <2>4 DEF IsNet
  <2>. HIDE DEF net
  <2>6. /\ new["CAN"] = net
        /\ \A n \in {"CMN", "CHN", "HMN", "HSN", "BICAN"} : new[n] = slsNets[n]
    BY <1>1 DEF NetsKnown, SlsNetwork
  <2>. HIDE DEF new
  <2>7. names \in Seq(CloneNames) /\ "bootstrap_dhcp" \in ToSet(names)
    <3>1. names \in Seq(CloneNames) /\ 1 \in DOMAIN names /\ names[1] = "bootstrap_dhcp"
      BY DEF CloneNames
    <3>. HIDE DEF names
    <3>. QED BY <3>1 DEF ToSet
  <2>. HIDE DEF names
  <2>8. NetsOnVlans(new, NewVlans) /\ NetsBooted(new)
    BY <1>1, <2>2, <2>3, <2>5, <2>6 DEF NetsOnVlans, NetsBooted, UserNets, RunOnVlans
  <2>9. RunOnVlans(new, "CAN subnets")
    BY <1>1, <2>2, <2>6, <2>8 DEF RunOnVlans, CanVlans, WithNewCan
  <2>10. slsClone'.made = <<>> /\ slsClone'.todo = names
    BY <2>1
  <2>11. CloneOnVlans(slsClone', NewVlans)
    BY <2>7, <2>10, NothingOnVlans DEF CloneOnVlans
  <2>12. FileOnVlans' /\ NewVlans' = NewVlans
    BY <2>1 DEF UpgradeOnVlans, FileOnVlans, NetsOnVlans, OldVlans, NewVlans, FirstCommand, HmnVlans, NetsBooted
  <2>13. RunOnVlans(slsNets, slsPc)'
    BY <2>1, <2>9 DEF RunOnVlans, NetsOnVlans, CanVlans, OldVlans, NewVlans, FirstCommand, HmnVlans, NetsBooted
  <2>14. CloneOnVlans(slsClone, NewVlans)'
    BY <2>11, <2>12
  <2>. QED BY <2>1, <2>12, <2>13, <2>14 DEF UpgradeOnVlans
<1>. QED BY <1>3, <1>4

\* The template of a subnet has the VLAN of the CAN, also one from the HMN.
LEMMA CloneLabels ==
    ASSUME NEW s, Filled(s)
    PROVE  Filled(Clone(s)) /\ Clone(s).vlan = s.vlan /\ Clone(s).name = s.name /\ Clone(s).key = s.name
  BY ReadFilled, ToSlsFilled DEF Clone

LEMMA TemplateOnVlan ==
    ASSUME NEW nets, NEW W, OnVlans(nets["CAN"].subnets, W), Booted(nets["CAN"].subnets),
           NEW V, OnVlans(nets["HMN"].subnets, V), NEW n, NEW t \in ToSet(Template(nets, n))
    PROVE  Filled(Template(nets, n)[1]) /\ Template(nets, n)[1].vlan \in W
<1>. DEFINE own == nets["CAN"].subnets
            hmn == nets["HMN"].subnets
            k == NameIn("can", n)
            X == ToSet(own)
            Y == ToSet(hmn)
<1>1. own \in Seq(X) /\ hmn \in Seq(Y) /\ (\A s \in X : Filled(s) /\ s.vlan \in W) /\ (\A s \in Y : Filled(s))
  BY DEF OnVlans
<1>2. own[1].vlan \in W
  <2>1. own # <<>>
    BY DEF Booted
  <2>2. own[1] \in X
    <3>. HIDE DEF X
    <3>. QED BY <1>1, <2>1
  <2>. QED BY <1>1, <2>2
<1>. DEFINE v == own[1].vlan
<1>. HIDE DEF X, Y
<1>3. CASE Has(own, k)
  <2>. DEFINE c == Clone(Get(own, k))
  <2>1. Template(nets, n) = <<c>>
    BY <1>3 DEF Template
  <2>2. Get(own, k) \in X
    BY <1>1, <1>3, GetIs
  <2>3. Filled(c) /\ c.vlan \in W
    BY <1>1, <2>2, CloneLabels
  <2>. HIDE DEF c
  <2>4. Template(nets, n)[1] = c
    BY <2>1
  <2>. QED BY <2>3, <2>4
<1>4. CASE ~Has(own, k) /\ Has(hmn, k)
  <2>. DEFINE c == Clone(Get(hmn, k))
              d == [c EXCEPT !.vlan = v]
  <2>1. Template(nets, n) = <<d>>
    BY <1>4 DEF Template
  <2>2. Get(hmn, k) \in Y
    BY <1>1, <1>4, GetIs
  <2>3. Filled(c)
    BY <1>1, <2>2, CloneLabels
  <2>. HIDE DEF c, v
  <2>4. Filled(d) /\ d.vlan = v
    BY <2>3, OtherFilled DEF Filled, Labelled
  <2>. HIDE DEF d
  <2>5. Template(nets, n)[1] = d
    BY <2>1
  <2>. QED BY <1>2, <2>4, <2>5 DEF v
<1>5. CASE ~Has(own, k) /\ ~Has(hmn, k)
  <2>1. Template(nets, n) = <<>>
    BY <1>5 DEF Template
  <2>. QED BY <2>1 DEF ToSet
<1>. QED BY <1>3, <1>4, <1>5

LEMMA ReIpLabels == ASSUME NEW s, Filled(s), NEW block PROVE SameLabels(s, ReIp(s, block)) /\ Filled(ReIp(s, block))
<1>. DEFINE empty == [s EXCEPT !.cidr = block, !.gateway = 0, !.reservations = <<>>]
            own == [empty EXCEPT !.gateway = next_free_ipv4_address(empty)]
            names == ByNames(s.reservations)
            new == Addressed(own, names)
            Alike(t) == SameLabels(s, t) /\ Filled(t)
<1>0. ReIp(s, block) \in {new, [new EXCEPT !.dhcp = <<next_free_ipv4_address(new), last_free_ipv4_address(new)>>]}
  BY DEF ReIp
<1>1. Alike(empty)
  BY BareNothing DEF SameLabels, Labelled, Filled
<1>. HIDE DEF empty
<1>2. Alike(own)
  BY <1>1 DEF SameLabels, Labelled, Filled
<1>. HIDE DEF own
<1>3. Bare(names)
  BY BareByNames DEF Filled, Bare, Entries
<1>. HIDE DEF names
<1>4. Alike(new)
  BY <1>2, <1>3, AddressedFilled DEF SameLabels
<1>. HIDE DEF new
<1>5. \A d : Alike([new EXCEPT !.dhcp = d])
  BY <1>4 DEF SameLabels, Labelled, Filled
<1>. QED BY <1>0, <1>4, <1>5

LEMMA NewSubnetLabels ==
    ASSUME NEW to, NEW n, NEW template, Filled(template), NEW seed
    PROVE  LET s == NewSubnet(to, n, template, seed)
           IN  Labelled(s) /\ Filled(s) /\ s.vlan = template.vlan /\ s.name = NameIn(to.word, n) /\ s.key = s.name
<1>. DEFINE k == NameIn(to.word, n)
            rs == NamesReplaced(template.reservations, "can", <<to.word>>)
            s == [template EXCEPT !.key = k, !.name = k, !.reservations = rs]
<1>0. Bare(rs)
  BY BareRenamed DEF Filled
<1>1. NewSubnet(to, n, template, seed) \in {ReIp(s, seed), [s EXCEPT !.cidr = seed], s}
  BY DEF NewSubnet
<1>. HIDE DEF k, rs
<1>2. Filled(s) /\ Labelled(s) /\ s.vlan = template.vlan /\ s.name = k /\ s.key = k
  BY <1>0 DEF Labelled, Filled
<1>. HIDE DEF s
<1>3. SameLabels(s, s) /\ SameLabels(s, [s EXCEPT !.cidr = seed]) /\ Filled([s EXCEPT !.cidr = seed])
  BY <1>2, OtherFilled DEF SameLabels, Labelled
<1>4. SameLabels(s, ReIp(s, seed)) /\ Filled(ReIp(s, seed))
  BY <1>2, ReIpLabels
<1>5. SameLabels(s, NewSubnet(to, n, template, seed)) /\ Filled(NewSubnet(to, n, template, seed))
  BY <1>1, <1>2, <1>3, <1>4
<1>. QED BY <1>2, <1>5 DEF SameLabels, k

LEMMA HeadOrTail ==
    ASSUME NEW X, NEW list \in Seq(X), list # <<>>, NEW x \in ToSet(list), x # Head(list)
    PROVE  x \in ToSet(Tail(list))
<1>1. PICK i \in 1..Len(list) : list[i] = x
  BY DEF ToSet
<1>2. i # 1
  BY <1>1
<1>3. i - 1 \in 1..Len(Tail(list)) /\ Tail(list)[i - 1] = x /\ DOMAIN Tail(list) = 1..Len(Tail(list))
  BY <1>1, <1>2
<1>. QED BY <1>3 DEF ToSet

LEMMA CloneSubnetOnVlans == ASSUME UpgradeRoutes, UpgradeOnVlans, CloneSubnet PROVE UpgradeOnVlans'
<1>. DEFINE to == CloneTo[slsPc]
            n == Head(slsClone.todo)
            found == Template(slsNets, n)
            W == CanVlans(slsNets, slsPc)
<1>1. slsPc \in {"CMN subnets", "CAN subnets"} /\ UNCHANGED <<slsFile, slsNets, slsOptions, slsCommands, slsDump>> /\ slsClone.todo # <<>>
      /\ slsPc' \in {"failed", slsPc}
  BY StepsOfClone DEF CloneSubnet, slsLoaded, SlsCalls, SlsGoTo
<1>2. slsPc \notin Resting /\ IsClone(slsClone) /\ slsNets["CAN"] # NoNetwork /\ RunOnVlans(slsNets, slsPc)
  BY <1>1 DEF UpgradeOnVlans, UpgradeRoutes, Resting, RunOnVlans, NetsReady
<1>3. W = IF slsPc = "CMN subnets" THEN OldVlans ELSE NewVlans
  BY <1>1, <1>2 DEF RunOnVlans, CanVlans, WithNewCan
<1>4. CloneOnVlans(slsClone, W)
  BY <1>1, <1>3 DEF UpgradeOnVlans
<1>5. OnVlans(slsNets["CAN"].subnets, W) /\ Booted(slsNets["CAN"].subnets) /\ OnVlans(slsNets["HMN"].subnets, HmnVlans)
  BY <1>2 DEF RunOnVlans, NetsOnVlans, NetsBooted, UserNets
<1>6. /\ FileOnVlans' /\ OldVlans' = OldVlans /\ NewVlans' = NewVlans
      /\ slsPc' # "failed" => RunOnVlans(slsNets, slsPc)'
  BY <1>1, <1>2 DEF UpgradeOnVlans, FileOnVlans, RunOnVlans, NetsOnVlans, CanVlans, OldVlans, NewVlans, FirstCommand, HmnVlans, NetsBooted
<1>7. CASE slsPc' = "failed"
  BY <1>1, <1>6, <1>7 DEF UpgradeOnVlans, Resting
<1>8. CASE slsPc' # "failed"
  <2>0. PICK seed \in CloneSeeds(to, n, found) :
           slsClone' = [slsClone EXCEPT !.made = Put(slsClone.made, NewSubnet(to, n, found[1], seed)), !.todo = Tail(@)]
    BY <1>8, Zenon DEF CloneSubnet, SlsCalls, SlsGoTo, CloneSeeds
  <2>1. PICK t \in ToSet(found) : seed \in Seeds(slsClone, [t EXCEPT !.name = NameIn(to.word, n)], to.overrides)
    BY <2>0, Zenon DEF CloneSeeds
  <2>. HIDE DEF to, W
  <2>2. slsClone.todo \in Seq(CloneNames) /\ OnVlans(slsClone.made, W)
        /\ (Booted(slsClone.made) \/ "bootstrap_dhcp" \in ToSet(slsClone.todo))
    BY <1>4 DEF CloneOnVlans
  <2>. HIDE DEF n
  <2>3. Filled(found[1]) /\ found[1].vlan \in W
    BY <1>5, <2>1, TemplateOnVlan
  <2>. HIDE DEF found
  <2>. DEFINE s == NewSubnet(to, n, found[1], seed)
              made == Put(slsClone.made, s)
  <2>4. Filled(s) /\ s.vlan \in W /\ s.name = NameIn(to.word, n) /\ s.key = s.name
    BY <2>3, NewSubnetLabels
  <2>5. n = "bootstrap_dhcp" => s.name = Bootstrap
    BY <2>4 DEF NameIn, Bootstrap
  <2>. HIDE DEF s
  <2>6. OnVlans(made, W)
    BY <2>2, <2>4, OnVlansPut
  <2>7. (Booted(slsClone.made) \/ n = "bootstrap_dhcp") => Booted(made)
    <3>1. slsClone.made \in Seq(ToSet(slsClone.made))
      BY <2>2 DEF OnVlans
    <3>. QED BY <2>4, <2>5, <3>1, PutBooted
  <2>8. slsClone'.made = made /\ slsClone'.todo = Tail(slsClone.todo)
    BY <1>2, <2>0 DEF IsClone, s
  <2>. HIDE DEF made
  <2>9. Tail(slsClone.todo) \in Seq(CloneNames)
    <3>1. \A G : \A list \in Seq(G) : list # <<>> => Tail(list) \in Seq(G)
      OBVIOUS
    <3>. QED BY <1>1, <2>2, <3>1
  <2>10. Booted(made) \/ "bootstrap_dhcp" \in ToSet(Tail(slsClone.todo))
    BY <1>1, <2>2, <2>7, HeadOrTail DEF n
  <2>11. CloneOnVlans(slsClone', W)
    BY <2>6, <2>8, <2>9, <2>10 DEF CloneOnVlans
  <2>12. slsPc' = slsPc
    BY <1>1, <1>8
  <2>13. CASE slsPc = "CMN subnets"
    <3>1. CloneOnVlans(slsClone, OldVlans)'
      BY <1>3, <1>6, <2>11, <2>13
    <3>. QED BY <1>1, <1>6, <1>8, <2>12, <2>13, <3>1 DEF UpgradeOnVlans
  <2>14. CASE slsPc = "CAN subnets"
    <3>1. CloneOnVlans(slsClone, NewVlans)'
      BY <1>3, <1>6, <2>11, <2>14
    <3>. QED BY <1>1, <1>6, <1>8, <2>12, <2>14, <3>1 DEF UpgradeOnVlans
  <2>. QED BY <1>1, <2>13, <2>14
<1>. QED BY <1>7, <1>8

\* The supernet hack and the switches that go change no label.
LEMMA EndCloneOnVlans == ASSUME UpgradeRoutes, UpgradeOnVlans, EndClone PROVE UpgradeOnVlans'
<1>. DEFINE to == CloneTo[slsPc]
            n == to.net
            first == Net(slsClone.cidr, slsClone.made)
            p == [i \in DOMAIN first.subnets |-> SupernetHack(first.subnets[i], slsClone.cidr)]
            second == [first EXCEPT !.subnets = p]
            W == CanVlans(slsNets, slsPc)
<1>0. slsPc \in {"CMN subnets", "CAN subnets"} /\ slsClone.todo = <<>>
  BY StepsOfClone DEF EndClone
<1>1. /\ slsPc = "CMN subnets" => n = "CMN" /\ to.next = "static pool"
      /\ slsPc = "CAN subnets" => n = "CAN" /\ to.next = "bgp"
  BY <1>0 DEF CloneTo
<1>2. slsPc \notin Resting /\ NetsKnown(slsNets) /\ RunOnVlans(slsNets, slsPc) /\ slsNets["BICAN"] = NoNetwork
  BY <1>0 DEF UpgradeOnVlans, UpgradeRoutes, Resting, RunOnVlans
<1>3. PICK gone : slsNets' = [slsNets EXCEPT ![n] = [second EXCEPT !.subnets =
             [i \in DOMAIN second.subnets |->
                IF second.subnets[i].key = Bootstrap
                THEN [second.subnets[i] EXCEPT !.reservations = Without(@, gone)] ELSE second.subnets[i]]]]
  BY DEF EndClone, OnSubnet, OnSubnets
<1>4. slsPc' = to.next /\ UNCHANGED <<slsFile, slsOptions, slsCommands, slsDump>>
  BY DEF EndClone, SlsCalls, SlsGoTo
<1>5. W = IF slsPc = "CMN subnets" THEN OldVlans ELSE NewVlans
  BY <1>0, <1>2 DEF CanVlans, WithNewCan
<1>6. CloneOnVlans(slsClone, W)
  BY <1>0, <1>5 DEF UpgradeOnVlans
<1>7. OnVlans(slsClone.made, W) /\ Booted(slsClone.made)
  <2>1. ToSet(<<>>) = {}
    BY DEF ToSet
  <2>2. ToSet(slsClone.todo) = {}
    BY <1>0, <2>1
  <2>. QED BY <1>6, <2>2 DEF CloneOnVlans
<1>. HIDE DEF to, W
<1>. DEFINE q == [i \in DOMAIN second.subnets |->
                IF second.subnets[i].key = Bootstrap
                THEN [second.subnets[i] EXCEPT !.reservations = Without(@, gone)] ELSE second.subnets[i]]
            third == [second EXCEPT !.subnets = q]
<1>8. IsNet(first) /\ first.subnets = slsClone.made
  <2>1. first = [cidr |-> slsClone.cidr, subnets |-> slsClone.made, bgp |-> NoNetwork.bgp, route |-> NoNetwork.route]
    BY NetRecord
  <2>. HIDE DEF first
  <2>. QED BY <2>1 DEF IsNet
<1>. HIDE DEF first
<1>9. Relabels(first.subnets, p)
  <2>1. \A s : Filled(s) => SameLabels(s, SupernetHack(s, slsClone.cidr)) /\ Filled(SupernetHack(s, slsClone.cidr))
    BY DEF SupernetHack, SameLabels, Labelled, Filled
  <2>. QED BY <2>1 DEF Relabels, SameLabels
<1>. HIDE DEF p
<1>10. IsNet(second) /\ second.subnets = p
  BY <1>8, OtherSubnetsNet, SubnetsOfExcept
<1>. HIDE DEF second
<1>11. Relabels(second.subnets, q)
  <2>. DEFINE less(s) == [s EXCEPT !.reservations = Without(@, gone)]
  <2>1. \A s : Filled(s) => /\ SameLabels(s, less(s)) /\ SameLabels(s, s) /\ Filled(less(s))
    BY OtherContents, OtherFilled, BareWithout DEF SameLabels, Filled
  <2>. QED BY <2>1 DEF Relabels, SameLabels
<1>. HIDE DEF q
<1>12. third.subnets = q
  BY <1>10, SubnetsOfExcept
<1>. HIDE DEF third
<1>13. OnVlans(third.subnets, W) /\ Booted(third.subnets)
  BY <1>7, <1>8, <1>9, <1>10, <1>11, <1>12, RelabelsOnVlans
<1>14. slsNets' = WithNet(slsNets, n, third)
  BY <1>3 DEF WithNet, third, q
<1>. DEFINE new == WithNet(slsNets, n, third)
<1>15. n \in {"CMN", "CAN"} /\ \A m \in SlsNetwork : new[m] = IF m = n THEN third ELSE slsNets[m]
  BY <1>0, <1>1, <1>2 DEF WithNet, NetsKnown
<1>. HIDE DEF new, n
<1>16. {"CAN", "CMN", "CHN", "HMN", "HSN", "BICAN"} \subseteq SlsNetwork
  BY DEF SlsNetwork
<1>17. NetsBooted(new)
  BY <1>2, <1>13, <1>15, <1>16 DEF NetsBooted, UserNets, RunOnVlans
<1>18. third # NoNetwork
  <2>1. ~Booted(<<>>)
    BY DEF Booted
  <2>. QED BY <1>13, <2>1, NoNetworkIsNet
<1>19. CASE slsPc = "CMN subnets"
  <2>1. n = "CMN" /\ slsPc' = "static pool" /\ W = OldVlans
    BY <1>1, <1>4, <1>5, <1>19 DEF n
  <2>2. NetsOnVlans(new, OldVlans)
    BY <1>2, <1>13, <1>15, <1>16, <2>1 DEF RunOnVlans, NetsOnVlans, W
  <2>3. RunOnVlans(new, "static pool")
    BY <1>2, <1>15, <1>16, <1>17, <1>18, <2>1, <2>2 DEF RunOnVlans, CanVlans, WithNewCan
  <2>4. RunOnVlans(slsNets, slsPc)' /\ FileOnVlans'
    BY <1>4, <1>14, <2>1, <2>3 DEF UpgradeOnVlans, new, FileOnVlans, RunOnVlans, NetsOnVlans, CanVlans, OldVlans, NewVlans, FirstCommand, HmnVlans, NetsBooted
  <2>. QED BY <1>4, <2>1, <2>4 DEF UpgradeOnVlans
<1>20. CASE slsPc = "CAN subnets"
  <2>1. n = "CAN" /\ slsPc' = "bgp" /\ W = NewVlans /\ slsNets["CMN"] # NoNetwork
    BY <1>1, <1>2, <1>4, <1>5, <1>20 DEF n, RunOnVlans, WithoutCmn
  <2>2. NetsOnVlans(new, NewVlans)
    BY <1>2, <1>13, <1>15, <1>16, <2>1 DEF RunOnVlans, NetsOnVlans, W
  <2>3. RunOnVlans(new, "bgp")
    BY <1>2, <1>15, <1>16, <1>17, <2>1, <2>2 DEF RunOnVlans, CanVlans, WithNewCan
  <2>4. RunOnVlans(slsNets, slsPc)' /\ FileOnVlans'
    BY <1>4, <1>14, <2>1, <2>3 DEF UpgradeOnVlans, new, FileOnVlans, RunOnVlans, NetsOnVlans, CanVlans, OldVlans, NewVlans, FirstCommand, HmnVlans, NetsBooted
  <2>. QED BY <1>4, <2>1, <2>4 DEF UpgradeOnVlans
<1>. QED BY <1>0, <1>19, <1>20

\* bootstrap_dhcp has no word of a network in its name.
LEMMA OneWord == ASSUME NEW seqs, seqs \in Seq({seqs[1]}), Len(seqs) = 1 PROVE FlattenSeq(seqs) = seqs[1]
<1>. DEFINE flatten == CHOOSE f : f = [i \in 1..Len(seqs) |-> IF i = 1 THEN seqs[i] ELSE f[i-1] \o seqs[i]]
            one == [i \in 1..Len(seqs) |-> seqs[i]]
<1>1. FlattenSeq(seqs) = flatten[Len(seqs)]
  BY DEF FlattenSeq
<1>2. one = [i \in 1..Len(seqs) |-> IF i = 1 THEN seqs[i] ELSE one[i-1] \o seqs[i]]
  <2>1. \A i \in 1..Len(seqs) : i = 1
    OBVIOUS
  <2>. QED BY <2>1
<1>. HIDE DEF one
<1>3. flatten = [i \in 1..Len(seqs) |-> IF i = 1 THEN seqs[i] ELSE flatten[i-1] \o seqs[i]]
  BY <1>2
<1>. HIDE DEF flatten
<1>. QED BY <1>1, <1>3

LEMMA BootstrapStays == Renamed(Bootstrap, "can", <<"chn">>) = Bootstrap
<1>. DEFINE seqs == [i \in DOMAIN Bootstrap |-> IF Bootstrap[i] = "can" THEN <<"chn">> ELSE <<Bootstrap[i]>>]
<1>1. DOMAIN Bootstrap = 1..1 /\ Bootstrap[1] = "bootstrap_dhcp" /\ Bootstrap = <<Bootstrap[1]>>
  BY DEF Bootstrap
<1>2. DOMAIN seqs = 1..1 /\ seqs[1] = Bootstrap
  BY <1>1
<1>3. seqs \in Seq({seqs[1]}) /\ Len(seqs) = 1
  <2>1. seqs = [i \in 1..1 |-> seqs[1]]
    <3>1. \A i \in 1..1 : i = 1
      OBVIOUS
    <3>2. seqs = [i \in 1..1 |-> seqs[i]]
      BY <1>1
    <3>. HIDE DEF seqs
    <3>. QED BY <3>1, <3>2
  <2>. HIDE DEF seqs
  <2>2. [i \in 1..1 |-> seqs[1]] \in Seq({seqs[1]}) /\ Len([i \in 1..1 |-> seqs[1]]) = 1
    OBVIOUS
  <2>. QED BY <2>1, <2>2
<1>4. Renamed(Bootstrap, "can", <<"chn">>) = FlattenSeq(seqs)
  BY DEF Renamed
<1>. HIDE DEF seqs
<1>. QED BY <1>2, <1>3, <1>4, OneWord

\* The subnets of the CHN are those of the CAN, renamed and on the VLAN of the CHN.
ChnSubnet(s, t, vlan) ==
    Filled(t) /\ t.vlan = vlan /\ t.key = s.name /\ t.name = Renamed(s.name, "can", <<"chn">>)
LEMMA ReAddressedLabels ==
    ASSUME NEW s, Filled(s), NEW block, NEW gateway
    PROVE  LET t == ReAddressed([s EXCEPT !.cidr = block, !.gateway = gateway]) IN SameLabels(s, t) /\ Filled(t)
<1>. DEFINE t == [s EXCEPT !.cidr = block, !.gateway = gateway]
<1>1. SameLabels(s, t) /\ Filled(t)
  BY DEF SameLabels, Labelled, Filled
<1>. HIDE DEF t
<1>2. SameLabels(t, ReAddressed(t)) /\ Filled(ReAddressed(t))
  BY <1>1, AddressedFilled DEF ReAddressed, Filled
<1>. QED BY <1>1, <1>2 DEF SameLabels, t

LEMMA ChnLabels ==
    ASSUME NEW can, NEW cidr, NEW vlan, NEW edge, NEW gone, NEW pools
    PROVE  LET q == Chn(can, cidr, vlan, edge, gone, pools).subnets
           IN  /\ DOMAIN q = DOMAIN can.subnets /\ q = [i \in DOMAIN q |-> q[i]]
               /\ \A i \in DOMAIN can.subnets : Filled(can.subnets[i]) => ChnSubnet(can.subnets[i], q[i], vlan)
<1>. DEFINE subnets == [j \in DOMAIN can.subnets |->
                          [Clone(can.subnets[j]) EXCEPT
                              !.name = Renamed(@, "can", <<"chn">>), !.vlan = vlan,
                              !.reservations = NamesReplaced(Without(@, gone), "can", <<"chn">>)]]
            At(s, block) == ReAddressed([s EXCEPT !.cidr = block, !.gateway = block.base + 1])
            place(j) == Cardinality({k \in 1..j : subnets[k].name # Bootstrap})
            lower(s) == [At(s, cidr) EXCEPT !.cidr = Halves(cidr)[1]]
            switches == (CASE edge = 0 -> {"1", "2"} [] edge = 1 -> {"2"} [] OTHER -> {})
            boot(s) == [At(s, cidr) EXCEPT
                         !.dhcp = <<next_free_ipv4_address(lower(s)), last_free_ipv4_address(lower(s))>>,
                         !.reservations = Without(@, {<<"can", "switch", x>> : x \in switches})]
            all == [j \in DOMAIN subnets |-> IF subnets[j].name = Bootstrap THEN boot(subnets[j])
                                  ELSE At(subnets[j], IF place(j) \in DOMAIN pools THEN pools[place(j)] ELSE Raised)]
            q == Chn(can, cidr, vlan, edge, gone, pools).subnets
<1>1. q = all
  <2>1. Chn(can, cidr, vlan, edge, gone, pools) = Net(cidr, all)
    BY DEF Chn
  <2>. HIDE DEF all
  <2>2. Net(cidr, all).subnets = all
    BY NetRecord
  <2>. QED BY <2>1, <2>2
<1>. HIDE DEF q
<1>2. DOMAIN q = DOMAIN can.subnets /\ q = [j \in DOMAIN q |-> q[j]]
  <2>1. DOMAIN all = DOMAIN can.subnets /\ all = [j \in DOMAIN all |-> all[j]]
    <3>1. DOMAIN subnets = DOMAIN can.subnets
      OBVIOUS
    <3>. HIDE DEF subnets, At, boot, place
    <3>2. DOMAIN all = DOMAIN subnets /\ all = [j \in DOMAIN all |-> all[j]]
      OBVIOUS
    <3>. QED BY <3>1, <3>2
  <2>. HIDE DEF all
  <2>. QED BY <1>1, <2>1
<1>3. ASSUME NEW i \in DOMAIN can.subnets, Filled(can.subnets[i])
      PROVE  ChnSubnet(can.subnets[i], q[i], vlan)
  <2>1. ChnSubnet(can.subnets[i], subnets[i], vlan)
    <3>. DEFINE c == Clone(can.subnets[i])
    <3>1. Filled(c) /\ c.name = can.subnets[i].name /\ c.key = can.subnets[i].name
      BY <1>3, CloneLabels
    <3>2. subnets[i] = [c EXCEPT !.name = Renamed(@, "can", <<"chn">>), !.vlan = vlan,
                              !.reservations = NamesReplaced(Without(@, gone), "can", <<"chn">>)]
      OBVIOUS
    <3>. HIDE DEF subnets, c
    <3>3. Bare(NamesReplaced(Without(c.reservations, gone), "can", <<"chn">>))
      BY <3>1, BareWithout, BareRenamed DEF Filled
    <3>. QED BY <3>1, <3>2, <3>3 DEF Labelled, ChnSubnet, Filled
  <2>. DEFINE s == subnets[i]
  <2>2. Filled(s)
    BY <2>1 DEF ChnSubnet
  <2>3. \A block : SameLabels(s, At(s, block)) /\ Filled(At(s, block))
    <3>. HIDE DEF s
    <3>. QED BY <2>2, ReAddressedLabels
  <2>4. SameLabels(s, boot(s)) /\ Filled(boot(s))
    <3>. DEFINE w == At(s, cidr)
    <3>1. SameLabels(s, w) /\ Filled(w)
      BY <2>3
    <3>. HIDE DEF w, s
    <3>2. \A d, rs : Bare(rs) => LET b == [w EXCEPT !.dhcp = d, !.reservations = rs] IN SameLabels(w, b) /\ Filled(b)
      BY <3>1 DEF SameLabels, Labelled, Filled
    <3>3. PICK d, names : boot(s) = [w EXCEPT !.dhcp = d, !.reservations = Without(w.reservations, names)]
      BY DEF w
    <3>4. SameLabels(w, boot(s)) /\ Filled(boot(s))
      BY <3>1, <3>2, <3>3, BareWithout DEF Filled
    <3>. HIDE DEF boot
    <3>. QED BY <3>1, <3>4 DEF SameLabels
  <2>5. i \in DOMAIN subnets
    OBVIOUS
  <2>. DEFINE t == q[i]
  <2>6. t = boot(s) \/ \E block : t = At(s, block)
    BY <1>1, <2>5
  <2>. HIDE DEF s, t, subnets, At, boot
  <2>7. SameLabels(s, t) /\ Filled(t)
    BY <2>3, <2>4, <2>6
  <2>. QED BY <2>1, <2>7 DEF SameLabels, ChnSubnet, s, t
<1>. QED BY <1>2, <1>3 DEF q

LEMMA ChnOnVlans ==
    ASSUME NEW can, NEW cidr, NEW vlan, NEW edge, NEW gone, NEW pools, NEW W, OnVlans(can.subnets, W)
    PROVE  LET chn == Chn(can, cidr, vlan, edge, gone, pools)
           IN  /\ OnVlans(chn.subnets, {vlan}) /\ (Booted(can.subnets) => Booted(chn.subnets))
               /\ \A i \in DOMAIN chn.subnets : i \in DOMAIN can.subnets
<1>. DEFINE list == can.subnets
            q == Chn(can, cidr, vlan, edge, gone, pools).subnets
<1>1. \A i \in DOMAIN list : Filled(list[i])
  BY EachOnVlan
<1>2. /\ DOMAIN q = DOMAIN list /\ q = [i \in DOMAIN q |-> q[i]]
      /\ \A i \in DOMAIN list : ChnSubnet(list[i], q[i], vlan)
  <2>. HIDE DEF q
  <2>. QED BY <1>1, ChnLabels DEF q
<1>. HIDE DEF q, list
<1>3. \A i \in DOMAIN list : Filled(q[i]) /\ q[i].vlan \in {vlan}
  BY <1>2 DEF ChnSubnet
<1>4. OnVlans(list, W)
  BY DEF list
<1>5. OnVlans(q, {vlan})
  BY <1>2, <1>3, <1>4, OnVlansMap
<1>6. Booted(list) => Booted(q)
  BY <1>2, BootstrapStays DEF Booted, ChnSubnet
<1>7. \A i \in DOMAIN q : i \in DOMAIN list
  BY <1>2
<1>. QED BY <1>5, <1>6, <1>7 DEF q, list

LEMMA ChnRunOnVlans == ASSUME UpgradeRoutes, UpgradeOnVlans, CreateChn PROVE UpgradeOnVlans'
<1>. DEFINE chn == create_chn_network(slsNets, slsOptions)
            new == [slsNets EXCEPT !["CHN"] = chn]
<1>0. slsPc = "chn" /\ slsPc \notin Resting \cup WithoutCmn \cup WithNewCan
  BY DEF CreateChn, Resting, WithoutCmn, WithNewCan
<1>1. NetsKnown(slsNets) /\ RunOnVlans(slsNets, "chn") /\ slsNets["CMN"] # NoNetwork
  BY <1>0 DEF UpgradeRoutes, UpgradeOnVlans, RunOnVlans
<1>2. CASE Does("chn", slsNets, "can")
  BY <1>1, <1>2, NetsSameRefl, NetsKinRefl, KinDoesOnVlans DEF Resting, WithoutCmn, WithNewCan
<1>3. CASE slsNets["CAN"] # NoNetwork /\ Does("chn", new, "can")
  <2>1. OnVlans(slsNets["CAN"].subnets, CanVlans(slsNets, "chn")) /\ Booted(slsNets["CAN"].subnets)
    BY <1>1, <1>3 DEF RunOnVlans, NetsOnVlans, NetsBooted, UserNets
  <2>2. OnVlans(chn.subnets, {slsOptions.chnVlan}) /\ Booted(chn.subnets)
    BY <2>1, ChnOnVlans DEF create_chn_network
  <2>. HIDE DEF chn
  <2>3. new["CHN"] = chn /\ \A n \in {"CAN", "CMN", "HMN", "HSN", "BICAN"} : new[n] = slsNets[n]
    BY <1>1 DEF NetsKnown, SlsNetwork
  <2>. HIDE DEF new
  <2>4. CanVlans(new, "can") = CanVlans(slsNets, "chn")
    BY <2>3 DEF CanVlans, WithNewCan
  <2>5. NetsOnVlans(new, CanVlans(new, "can")) /\ NetsBooted(new)
    BY <1>1, <2>2, <2>3, <2>4 DEF RunOnVlans, NetsOnVlans, NetsBooted, UserNets
  <2>6. RunOnVlans(new, "can")
    BY <1>1, <2>3, <2>5 DEF RunOnVlans
  <2>. QED BY <1>3, <2>6, DoesOnVlans
<1>. QED BY <1>2, <1>3, FailsOnVlans DEF CreateChn

\* Each step of the upgrade.
LEMMA StepOnVlans == ASSUME UpgradeRoutes, UpgradeOnVlans, SlsNext PROVE UpgradeOnVlans'
  BY LoadOnVlans, SwitchesOnVlans, BalancersOnVlans, StartCmnOnVlans, StartCanOnVlans, CloneSubnetOnVlans,
     EndCloneOnVlans, StaticPoolOnVlans, KubeApiOnVlans, ChnRunOnVlans, BgpOnVlans, UaiOnVlans,
     RemoveUnusedOnVlans, BicanOnVlans, WriteOnVlans DEF SlsNext

LEMMA InitOnVlans == SlsInit => UpgradeOnVlans
<1>. SUFFICES ASSUME SlsInit PROVE UpgradeOnVlans
  OBVIOUS
<1>1. /\ slsDump \in SlsInputs /\ slsFile.nets = slsDump.nets /\ slsPc = "load"
      /\ \A n \in {"CMN", "CHN", "BICAN"} : slsFile.nets[n] = NoNetwork
  BY SlsInputsAssumption DEF SlsInit
<1>2. ASSUME NEW n \in {"CAN", "HMN", "HSN"}
      PROVE  OnVlans(slsDump.nets[n].subnets, {s.vlan : s \in ToSet(slsDump.nets[n].subnets)})
  <2>. DEFINE list == slsDump.nets[n].subnets
              X == ToSet(list)
  <2>1. (HaveBlocks(list) \/ list \in Seq(X)) /\ \A s \in X : Labelled(s) /\ NoUans(s.reservations)
    BY <1>1, SlsInputsAssumption DEF InBlocks, SubnetsIn
  <2>. HIDE DEF list
  <2>2. list \in Seq(X)
    BY <2>1 DEF HaveBlocks
  <2>3. \A s \in X : Filled(s)
    <3>1. \A rs : NoUans(rs) => Bare(rs)
      BY DEF NoUans, Bare, Entries, ToSet
    <3>. QED BY <2>1, <3>1 DEF Filled
  <2>. QED BY <2>2, <2>3 DEF OnVlans, list
<1>3. NetsOnVlans(slsFile.nets, OldVlans)
  <2>1. \A n : OnVlans(NoNetwork.subnets, n)
    BY NothingOnVlans, NoNetworkIsNet
  <2>. QED BY <1>1, <1>2, <2>1 DEF NetsOnVlans, OldVlans, HmnVlans
<1>4. FileOnVlans
  BY <1>1, <1>3 DEF FileOnVlans
<1>. QED BY <1>1, <1>4 DEF UpgradeOnVlans, Resting

\* A network with a subnet has a VLAN; those of a user network are one.
LEMMA OneVlan ==
    ASSUME NEW net, NEW v, OnVlans(net.subnets, {v}), Booted(net.subnets)
    PROVE  Vlans(net) = {v} /\ Cardinality(Vlans(net)) = 1
<1>1. \A i \in DOMAIN net.subnets : net.subnets[i] \in ToSet(net.subnets)
  BY DEF ToSet
<1>2. ToSet(net.subnets) # {} /\ \A s \in ToSet(net.subnets) : s.vlan = v
  BY <1>1 DEF Booted, OnVlans
<1>3. Vlans(net) = {v}
  BY <1>2 DEF Vlans, SubnetsOf
<1>. QED BY <1>3, FS_Singleton

LEMMA OnVlansAgree == UpgradeRoutes /\ UpgradeOnVlans => VlansAgree
<1>. DEFINE nets == slsFile.nets
<1>. SUFFICES ASSUME UpgradeRoutes, UpgradeOnVlans, slsPc = "written"
              PROVE  /\ \A net \in CustomerNetworks(nets) : Cardinality(Vlans(net)) = 1
                     /\ Vlans(nets["CMN"]) \cap Vlans(nets["CAN"]) = {}
  BY DEF VlansAgree
<1>1. /\ nets["CMN"] # NoNetwork /\ OldVlans \cap NewVlans = {}
      /\ NetsOnVlans(nets, NewVlans) /\ NetsBooted(nets)
  BY DEF UpgradeOnVlans, FileOnVlans
<1>. HIDE DEF nets
<1>2. PICK v : OldVlans = {v}
  <2>1. \A w, x \in OldVlans : w = x
    BY OneOldVlan DEF UpgradeOnVlans
  <2>2. OldVlans # {}
    <3>1. OnVlans(nets["CMN"].subnets, OldVlans) /\ Booted(nets["CMN"].subnets)
      BY <1>1 DEF NetsOnVlans, NetsBooted, UserNets
    <3>. QED BY <3>1, EachOnVlan DEF Booted
  <2>. QED BY <2>1, <2>2
<1>3. ASSUME NEW n \in UserNets, nets[n] # NoNetwork PROVE Cardinality(Vlans(nets[n])) = 1
  <2>1. Booted(nets[n].subnets) /\ \E w : OnVlans(nets[n].subnets, {w})
    BY <1>1, <1>2, <1>3 DEF NetsBooted, NetsOnVlans, UserNets, NewVlans
  <2>. QED BY <2>1, OneVlan
<1>4. \A net \in CustomerNetworks(nets) : Cardinality(Vlans(net)) = 1
  BY <1>3 DEF CustomerNetworks, In, UserNets
<1>5. Vlans(nets["CMN"]) \cap Vlans(nets["CAN"]) = {}
  <2>1. Vlans(nets["CMN"]) \subseteq OldVlans /\ Vlans(nets["CAN"]) \subseteq NewVlans
    BY <1>1 DEF NetsOnVlans, OnVlans, Vlans, SubnetsOf
  <2>. QED BY <1>1, <2>1
<1>. QED BY <1>4, <1>5

LEMMA InitVlansInChanges == ChangesInit => VlansInChanges
  BY InitRoutes, InitOnVlans DEF ChangesInit, VlansInChanges, UpgradeAtRest

LEMMA StutterOnVlans == ASSUME UpgradeOnVlans, UNCHANGED slsVars PROVE UpgradeOnVlans'
<1>1. UNCHANGED <<slsFile, slsNets, slsOptions, slsCommands, slsClone, slsPc, slsDump>>
  BY DEF slsVars
<1>2. FileOnVlans' /\ OldVlans' = OldVlans /\ NewVlans' = NewVlans
  BY <1>1 DEF UpgradeOnVlans, FileOnVlans, NetsOnVlans, OldVlans, NewVlans, FirstCommand, HmnVlans, NetsBooted
<1>3. slsPc' \notin Resting => RunOnVlans(slsNets, slsPc)'
  BY <1>1 DEF UpgradeOnVlans, RunOnVlans, NetsOnVlans, CanVlans, OldVlans, NewVlans, FirstCommand, HmnVlans, NetsBooted
<1>. QED BY <1>1, <1>2, <1>3 DEF UpgradeOnVlans

LEMMA StepVlansInChanges == ASSUME VlansInChanges, [ChangesNext]_changesVars PROVE VlansInChanges'
<1>1. CASE ~InUpgrade
  <2>1. UNCHANGED <<changed, slsPc>>
    BY <1>1 DEF ChangesNext, changesVars, UpgradeChanges, slsVars
  <2>. QED BY <1>1, <2>1 DEF VlansInChanges, InUpgrade
<1>2. CASE InUpgrade
  <2>0. UpgradeRoutes /\ UpgradeOnVlans
    BY <1>2 DEF VlansInChanges
  <2>1. InUpgrade' /\ (SlsNext \/ UNCHANGED slsVars)
    BY <1>2 DEF ChangesNext, changesVars, InUpgrade, UpgradeChanges
  <2>2. UpgradeRoutes' /\ UpgradeOnVlans'
    BY <2>0, <2>1, StepRoutes, StutterRoutes, StepOnVlans, StutterOnVlans
  <2>. QED BY <2>1, <2>2 DEF VlansInChanges
<1>. QED BY <1>1, <1>2

LEMMA InChangesVlansAgree == VlansInChanges => VlansAgree
<1>1. slsPc = "load" => VlansAgree
  BY DEF VlansAgree
<1>. QED BY <1>1, OnVlansAgree DEF VlansInChanges

\* Every customer network that the upgrade writes is on one VLAN, wherever its subnets
\* were copied from, and the CMN and the CAN are on two; the subnets of cabinets have
\* a VLAN each and no node is in two cabinets.
THEOREM VlansStayApart == ChangesSpec => []VlansApart
<1>1. VlansInChanges /\ [ChangesNext]_changesVars => VlansInChanges'
  BY StepVlansInChanges
<1>2. ChangesSpec => []VlansInChanges
  BY <1>1, InitVlansInChanges, PTL DEF ChangesSpec
<1>3. VlansInChanges /\ CabinetSubnetsApart /\ CabinetsApart => VlansApart
  BY InChangesVlansAgree DEF VlansApart
<1>. QED BY <1>2, <1>3, CabinetsStayApart, PTL

-----------------------------------------------------------------------------
(* The words of a name.                                                     *)

\* str.replace of one word by another, word by word.
LEMMA Singles ==
    ASSUME NEW n \in Nat, NEW X, NEW w \in [1..n -> X]
    PROVE  FlattenSeq([i \in 1..n |-> <<w[i]>>]) = [i \in 1..n |-> w[i]]
<1>. DEFINE seqs == [i \in 1..n |-> <<w[i]>>]
            flatten == CHOOSE f : f = [i \in 1..n |-> IF i = 1 THEN seqs[i] ELSE f[i-1] \o seqs[i]]
            upto == [i \in 1..n |-> [j \in 1..i |-> w[j]]]
<1>1. Len(seqs) = n /\ \A i \in 1..n : seqs[i] = <<w[i]>>
  OBVIOUS
<1>2. CASE n = 0
  <2>1. Len(seqs) = 0 /\ seqs = [i \in 1..n |-> w[i]]
    BY <1>2
  <2>. HIDE DEF seqs
  <2>2. FlattenSeq(seqs) = seqs
    BY <2>1 DEF FlattenSeq
  <2>. QED BY <2>1, <2>2 DEF seqs
<1>3. CASE n # 0
  <2>1. FlattenSeq(seqs) = flatten[n]
    <3>. HIDE DEF seqs
    <3>. QED BY <1>1, <1>3 DEF FlattenSeq
  <2>2. ASSUME NEW i \in 1..n PROVE upto[i] = IF i = 1 THEN seqs[i] ELSE upto[i-1] \o seqs[i]
    <3>1. CASE i = 1
      <4>1. <<w[1]>> = [j \in 1..1 |-> w[j]]
        <5>1. <<w[1]>> = [j \in 1..1 |-> <<w[1]>>[j]] /\ \A j \in 1..1 : j = 1 /\ <<w[1]>>[j] = w[j]
          OBVIOUS
        <5>. QED BY <5>1
      <4>. QED BY <3>1, <4>1
    <3>2. CASE i # 1
      <4>. DEFINE p == [j \in 1..i-1 |-> w[j]]
      <4>1. p \in Seq(X) /\ Len(p) = i - 1 /\ <<w[i]>> \in Seq(X) /\ upto[i - 1] = p
        <5>1. i - 1 \in Nat /\ i - 1 \in 1..n /\ \A j \in 1..i-1 : w[j] \in X
          BY <3>2
        <5>. QED BY <5>1
      <4>. HIDE DEF p
      <4>2. /\ p \o <<w[i]>> = [j \in 1..i |-> (p \o <<w[i]>>)[j]]
            /\ (\A j \in 1..i-1 : (p \o <<w[i]>>)[j] = p[j]) /\ (p \o <<w[i]>>)[i] = w[i]
        BY <4>1
      <4>3. \A j \in 1..i : (p \o <<w[i]>>)[j] = w[j]
        BY <4>2 DEF p
      <4>4. p \o <<w[i]>> = [j \in 1..i |-> w[j]]
        BY <4>2, <4>3
      <4>. QED BY <3>2, <4>1, <4>4
    <3>. QED BY <3>1, <3>2
  <2>3. upto = [i \in 1..n |-> IF i = 1 THEN seqs[i] ELSE upto[i-1] \o seqs[i]]
    <3>1. upto = [i \in 1..n |-> upto[i]]
      OBVIOUS
    <3>. HIDE DEF upto, seqs
    <3>. QED BY <2>2, <3>1
  <2>. HIDE DEF upto, seqs
  <2>4. flatten = [i \in 1..n |-> IF i = 1 THEN seqs[i] ELSE flatten[i-1] \o seqs[i]]
    BY <2>3
  <2>. DEFINE T == {k \in 0..n : k = 0 \/ flatten[k] = upto[k]}
  <2>. HIDE DEF flatten
  <2>5. ASSUME NEW k \in 1..n, k - 1 \in T PROVE k \in T
    <3>1. flatten[k] = IF k = 1 THEN seqs[k] ELSE flatten[k-1] \o seqs[k]
      BY <2>4
    <3>2. k # 1 => flatten[k-1] = upto[k-1]
      BY <2>5
    <3>. QED BY <2>2, <3>1, <3>2
  <2>6. 0..n \subseteq T
    <3>1. 0 \in T
      OBVIOUS
    <3>. HIDE DEF T
    <3>. QED BY <2>5, <3>1, Induction
  <2>7. n \in T
    BY <2>6
  <2>8. flatten[n] = upto[n] /\ upto[n] = [i \in 1..n |-> w[i]]
    BY <1>3, <2>7 DEF upto
  <2>. QED BY <2>1, <2>8 DEF seqs
<1>. QED BY <1>2, <1>3

OldName(name) == name \in Seq(ToSet(name)) /\ "cmn" \notin ToSet(name)
LEMMA InCmnWords ==
    ASSUME NEW X, NEW name \in Seq(X)
    PROVE  InCmn(name) = [i \in 1..Len(name) |-> IF name[i] = "can" THEN "cmn" ELSE name[i]]
<1>. DEFINE n == Len(name)
            w == [i \in 1..n |-> IF name[i] = "can" THEN "cmn" ELSE name[i]]
<1>1. n \in Nat /\ w \in [1..n -> X \cup {"cmn"}] /\ DOMAIN name = 1..n
  OBVIOUS
<1>2. [i \in DOMAIN name |-> IF name[i] = "can" THEN <<"cmn">> ELSE <<name[i]>>] = [i \in 1..n |-> <<w[i]>>]
  BY <1>1
<1>3. InCmn(name) = FlattenSeq([i \in 1..n |-> <<w[i]>>])
  BY <1>2 DEF InCmn, Renamed
<1>. HIDE DEF w
<1>4. InCmn(name) = [i \in 1..n |-> w[i]]
  BY <1>1, <1>3, Singles
<1>. QED BY <1>4 DEF w

\* Names that do not speak of the CMN stay distinct.
LEMMA InCmnDistinct ==
    ASSUME NEW name, OldName(name), NEW other, OldName(other), InCmn(name) = InCmn(other)
    PROVE  name = other
<1>. DEFINE X == ToSet(name) \cup ToSet(other)
<1>1. name \in Seq(X) /\ other \in Seq(X)
  <2>1. name \in Seq(ToSet(name)) /\ other \in Seq(ToSet(other))
    BY DEF OldName
  <2>. QED BY <2>1
<1>2. "cmn" \notin X
  BY DEF OldName
<1>. HIDE DEF X
<1>3. /\ InCmn(name) = [i \in 1..Len(name) |-> IF name[i] = "can" THEN "cmn" ELSE name[i]]
      /\ InCmn(other) = [i \in 1..Len(other) |-> IF other[i] = "can" THEN "cmn" ELSE other[i]]
  BY <1>1, InCmnWords
<1>4. Len(name) = Len(other) /\ Len(name) \in Nat
  <2>1. Len(name) \in Nat /\ Len(other) \in Nat /\ 1..Len(name) = 1..Len(other)
    <3>1. DOMAIN InCmn(name) = 1..Len(name) /\ DOMAIN InCmn(other) = 1..Len(other)
      BY <1>3
    <3>. QED BY <1>1, <3>1
  <2>. QED BY <2>1
<1>5. ASSUME NEW i \in 1..Len(name) PROVE name[i] = other[i]
  <2>1. InCmn(name)[i] = (IF name[i] = "can" THEN "cmn" ELSE name[i])
    BY <1>3
  <2>2. InCmn(other)[i] = (IF other[i] = "can" THEN "cmn" ELSE other[i])
    BY <1>3, <1>4
  <2>3. name[i] # "cmn" /\ other[i] # "cmn"
    BY <1>1, <1>2, <1>4
  <2>. QED BY <2>1, <2>2, <2>3
<1>. QED BY <1>1, <1>4, <1>5

LEMMA KubeApiStays ==
    ASSUME NEW name, OldName(name), name # KubeApi
    PROVE  InCmn(name) # KubeApi
<1>. DEFINE k == KubeApi
            X == {"kubeapi", "vip"}
<1>1. k \in Seq(X) /\ Len(k) = 2 /\ k = [i \in 1..2 |-> k[i]] /\ DOMAIN k = 1..2 /\ \A i \in 1..2 : k[i] \in X
  BY DEF KubeApi
<1>. HIDE DEF k
<1>2. "cmn" \notin X /\ "can" \notin X
  OBVIOUS
<1>3. OldName(k)
  <2>1. k \in Seq(ToSet(k))
    <3>1. \A i \in 1..2 : k[i] \in ToSet(k)
      BY <1>1 DEF ToSet
    <3>. QED BY <1>1, <3>1
  <2>2. "cmn" \notin ToSet(k)
    BY <1>1, <1>2 DEF ToSet
  <2>. QED BY <2>1, <2>2 DEF OldName
<1>4. InCmn(k) = k
  <2>1. \A i \in 1..2 : k[i] # "can"
    BY <1>1, <1>2
  <2>2. InCmn(k) = [i \in 1..2 |-> IF k[i] = "can" THEN "cmn" ELSE k[i]]
    BY <1>1, InCmnWords
  <2>. QED BY <1>1, <2>1, <2>2
<1>. QED BY <1>3, <1>4, InCmnDistinct DEF k

-----------------------------------------------------------------------------
(* Reservations that stay, with a name and an address.                      *)

LEMMA ReservationByName ==
    ASSUME NEW r, {"key", "name", "ip"} \subseteq DOMAIN r
    PROVE  LET q == ByName(r)
           IN  q.key = r.name /\ q.name = r.name /\ q.ip = r.ip /\ {"key", "name", "ip"} \subseteq DOMAIN q
  BY DEF ByName

LEMMA ReservedEach ==
    ASSUME NEW rs, NEW N, Reserved(rs, N)
    PROVE  \A j \in DOMAIN rs : {"key", "name", "ip"} \subseteq DOMAIN rs[j] /\ rs[j].name \in N
  BY DEF Reserved, Entries

LEMMA ReservedKeyed ==
    ASSUME NEW rs, NEW N, Reserved(rs, N)
    PROVE  /\ Reserved(Keyed(rs), N)
           /\ \A x : x.name \in x.keys /\ Carries(rs, x) => Carries(Keyed(rs), x)
<1>. DEFINE q == Keyed(rs)
<1>1. MadeOf(q, rs) /\ Entries(q)
  BY KeyedEntries DEF Reserved
<1>. HIDE DEF q
<1>2. ASSUME NEW j \in DOMAIN q
      PROVE  \E i \in DOMAIN rs : /\ q[j].key = rs[i].name /\ q[j].name = rs[i].name /\ q[j].ip = rs[i].ip
                                  /\ "ip" \in DOMAIN q[j] /\ rs[i].name \in N
  <2>1. PICK i \in DOMAIN rs : q[j] = ByName(rs[i])
    BY <1>1 DEF MadeOf
  <2>2. {"key", "name", "ip"} \subseteq DOMAIN rs[i] /\ rs[i].name \in N
    BY ReservedEach
  <2>. QED BY <2>1, <2>2, ReservationByName
<1>3. Reserved(q, N)
  <2>1. \A i, j \in DOMAIN rs : rs[i].name = rs[j].name => rs[i].ip = rs[j].ip
    BY DEF Reserved
  <2>. QED BY <1>1, <1>2, <2>1 DEF Reserved
<1>4. ASSUME NEW x, x.name \in x.keys, Carries(rs, x) PROVE Carries(q, x)
  <2>1. PICK i \in DOMAIN rs : rs[i].name = x.name /\ rs[i].ip = x.ip
    BY <1>4 DEF Carries
  <2>2. PICK j \in DOMAIN q : q[j].key = x.name
    BY <1>1, <2>1 DEF MadeOf
  <2>3. q[j].name = x.name /\ q[j].ip = x.ip
    BY <1>2, <2>1, <2>2 DEF Reserved
  <2>. QED BY <1>4, <2>2, <2>3 DEF Carries
<1>. QED BY <1>3, <1>4 DEF q

LEMMA ReservedByNames ==
    ASSUME NEW rs, NEW N, Reserved(rs, N)
    PROVE  LET q == [i \in DOMAIN rs |-> ByName(rs[i])]
           IN  Reserved(q, N) /\ \A x : x.name \in x.keys /\ Carries(rs, x) => Carries(q, x)
<1>. DEFINE q == [i \in DOMAIN rs |-> ByName(rs[i])]
<1>1. DOMAIN q = DOMAIN rs /\ q = [i \in DOMAIN q |-> q[i]]
  OBVIOUS
<1>2. \A i \in DOMAIN rs : /\ q[i].key = rs[i].name /\ q[i].name = rs[i].name /\ q[i].ip = rs[i].ip
                           /\ {"key", "name", "ip"} \subseteq DOMAIN q[i] /\ rs[i].name \in N
  BY ReservedEach, ReservationByName
<1>. HIDE DEF q
<1>3. Entries(q)
  BY <1>1, <1>2, EntriesMap DEF Reserved
<1>4. Reserved(q, N)
  BY <1>1, <1>2, <1>3 DEF Reserved
<1>5. \A x : x.name \in x.keys /\ Carries(rs, x) => Carries(q, x)
  BY <1>1, <1>2 DEF Carries
<1>. QED BY <1>4, <1>5 DEF q

LEMMA ReservedWithout ==
    ASSUME NEW rs, NEW N, Reserved(rs, N), NEW keys
    PROVE  /\ Reserved(Without(rs, keys), N)
           /\ \A x : x.keys \cap keys = {} /\ Carries(rs, x) => Carries(Without(rs, keys), x)
<1>. DEFINE q == Without(rs, keys)
<1>1. /\ Entries(q) /\ \A j \in DOMAIN q : \E i \in DOMAIN rs : q[j] = rs[i]
      /\ \A i \in DOMAIN rs : rs[i].key \notin keys => \E j \in DOMAIN q : q[j] = rs[i]
  BY EntriesThose DEF Reserved
<1>. HIDE DEF q
<1>2. Reserved(q, N)
  BY <1>1 DEF Reserved
<1>3. \A x : x.keys \cap keys = {} /\ Carries(rs, x) => Carries(q, x)
  BY <1>1 DEF Carries
<1>. QED BY <1>2, <1>3 DEF q

LEMMA ReservationNamed ==
    ASSUME NEW r, {"key", "name", "ip"} \subseteq DOMAIN r, NEW n
    PROVE  LET q == [r EXCEPT !.name = n]
           IN  q.key = r.key /\ q.name = n /\ q.ip = r.ip /\ {"key", "name", "ip"} \subseteq DOMAIN q
  OBVIOUS

LEMMA ReservedInCmn ==
    ASSUME NEW rs, NEW N, Reserved(rs, N), \A n \in N : OldName(n)
    PROVE  LET q == NamesReplaced(rs, "can", <<"cmn">>)
           IN  /\ Reserved(q, {InCmn(n) : n \in N})
               /\ \A x, y : y.keys = x.keys /\ y.name = InCmn(x.name) /\ y.ip = x.ip /\ Carries(rs, x)
                                => Carries(q, y)
<1>. DEFINE q == NamesReplaced(rs, "can", <<"cmn">>)
            M == {InCmn(n) : n \in N}
<1>1. DOMAIN q = DOMAIN rs /\ q = [i \in DOMAIN q |-> q[i]]
      /\ \A i \in DOMAIN rs : q[i] = [rs[i] EXCEPT !.name = InCmn(rs[i].name)]
  BY DEF NamesReplaced, InCmn
<1>2. \A i \in DOMAIN rs : /\ q[i].key = rs[i].key /\ q[i].name = InCmn(rs[i].name) /\ q[i].ip = rs[i].ip
                           /\ {"key", "name", "ip"} \subseteq DOMAIN q[i] /\ rs[i].name \in N
  <2>. SUFFICES ASSUME NEW i \in DOMAIN rs
                PROVE  /\ q[i].key = rs[i].key /\ q[i].name = InCmn(rs[i].name) /\ q[i].ip = rs[i].ip
                       /\ {"key", "name", "ip"} \subseteq DOMAIN q[i] /\ rs[i].name \in N
    OBVIOUS
  <2>. DEFINE r == rs[i]
              n == InCmn(r.name)
  <2>1. {"key", "name", "ip"} \subseteq DOMAIN r /\ r.name \in N /\ q[i] = [r EXCEPT !.name = n]
    BY <1>1, ReservedEach
  <2>. HIDE DEF q, r, n
  <2>. QED BY <2>1, ReservationNamed DEF r, n
<1>. HIDE DEF q
<1>3. Entries(q)
  BY <1>1, <1>2, EntriesMap DEF Reserved
<1>4. \A i, j \in DOMAIN q : q[i].name = q[j].name => q[i].ip = q[j].ip
  <2>1. \A i, j \in DOMAIN rs : rs[i].name = rs[j].name => rs[i].ip = rs[j].ip
    BY DEF Reserved
  <2>. QED BY <1>1, <1>2, <2>1, InCmnDistinct
<1>5. Reserved(q, M)
  <2>1. \A i \in DOMAIN q : q[i].name \in M
    BY <1>1, <1>2
  <2>. HIDE DEF M
  <2>. QED BY <1>1, <1>2, <1>3, <1>4, <2>1 DEF Reserved
<1>6. \A x, y : y.keys = x.keys /\ y.name = InCmn(x.name) /\ y.ip = x.ip /\ Carries(rs, x) => Carries(q, y)
  BY <1>1, <1>2 DEF Carries
<1>. QED BY <1>5, <1>6 DEF q, M

-----------------------------------------------------------------------------
(* Lists of subnets, one of which keeps its reservations.                   *)

LEMMA OnVlansEntries == ASSUME NEW list, NEW W, OnVlans(list, W) PROVE Entries(list)
  BY EachOnVlan DEF OnVlans, Entries, Labelled

\* A function that works on each subnet of a list.
MapsSubnet(s, t, k, N, M, T, U) ==
    /\ t.name = s.name /\ t.key \in {s.key, s.name}
    /\ s.key = k /\ s.name = k /\ Holds(s, N, T) => Holds(t, M, U)
LEMMA KeptMap ==
    ASSUME NEW list, NEW k, NEW N, NEW M, NEW T, NEW U, NEW q, DOMAIN q = DOMAIN list,
           \A i \in DOMAIN list : MapsSubnet(list[i], q[i], k, N, M, T, U)
    PROVE  /\ KeptIfAny(list, k, N, T) => KeptIfAny(q, k, M, U)
           /\ Kept(list, k, N, T) => Kept(q, k, M, U)
  BY DEF KeptIfAny, Kept, MapsSubnet

\* The dict of a list.
LEMMA KeptKeyed ==
    ASSUME NEW list, Entries(list), NEW k, NEW N, NEW T, Kept(list, k, N, T)
    PROVE  Kept(Keyed(list), k, N, T)
<1>. DEFINE q == Keyed(list)
<1>1. MadeOf(q, list)
  BY KeyedEntries
<1>. HIDE DEF q
<1>2. ASSUME NEW j \in DOMAIN q, k \in {q[j].key, q[j].name}
      PROVE  q[j].key = q[j].name /\ Holds(q[j], N, T)
  <2>1. PICK i \in DOMAIN list : q[j] = ByName(list[i])
    BY <1>1 DEF MadeOf
  <2>2. {"key", "name"} \subseteq DOMAIN list[i]
    BY DEF Entries
  <2>3. q[j].key = list[i].name /\ q[j].name = list[i].name
    BY <2>1, <2>2, NamedEntry
  <2>4. Holds(list[i], N, T)
    BY <1>2, <2>3 DEF Kept, KeptIfAny
  <2>5. "reservations" \in DOMAIN q[j] /\ q[j].reservations = list[i].reservations
    BY <2>1, <2>4 DEF Holds, ByName
  <2>. QED BY <2>3, <2>4, <2>5 DEF Holds
<1>3. \E j \in DOMAIN q : q[j].key = k
  <2>1. PICK i \in DOMAIN list : list[i].key = k
    BY DEF Kept
  <2>2. list[i].name = k
    BY <2>1 DEF Kept, KeptIfAny
  <2>. QED BY <1>1, <2>2 DEF MadeOf
<1>. QED BY <1>2, <1>3 DEF Kept, KeptIfAny, q

\* One more subnet.
LEMMA KeptPut ==
    ASSUME NEW list, Entries(list), NEW r, r.key = r.name, NEW k, NEW N, NEW T, KeptIfAny(list, k, N, T),
           r.key = k => Holds(r, N, T)
    PROVE  /\ KeptIfAny(Put(list, r), k, N, T)
           /\ (\E i \in DOMAIN list : list[i].key = k) \/ r.key = k => \E i \in DOMAIN Put(list, r) : Put(list, r)[i].key = k
<1>. DEFINE q == Put(list, r)
<1>1. WithEntry(list, r, q)
  BY PutEntries DEF Entries
<1>. HIDE DEF q
<1>2. KeptIfAny(q, k, N, T)
  BY <1>1 DEF WithEntry, KeptIfAny
<1>3. (\E i \in DOMAIN list : list[i].key = k) \/ r.key = k => \E i \in DOMAIN q : q[i].key = k
  BY <1>1 DEF WithEntry
<1>. QED BY <1>2, <1>3 DEF q

\* The one that is looked up.
LEMMA KeptGet ==
    ASSUME NEW list, Entries(list), NEW k, NEW N, NEW T, Kept(list, k, N, T)
    PROVE  Has(list, k) /\ Holds(Get(list, k), N, T) /\ Get(list, k).name = k /\ {"key", "name"} \subseteq DOMAIN Get(list, k)
<1>1. Has(list, k) /\ list \in Seq(ToSet(list))
  BY DEF Kept, Has, Entries
<1>2. Get(list, k) \in ToSet(list) /\ Get(list, k).key = k
  BY <1>1, GetIs
<1>3. PICK i \in DOMAIN list : Get(list, k) = list[i]
  BY <1>2 DEF ToSet
<1>. QED BY <1>1, <1>2, <1>3 DEF Kept, KeptIfAny, Entries

\* What holds whatever the key.
LEMMA HoldsMore ==
    ASSUME NEW s, NEW N, NEW T, Holds(s, N, T), NEW U,
           \A y \in U : \E x \in T : y.name = x.name /\ y.ip = x.ip /\ x.keys \subseteq y.keys
    PROVE  Holds(s, N, U)
  BY DEF Holds, Carries

\* A subnet that is written, read or made the template of another one.
NamesAreKeys(T) == \A x \in T : x.name \in x.keys
LEMMA ToSlsHolds ==
    ASSUME NEW s, NEW N, NEW T, Holds(s, N, T), NamesAreKeys(T)
    PROVE  Holds(SubnetToSls(s), N, T)
<1>. DEFINE q == [i \in DOMAIN s.reservations |-> ByName(s.reservations[i])]
<1>1. "reservations" \in DOMAIN SubnetToSls(s) /\ SubnetToSls(s).reservations = q
  BY DEF SubnetToSls, Holds
<1>2. Reserved(q, N) /\ \A x : x.name \in x.keys /\ Carries(s.reservations, x) => Carries(q, x)
  BY ReservedByNames DEF Holds
<1>. HIDE DEF q
<1>. QED BY <1>1, <1>2 DEF Holds, NamesAreKeys

LEMMA ReadHolds ==
    ASSUME NEW s, NEW N, NEW T, Holds(s, N, T), NamesAreKeys(T)
    PROVE  Holds(subnet_from_sls_data(s), N, T)
<1>. DEFINE q == Keyed(s.reservations)
<1>1. "reservations" \in DOMAIN subnet_from_sls_data(s) /\ subnet_from_sls_data(s).reservations = q
  BY DEF subnet_from_sls_data, Holds
<1>2. Reserved(q, N) /\ \A x : x.name \in x.keys /\ Carries(s.reservations, x) => Carries(q, x)
  BY ReservedKeyed DEF Holds
<1>. HIDE DEF q
<1>. QED BY <1>1, <1>2 DEF Holds, NamesAreKeys

\* What all functions of the upgrade leave in a list: the reservations of every subnet but
\* network_hardware, apart from kubeapi-vip.
SafeTerms(k, T) == k # Switches /\ \A x \in T : x.name \in x.keys /\ KubeApi \notin x.keys
Keeps(p, q) == \A k, N, T : SafeTerms(k, T) /\ Kept(p, k, N, T) => Kept(q, k, N, T)
MapsSafely(s, t) == \A k, N, T : SafeTerms(k, T) => MapsSubnet(s, t, k, N, N, T, T)

LEMMA KeepsRefl == ASSUME NEW p PROVE Keeps(p, p)
  BY DEF Keeps
LEMMA KeepsTrans == ASSUME NEW p, NEW q, NEW r, Keeps(p, q), Keeps(q, r) PROVE Keeps(p, r)
  BY DEF Keeps
LEMMA KeepsMap ==
    ASSUME NEW p, NEW q, DOMAIN q = DOMAIN p, \A i \in DOMAIN p : MapsSafely(p[i], q[i])
    PROVE  Keeps(p, q)
<1>. SUFFICES ASSUME NEW k, NEW N, NEW T, SafeTerms(k, T), Kept(p, k, N, T) PROVE Kept(q, k, N, T)
  BY DEF Keeps
<1>1. \A i \in DOMAIN p : MapsSubnet(p[i], q[i], k, N, N, T, T)
  BY DEF MapsSafely
<1>. QED BY <1>1, KeptMap

\* Each of them, on one subnet.
LEMMA SameSafely == ASSUME NEW s PROVE MapsSafely(s, s)
  BY DEF MapsSafely, MapsSubnet
LEMMA SwitchesSafely ==
    ASSUME NEW s, Labelled(s), s.key = Switches, NEW x
    PROVE  MapsSafely(s, [s EXCEPT !.reservations = x])
<1>1. SameLabels(s, [s EXCEPT !.reservations = x])
  BY OtherContents
<1>. QED BY <1>1 DEF MapsSafely, MapsSubnet, SafeTerms, SameLabels
LEMMA PoolSafely ==
    ASSUME NEW s, Labelled(s), NEW x
    PROVE  MapsSafely(s, [s EXCEPT !.pool = x])
<1>1. SameLabels(s, [s EXCEPT !.pool = x])
  BY OtherContents
<1>2. "reservations" \in DOMAIN s => LET t == [s EXCEPT !.pool = x]
                                     IN  "reservations" \in DOMAIN t /\ t.reservations = s.reservations
  OBVIOUS
<1>. QED BY <1>1, <1>2 DEF MapsSafely, MapsSubnet, SameLabels, Holds
LEMMA KubeApiSafely ==
    ASSUME NEW s, Labelled(s)
    PROVE  MapsSafely(s, [s EXCEPT !.reservations = Without(@, {KubeApi})])
<1>. DEFINE q == Without(s.reservations, {KubeApi})
            t == [s EXCEPT !.reservations = q]
<1>1. SameLabels(s, t)
  BY OtherContents
<1>. SUFFICES ASSUME NEW k, NEW N, NEW T, SafeTerms(k, T), Holds(s, N, T) PROVE Holds(t, N, T)
  BY <1>1 DEF MapsSafely, MapsSubnet, SameLabels
<1>2. "reservations" \in DOMAIN t /\ t.reservations = q
  <2>. HIDE DEF q
  <2>. QED BY DEF Holds
<1>3. Reserved(q, N) /\ \A x : x.keys \cap {KubeApi} = {} /\ Carries(s.reservations, x) => Carries(q, x)
  BY ReservedWithout DEF Holds
<1>. HIDE DEF q, t
<1>4. \A x \in T : x.keys \cap {KubeApi} = {}
  BY DEF SafeTerms
<1>. QED BY <1>2, <1>3, <1>4 DEF Holds
LEMMA ToSlsSafely == ASSUME NEW s, Labelled(s) PROVE MapsSafely(s, SubnetToSls(s))
<1>1. SubnetToSls(s).key = s.name /\ SubnetToSls(s).name = s.name
  BY DEF Labelled, SubnetToSls
<1>2. \A k, N, T : SafeTerms(k, T) /\ Holds(s, N, T) => Holds(SubnetToSls(s), N, T)
  BY ToSlsHolds DEF SafeTerms, NamesAreKeys
<1>. QED BY <1>1, <1>2 DEF MapsSafely, MapsSubnet
LEMMA ReadSafely == ASSUME NEW s, Labelled(s) PROVE MapsSafely(s, subnet_from_sls_data(s))
<1>1. subnet_from_sls_data(s).key = s.name /\ subnet_from_sls_data(s).name = s.name
  BY DEF Labelled, subnet_from_sls_data
<1>2. \A k, N, T : SafeTerms(k, T) /\ Holds(s, N, T) => Holds(subnet_from_sls_data(s), N, T)
  BY ReadHolds DEF SafeTerms, NamesAreKeys
<1>. QED BY <1>1, <1>2 DEF MapsSafely, MapsSubnet

\* Each of them, on the subnets of a network.
AllLabelled(list) == \A i \in DOMAIN list : Labelled(list[i])
LEMMA MigrateKeeps ==
    ASSUME NEW nets, NetsKnown(nets), NEW n \in SlsNetwork, AllLabelled(nets[n].subnets)
    PROVE  Keeps(nets[n].subnets, migrate_switch_names(nets)[n].subnets)
<1>. DEFINE p == nets[n].subnets
<1>1. IsNet(nets[n])
  BY DEF NetsKnown
<1>2. PICK q : /\ DOMAIN q = DOMAIN p
               /\ \A i \in DOMAIN p : \/ q[i] = p[i]
                                      \/ p[i].key = Switches /\ \E x : q[i] = [p[i] EXCEPT !.reservations = x]
               /\ migrate_switch_names(nets)[n] = [nets[n] EXCEPT !.subnets = q]
  BY <1>1 DEF migrate_switch_names, OnSubnet, OnSubnets
<1>3. migrate_switch_names(nets)[n].subnets = q
  BY <1>1, <1>2, SubnetsOfExcept
<1>4. ASSUME NEW i \in DOMAIN p PROVE MapsSafely(p[i], q[i])
  <2>. DEFINE s == p[i]
              t == q[i]
  <2>1. PICK x : t = s \/ (s.key = Switches /\ t = [s EXCEPT !.reservations = x])
    BY <1>2
  <2>2. Labelled(s)
    BY DEF AllLabelled
  <2>. HIDE DEF s, t
  <2>3. MapsSafely(s, t)
    BY <2>1, <2>2, SameSafely, SwitchesSafely
  <2>. QED BY <2>3 DEF s, t
<1>. HIDE DEF p
<1>5. Keeps(p, q)
  BY <1>2, <1>4, KeepsMap
<1>. QED BY <1>3, <1>5 DEF p

LEMMA KubeApiKeeps ==
    ASSUME NEW nets, NetsKnown(nets), NEW n \in SlsNetwork \ {"NMN"}, AllLabelled(nets[n].subnets)
    PROVE  Keeps(nets[n].subnets, remove_kube_api_reservations(nets)[n].subnets)
<1>. DEFINE p == nets[n].subnets
            q == [i \in DOMAIN p |-> [p[i] EXCEPT !.reservations = Without(@, {KubeApi})]]
<1>1. IsNet(nets[n])
  BY DEF NetsKnown
<1>2. remove_kube_api_reservations(nets)[n] = [nets[n] EXCEPT !.subnets = q]
  BY DEF remove_kube_api_reservations, OnSubnets
<1>3. DOMAIN q = DOMAIN p /\ \A i \in DOMAIN p : MapsSafely(p[i], q[i])
  BY KubeApiSafely DEF AllLabelled
<1>. HIDE DEF p, q
<1>4. Keeps(p, q)
  BY <1>3, KeepsMap
<1>. QED BY <1>1, <1>2, <1>4, SubnetsOfExcept DEF p

LEMMA BgpKeeps ==
    ASSUME NEW nets, NetsKnown(nets), NEW n \in SlsNetwork, AllLabelled(nets[n].subnets)
    PROVE  Keeps(nets[n].subnets, create_metallb_pools_and_asns(nets)[n].subnets)
<1>. DEFINE p == nets[n].subnets
            named == {Pool(w) : w \in {"can", "chn", "cmn", "hmn", "nmn"}} \cup {Static("cmn")}
            q == [i \in DOMAIN p |-> IF p[i].name \in named THEN [p[i] EXCEPT !.pool = p[i].name] ELSE p[i]]
            b == [nets[n] EXCEPT !.subnets = q].bgp \/ (n \in {"CHN", "CMN", "NMN"} /\ nets[n] # NoNetwork)
<1>1. IsNet(nets[n])
  BY DEF NetsKnown
<1>2. create_metallb_pools_and_asns(nets)[n] = [[nets[n] EXCEPT !.subnets = q] EXCEPT !.bgp = b]
  BY DEF create_metallb_pools_and_asns, OnSubnets
<1>. HIDE DEF named, b
<1>3. DOMAIN q = DOMAIN p /\ \A i \in DOMAIN p : MapsSafely(p[i], q[i])
  BY SameSafely, PoolSafely DEF AllLabelled
<1>. HIDE DEF p, q
<1>4. Keeps(p, q)
  BY <1>3, KeepsMap
<1>. QED BY <1>1, <1>2, <1>4, WithBgp DEF p

LEMMA ToSlsKeeps ==
    ASSUME NEW nets, NetsKnown(nets), NEW n \in SlsNetwork, AllLabelled(nets[n].subnets)
    PROVE  Keeps(nets[n].subnets, NetworksToSls(nets)[n].subnets)
<1>. DEFINE p == nets[n].subnets
            q == [i \in DOMAIN p |-> SubnetToSls(p[i])]
<1>1. IsNet(nets[n])
  BY DEF NetsKnown
<1>2. NetworksToSls(nets)[n] = [nets[n] EXCEPT !.subnets = q]
  BY DEF NetworksToSls, OnSubnets
<1>3. DOMAIN q = DOMAIN p /\ \A i \in DOMAIN p : MapsSafely(p[i], q[i])
  BY ToSlsSafely DEF AllLabelled
<1>. HIDE DEF p, q
<1>4. Keeps(p, q)
  BY <1>3, KeepsMap
<1>. QED BY <1>1, <1>2, <1>4, SubnetsOfExcept DEF p

LEMMA ReadKeeps ==
    ASSUME NEW net, IsNet(net), Entries(net.subnets), AllLabelled(net.subnets)
    PROVE  Keeps(net.subnets, network_from_sls_data(net).subnets)
<1>. DEFINE p == net.subnets
            q == [i \in DOMAIN p |-> subnet_from_sls_data(p[i])]
<1>1. network_from_sls_data(net).subnets = Keyed(q)
  BY DEF network_from_sls_data, IsNet
<1>2. DOMAIN q = DOMAIN p /\ \A i \in DOMAIN p : MapsSafely(p[i], q[i])
  BY ReadSafely DEF AllLabelled
<1>3. Entries(q)
  <2>1. \A s : Labelled(s) => {"key", "name"} \subseteq DOMAIN subnet_from_sls_data(s)
    BY DEF Labelled, subnet_from_sls_data
  <2>2. DOMAIN q = DOMAIN p /\ q = [i \in DOMAIN q |-> q[i]] /\ \A i \in DOMAIN p : {"key", "name"} \subseteq DOMAIN q[i]
    BY <2>1 DEF AllLabelled
  <2>3. Entries(p)
    OBVIOUS
  <2>. HIDE DEF p, q
  <2>. QED BY <2>2, <2>3, EntriesMap
<1>. HIDE DEF p, q
<1>4. Keeps(p, q)
  BY <1>2, KeepsMap
<1>5. Keeps(q, Keyed(q))
  BY <1>3, KeptKeyed DEF Keeps
<1>. QED BY <1>1, <1>4, <1>5, KeepsTrans DEF p

-----------------------------------------------------------------------------
(* The reservations that the CMN is asked to keep.                          *)

LEMMA PreservedNames ==
    /\ DOMAIN Preserved = {"ncns", "external-dns"}
    /\ Preserved["ncns"] = <<Bootstrap, Bootstrap>> /\ Preserved["external-dns"] = <<Static("can"), Static("cmn")>>
  BY DEF Preserved
LEMMA KeptNames ==
    ASSUME FirstCommand.preserve \in DOMAIN Preserved
    PROVE  /\ FirstCommand.preserve = "ncns" => KeptName = "bootstrap_dhcp" /\ KeptFrom = Bootstrap /\ KeptTo = Bootstrap
           /\ FirstCommand.preserve = "external-dns" => /\ KeptName = "metallb_static_pool"
                                                      /\ KeptFrom = Static("can") /\ KeptTo = Static("cmn")
           /\ FirstCommand.preserve \in {"ncns", "external-dns"}
           /\ KeptFrom = Preserved[FirstCommand.preserve][1] /\ KeptTo = Preserved[FirstCommand.preserve][2]
<1>1. FirstCommand.preserve \in {"ncns", "external-dns"}
  BY PreservedNames
<1>2. CASE FirstCommand.preserve = "ncns"
  BY <1>2, PreservedNames DEF KeptName, KeptFrom, KeptTo, PreservedSubnet, NameIn, Bootstrap
<1>3. CASE FirstCommand.preserve = "external-dns"
  BY <1>3, PreservedNames DEF KeptName, KeptFrom, KeptTo, PreservedSubnet, NameIn, Static
<1>. QED BY <1>1, <1>2, <1>3
LEMMA NotSwitches == Bootstrap # Switches /\ \A w : Static(w) # Switches
<1>1. Bootstrap[1] # Switches[1] /\ Len(Switches) = 1
  BY DEF Bootstrap, Switches
<1>2. \A w : Len(Static(w)) = 2
  BY DEF Static
<1>. QED BY <1>1, <1>2

\* What the old CAN has.
LEMMA WasEach ==
    ASSUME slsDump \in SlsInputs, Asked
    PROVE  /\ ArePlain(Get(slsDump.nets["CAN"].subnets, KeptFrom))
           /\ NoUans(Get(slsDump.nets["CAN"].subnets, KeptFrom).reservations)
           /\ Get(slsDump.nets["CAN"].subnets, KeptFrom) \in ToSet(slsDump.nets["CAN"].subnets)
           /\ Get(slsDump.nets["CAN"].subnets, KeptFrom).name = KeptFrom
<1>. DEFINE list == slsDump.nets["CAN"].subnets
            X == ToSet(list)
<1>1. list \in Seq(X) /\ \A s \in X : s.key = s.name /\ ArePlain(s) /\ NoUans(s.reservations)
  BY SlsInputsAssumption DEF InBlocks, HaveBlocks, SubnetsIn
<1>2. Has(list, KeptFrom)
  BY DEF Asked
<1>. HIDE DEF list, X
<1>3. Get(list, KeptFrom) \in X /\ Get(list, KeptFrom).key = KeptFrom
  BY <1>1, <1>2, GetIs DEF X
<1>. QED BY <1>1, <1>3 DEF list, X

LEMMA PlainReservations ==
    ASSUME NEW s, ArePlain(s), NoUans(s.reservations)
    PROVE  LET rs == s.reservations
           IN  /\ Entries(rs) /\ \A r \in ToSet(rs) : OldName(r.name) /\ r.key = r.name /\ "ip" \in DOMAIN r
               /\ \A r, q \in ToSet(rs) : r.name = q.name => r = q
<1>. DEFINE rs == s.reservations
            X == ToSet(rs)
<1>1. /\ rs \in Seq(X)
      /\ \A r, q \in X : /\ r = Reservation(r.name, r.ip) /\ r.name \in Seq(ToSet(r.name)) /\ "cmn" \notin ToSet(r.name)
                         /\ r.name = q.name => r = q
  BY DEF ArePlain, NoUans
<1>2. \A i \in DOMAIN rs : rs[i] \in X
  BY DEF ToSet
<1>. HIDE DEF X
<1>3. \A r \in X : OldName(r.name) /\ r.key = r.name /\ {"key", "name", "ip"} \subseteq DOMAIN r
  <2>. SUFFICES ASSUME NEW r \in X PROVE OldName(r.name) /\ r.key = r.name /\ {"key", "name", "ip"} \subseteq DOMAIN r
    OBVIOUS
  <2>1. r = [key |-> r.name, name |-> r.name, ip |-> r.ip]
    BY <1>1 DEF Reservation
  <2>2. r.key = r.name /\ DOMAIN r = {"key", "name", "ip"}
    BY <2>1
  <2>. QED BY <1>1, <2>2 DEF OldName
<1>4. Entries(rs)
  BY <1>1, <1>2, <1>3 DEF Entries, X
<1>. QED BY <1>1, <1>3, <1>4 DEF X

LEMMA WasReservations ==
    ASSUME slsDump \in SlsInputs, Asked
    PROVE  /\ Entries(Was) /\ \A r \in ToSet(Was) : OldName(r.name) /\ r.key = r.name /\ "ip" \in DOMAIN r
           /\ \A r, q \in ToSet(Was) : r.name = q.name => r = q
<1>. DEFINE s == Get(slsDump.nets["CAN"].subnets, KeptFrom)
<1>1. ArePlain(s) /\ NoUans(s.reservations) /\ Was = s.reservations
  BY WasEach DEF Was
<1>. HIDE DEF s
<1>. QED BY <1>1, PlainReservations

\* The terms are safe: no function but the cloning removes them.
LEMMA TermsAreSafe ==
    ASSUME slsDump \in SlsInputs, Asked
    PROVE  /\ SafeTerms(KeptFrom, OldTerms) /\ SafeTerms(KeptTo, NewTerms) /\ \A n \in OldNames : OldName(n)
           /\ NamesAreKeys(OldTerms)
<1>1. \A r \in WasKept : r.name # KubeApi /\ OldName(r.name) /\ InCmn(r.name) # KubeApi
  BY WasReservations, KubeApiStays DEF WasKept
<1>2. KeptFrom # Switches /\ KeptTo # Switches
  BY KeptNames, NotSwitches DEF Asked
<1>3. \A x \in OldTerms : x.name \in x.keys /\ KubeApi \notin x.keys
  BY <1>1 DEF OldTerms, OldTerm
<1>4. \A x \in NewTerms : x.name \in x.keys /\ KubeApi \notin x.keys
  BY <1>1 DEF NewTerms, NewTerm
<1>5. \A n \in OldNames : OldName(n)
  BY WasReservations DEF OldNames
<1>. QED BY <1>2, <1>3, <1>4, <1>5 DEF SafeTerms, NamesAreKeys

LEMMA DumpKeeps ==
    ASSUME slsDump \in SlsInputs, Asked
    PROVE  Kept(slsDump.nets["CAN"].subnets, KeptFrom, OldNames, OldTerms)
<1>. DEFINE list == slsDump.nets["CAN"].subnets
            X == ToSet(list)
            g == Get(list, KeptFrom)
<1>1. list \in Seq(X) /\ \A s, t \in X : s.key = s.name /\ Labelled(s) /\ (s.name = t.name => s = t)
  BY SlsInputsAssumption DEF InBlocks, HaveBlocks, SubnetsIn
<1>2. g \in X /\ g.name = KeptFrom /\ Was = g.reservations /\ Has(list, KeptFrom)
  BY WasEach DEF Was, Asked
<1>3. \A i \in DOMAIN list : list[i] \in X
  BY DEF ToSet
<1>. HIDE DEF list, X, g
<1>4. Holds(g, OldNames, OldTerms)
  <2>1. "reservations" \in DOMAIN g
    BY <1>1, <1>2 DEF Labelled
  <2>2. \A j \in DOMAIN Was : Was[j] \in ToSet(Was)
    BY DEF ToSet
  <2>3. Reserved(Was, OldNames)
    <3>1. \A j \in DOMAIN Was : "ip" \in DOMAIN Was[j] /\ Was[j].name \in OldNames
      BY <2>2, WasReservations DEF OldNames
    <3>2. \A i, j \in DOMAIN Was : Was[i].name = Was[j].name => Was[i].ip = Was[j].ip
      BY <2>2, WasReservations
    <3>. QED BY <3>1, <3>2, WasReservations DEF Reserved
  <2>4. ASSUME NEW x \in OldTerms PROVE Carries(Was, x)
    <3>1. PICK r \in WasKept : x = OldTerm(r)
      BY DEF OldTerms
    <3>2. PICK j \in DOMAIN Was : Was[j] = r
      BY <3>1 DEF WasKept, ToSet
    <3>3. r.key = r.name
      BY <3>1, WasReservations DEF WasKept
    <3>4. x.keys = {r.name} /\ x.name = r.name /\ x.ip = r.ip
      BY <3>1 DEF OldTerm
    <3>. QED BY <3>2, <3>3, <3>4 DEF Carries
  <2>. QED BY <1>2, <2>1, <2>3, <2>4 DEF Holds
<1>5. KeptIfAny(list, KeptFrom, OldNames, OldTerms)
  BY <1>1, <1>2, <1>3, <1>4 DEF KeptIfAny
<1>6. \E i \in DOMAIN list : list[i].key = KeptFrom
  BY <1>2 DEF Has
<1>. QED BY <1>5, <1>6 DEF Kept, list

\* Networks with the same presence of the CMN.
LEMMA NetsKeepStays ==
    ASSUME slsDump \in SlsInputs, Asked, NEW old, NEW new, NetsKeep(old),
           new["CMN"] = NoNetwork <=> old["CMN"] = NoNetwork,
           old["CMN"] = NoNetwork => Keeps(old["CAN"].subnets, new["CAN"].subnets),
           Keeps(old["CMN"].subnets, new["CMN"].subnets)
    PROVE  NetsKeep(new)
  BY TermsAreSafe DEF NetsKeep, Keeps

LEMMA SameTerms ==
    ASSUME slsCommands'[1] = slsCommands[1], UNCHANGED slsDump
    PROVE  /\ KeptName' = KeptName /\ KeptFrom' = KeptFrom /\ KeptTo' = KeptTo /\ OldNames' = OldNames /\ NewNames' = NewNames
           /\ OldTerms' = OldTerms /\ FreshTerms' = FreshTerms /\ NewTerms' = NewTerms /\ (Asked' <=> Asked)
<1>1. KeptName' = KeptName /\ KeptFrom' = KeptFrom /\ KeptTo' = KeptTo
  BY DEF KeptName, KeptFrom, KeptTo, FirstCommand
<1>2. Was' = Was /\ (Asked' <=> Asked)
  BY <1>1 DEF Was, Asked, FirstCommand
<1>3. OldNames' = OldNames /\ NewNames' = NewNames /\ WasKept' = WasKept
  BY <1>2 DEF OldNames, NewNames, WasKept
<1>. QED BY <1>1, <1>2, <1>3 DEF OldTerms, FreshTerms, NewTerms

\* One step of the upgrade, to networks that have them still.
LEMMA StepToKeeps ==
    ASSUME UpgradeKeeps, slsCommands'[1] = slsCommands[1], UNCHANGED slsDump,
           UNCHANGED slsFile, slsPc' \notin Resting /\ Asked => NetsKeep(slsNets'),
           slsPc' # "CMN subnets"
    PROVE  UpgradeKeeps'
<1>. SUFFICES ASSUME Asked PROVE NetsKeep(slsFile.nets)' /\ (slsPc' \notin Resting => NetsKeep(slsNets)')
  BY SameTerms DEF UpgradeKeeps
<1>1. NetsKeep(slsFile.nets)'
  BY SameTerms DEF UpgradeKeeps, NetsKeep
<1>2. slsPc' \notin Resting => NetsKeep(slsNets)'
  BY SameTerms DEF NetsKeep
<1>. QED BY <1>1, <1>2

LEMMA DoesKeeps ==
    ASSUME UpgradeKeeps, NEW step, NEW nets, NEW next, Does(step, nets, next), next # "CMN subnets",
           next \notin Resting /\ Asked => NetsKeep(nets)
    PROVE  UpgradeKeeps'
<1>1. slsPc' = next /\ slsNets' = nets /\ UNCHANGED <<slsFile, slsOptions, slsCommands, slsDump>>
  BY DEF Does, SlsCalls, SlsGoTo
<1>. QED BY <1>1, StepToKeeps

LEMMA FailsKeeps == ASSUME UpgradeKeeps, NEW step, Fails(step) PROVE UpgradeKeeps'
<1>1. Does(step, slsNets, "failed") /\ "failed" \in Resting
  BY DEF Fails, Resting
<1>. QED BY <1>1, DoesKeeps

\* A function of main() that keeps them in the CAN, before there is a CMN, and in the CMN.
LEMMA DoesSafely ==
    ASSUME UpgradeOnVlans, UpgradeKeeps, NEW step, NEW nets, NEW next, Does(step, nets, next), step \notin Resting,
           next # "CMN subnets",
           nets["CMN"] = NoNetwork <=> slsNets["CMN"] = NoNetwork,
           slsNets["CMN"] = NoNetwork => Keeps(slsNets["CAN"].subnets, nets["CAN"].subnets),
           Keeps(slsNets["CMN"].subnets, nets["CMN"].subnets)
    PROVE  UpgradeKeeps'
<1>1. slsPc = step /\ slsDump \in SlsInputs
  BY DEF Does, UpgradeOnVlans
<1>2. Asked => NetsKeep(slsNets)
  BY <1>1 DEF UpgradeKeeps
<1>3. Asked => NetsKeep(nets)
  BY <1>1, <1>2, NetsKeepStays
<1>. QED BY <1>3, DoesKeeps

\* The subnets that a run works on have keys and names.
LEMMA RunLabelled ==
    ASSUME UpgradeOnVlans, slsPc \notin Resting, NEW n \in {"CAN", "CMN"}
    PROVE  AllLabelled(slsNets[n].subnets) /\ Entries(slsNets[n].subnets)
<1>1. PICK W : OnVlans(slsNets[n].subnets, W)
  BY DEF UpgradeOnVlans, RunOnVlans, NetsOnVlans
<1>. QED BY <1>1, EachOnVlan, OnVlansEntries DEF AllLabelled

LEMMA SwitchesKeeps == ASSUME UpgradeRoutes, UpgradeOnVlans, UpgradeKeeps, MigrateSwitchNames PROVE UpgradeKeeps'
<1>1. /\ slsPc = "switches" /\ slsPc' = "lb" /\ UNCHANGED <<slsFile, slsOptions, slsCommands, slsDump>>
      /\ slsNets' = slsNets \/ slsNets' = migrate_switch_names(slsNets)
  BY DEF MigrateSwitchNames, slsLoaded, SlsCalls, SlsGoTo
<1>2. NetsKnown(slsNets) /\ slsPc \notin Resting /\ slsDump \in SlsInputs /\ {"CAN", "CMN"} \subseteq SlsNetwork
  BY <1>1 DEF UpgradeRoutes, UpgradeOnVlans, Resting, SlsNetwork
<1>3. \A n \in {"CAN", "CMN"} : Keeps(slsNets[n].subnets, slsNets'[n].subnets)
  BY <1>1, <1>2, RunLabelled, MigrateKeeps, KeepsRefl
<1>4. slsNets'["CMN"] = NoNetwork <=> slsNets["CMN"] = NoNetwork
  BY <1>1, <1>2, MigrateSame, SamePresence
<1>5. Asked => NetsKeep(slsNets)
  BY <1>2 DEF UpgradeKeeps
<1>6. Asked => NetsKeep(slsNets')
  BY <1>2, <1>3, <1>4, <1>5, NetsKeepStays
<1>. QED BY <1>1, <1>6, StepToKeeps

\* The functions that leave the CMN and, before it is made, the CAN.
LEMMA DoesElsewhere ==
    ASSUME UpgradeOnVlans, UpgradeKeeps, NEW step, NEW nets, NEW next, Does(step, nets, next), step \notin Resting,
           next # "CMN subnets", nets["CMN"] = slsNets["CMN"],
           slsNets["CMN"] = NoNetwork => nets["CAN"] = slsNets["CAN"]
    PROVE  UpgradeKeeps'
  BY DoesSafely, KeepsRefl

LEMMA BalancersKeeps == ASSUME UpgradeRoutes, UpgradeOnVlans, UpgradeKeeps, CorrectLoadBalancers PROVE UpgradeKeeps'
<1>. DEFINE mid == remove_api_gw_from_hmnlb_reservations(slsNets)
            new == correct_unbound_dns_address(mid)
<1>1. Does("lb", new, "cmn") /\ "lb" \notin Resting
  BY DEF CorrectLoadBalancers, Resting
<1>2. slsNets = [n \in SlsNetwork |-> slsNets[n]] /\ {"CAN", "CMN"} \subseteq SlsNetwork \ {"HMNLB", "NMNLB"}
  BY DEF UpgradeRoutes, NetsKnown, SlsNetwork
<1>3. (\A n \in {"CAN", "CMN"} : mid[n] = slsNets[n]) /\ mid = [n \in SlsNetwork |-> mid[n]]
  BY <1>2 DEF remove_api_gw_from_hmnlb_reservations
<1>. HIDE DEF mid
<1>4. \A n \in {"CAN", "CMN"} : new[n] = mid[n]
  BY <1>2, <1>3 DEF correct_unbound_dns_address
<1>. HIDE DEF new
<1>. QED BY <1>1, <1>3, <1>4, DoesElsewhere

LEMMA UaiKeeps == ASSUME UpgradeRoutes, UpgradeOnVlans, UpgradeKeeps, UpdateUai PROVE UpgradeKeeps'
<1>. DEFINE mid == update_nmn_uai_macvlan_dhcp_ranges(slsNets)
            new == rename_uai_bridge_reservation(mid)
<1>1. Fails("uai") \/ Does("uai", new, "remove")
  BY DEF UpdateUai
<1>2. slsNets = [n \in SlsNetwork |-> slsNets[n]] /\ {"CAN", "CMN"} \subseteq SlsNetwork \ {"NMN"} /\ "uai" \notin Resting
  BY DEF UpgradeRoutes, NetsKnown, SlsNetwork, Resting
<1>3. (\A n \in {"CAN", "CMN"} : mid[n] = slsNets[n]) /\ mid = [n \in SlsNetwork |-> mid[n]]
  BY <1>2 DEF update_nmn_uai_macvlan_dhcp_ranges
<1>. HIDE DEF mid
<1>4. \A n \in {"CAN", "CMN"} : new[n] = mid[n]
  BY <1>2, <1>3 DEF rename_uai_bridge_reservation
<1>. HIDE DEF new
<1>. QED BY <1>1, <1>2, <1>3, <1>4, DoesElsewhere, FailsKeeps

\* After convert_can_ips() there is a CMN.
LEMMA HasCmn ==
    ASSUME UpgradeOnVlans, slsPc \notin Resting \cup WithoutCmn
    PROVE  slsNets["CMN"] # NoNetwork
  BY DEF UpgradeOnVlans, RunOnVlans

LEMMA StaticPoolKeeps == ASSUME UpgradeRoutes, UpgradeOnVlans, UpgradeKeeps, RemoveStaticPool PROVE UpgradeKeeps'
<1>. DEFINE new == remove_can_static_pool(slsNets)
<1>1. Does("static pool", new, "kubeapi") /\ slsPc = "static pool" /\ "static pool" \notin Resting \cup WithoutCmn
  BY DEF RemoveStaticPool, Does, Resting, WithoutCmn
<1>2. new["CMN"] = slsNets["CMN"]
  BY DEF remove_can_static_pool, UpgradeRoutes, NetsKnown, SlsNetwork
<1>. HIDE DEF new
<1>. QED BY <1>1, <1>2, HasCmn, DoesElsewhere

LEMMA KubeApiKeepsThem == ASSUME UpgradeRoutes, UpgradeOnVlans, UpgradeKeeps, RemoveKubeApi PROVE UpgradeKeeps'
<1>. DEFINE new == remove_kube_api_reservations(slsNets)
<1>1. Does("kubeapi", new, "chn") /\ slsPc = "kubeapi" /\ "kubeapi" \notin Resting \cup WithoutCmn
  BY DEF RemoveKubeApi, Does, Resting, WithoutCmn
<1>2. NetsKnown(slsNets) /\ {"CAN", "CMN"} \subseteq SlsNetwork \ {"NMN"}
  BY DEF UpgradeRoutes, SlsNetwork
<1>3. Keeps(slsNets["CMN"].subnets, new["CMN"].subnets)
  BY <1>1, <1>2, RunLabelled, KubeApiKeeps
<1>4. new["CMN"] = NoNetwork <=> slsNets["CMN"] = NoNetwork
  BY <1>2, KubeApiSame, SamePresence
<1>. HIDE DEF new
<1>. QED BY <1>1, <1>3, <1>4, HasCmn, DoesSafely

LEMMA BgpKeepsThem == ASSUME UpgradeRoutes, UpgradeOnVlans, UpgradeKeeps, AddBgp PROVE UpgradeKeeps'
<1>. DEFINE new == create_metallb_pools_and_asns(slsNets)
<1>1. Does("bgp", new, "uai") /\ slsPc = "bgp" /\ "bgp" \notin Resting \cup WithoutCmn
  BY DEF AddBgp, Does, Resting, WithoutCmn
<1>2. NetsKnown(slsNets) /\ {"CAN", "CMN"} \subseteq SlsNetwork
  BY DEF UpgradeRoutes, SlsNetwork
<1>3. Keeps(slsNets["CMN"].subnets, new["CMN"].subnets)
  BY <1>1, <1>2, RunLabelled, BgpKeeps
<1>4. new["CMN"] = NoNetwork <=> slsNets["CMN"] = NoNetwork
  BY <1>2, BgpSame, SamePresence
<1>. HIDE DEF new
<1>. QED BY <1>1, <1>3, <1>4, HasCmn, DoesSafely

LEMMA RemoveUnusedKeeps == ASSUME UpgradeRoutes, UpgradeOnVlans, UpgradeKeeps, RemoveUnused PROVE UpgradeKeeps'
<1>. DEFINE new == [n \in SlsNetwork |-> IF n \in Unused(slsOptions) THEN NoNetwork ELSE slsNets[n]]
<1>1. Does("remove", new, "bican") /\ slsPc = "remove" /\ "remove" \notin Resting \cup WithoutCmn
  BY DEF RemoveUnused, Does, Resting, WithoutCmn
<1>2. Unused(slsOptions) \subseteq {"CAN", "CHN"}
  BY DEF Unused
<1>3. new["CMN"] = slsNets["CMN"]
  BY <1>2 DEF SlsNetwork
<1>. HIDE DEF new
<1>. QED BY <1>1, <1>3, HasCmn, DoesElsewhere

LEMMA BicanKeeps == ASSUME UpgradeRoutes, UpgradeOnVlans, UpgradeKeeps, CreateBican PROVE UpgradeKeeps'
<1>. DEFINE new == create_bican_network(slsNets, slsOptions.bican)
<1>1. Does("bican", new, "write") /\ slsPc = "bican" /\ "bican" \notin Resting \cup WithoutCmn
  BY DEF CreateBican, Does, Resting, WithoutCmn
<1>2. new["CMN"] = slsNets["CMN"]
  BY DEF create_bican_network, UpgradeRoutes, NetsKnown, SlsNetwork
<1>. HIDE DEF new
<1>. QED BY <1>1, <1>2, HasCmn, DoesElsewhere

LEMMA ChnKeeps == ASSUME UpgradeRoutes, UpgradeOnVlans, UpgradeKeeps, CreateChn PROVE UpgradeKeeps'
<1>. DEFINE chn == create_chn_network(slsNets, slsOptions)
            new == [slsNets EXCEPT !["CHN"] = chn]
<1>0. slsPc = "chn" /\ "chn" \notin Resting \cup WithoutCmn
  BY DEF CreateChn, Resting, WithoutCmn
<1>1. Does("chn", slsNets, "can") \/ Does("chn", new, "can") \/ Fails("chn")
  BY DEF CreateChn
<1>. HIDE DEF chn
<1>2. new["CMN"] = slsNets["CMN"]
  BY DEF UpgradeRoutes, NetsKnown, SlsNetwork
<1>. HIDE DEF new
<1>. QED BY <1>0, <1>1, <1>2, HasCmn, DoesElsewhere, FailsKeeps

LEMMA StartCanKeeps == ASSUME UpgradeRoutes, UpgradeOnVlans, UpgradeKeeps, StartCan PROVE UpgradeKeeps'
<1>0. slsPc = "can" /\ "can" \notin Resting \cup WithoutCmn
  BY DEF StartCan, Resting, WithoutCmn
<1>1. CASE CanDone(slsNets)
  <2>1. Does("can", slsNets, "bgp")
    BY <1>1 DEF StartCan
  <2>. QED BY <1>0, <2>1, DoesElsewhere
<1>2. CASE ~CanDone(slsNets)
  <2>1. PICK net : slsNets' = [slsNets EXCEPT !["CAN"] = net]
    BY <1>2 DEF StartCan, StartsClone
  <2>2. slsPc' = "CAN subnets" /\ UNCHANGED <<slsFile, slsOptions, slsCommands, slsDump>>
    BY <1>2 DEF StartCan, StartsClone, SlsCalls, SlsGoTo
  <2>3. slsNets'["CMN"] = slsNets["CMN"]
    BY <2>1 DEF UpgradeRoutes, NetsKnown, SlsNetwork
  <2>4. Asked => NetsKeep(slsNets) /\ slsNets["CMN"] # NoNetwork
    BY <1>0, HasCmn DEF UpgradeKeeps
  <2>5. Asked => NetsKeep(slsNets')
    BY <2>3, <2>4 DEF NetsKeep
  <2>. QED BY <2>2, <2>5, StepToKeeps
<1>. QED BY <1>1, <1>2

LEMMA FileLabelled ==
    ASSUME UpgradeOnVlans, NEW n \in {"CAN", "CMN"}
    PROVE  AllLabelled(slsFile.nets[n].subnets) /\ Entries(slsFile.nets[n].subnets)
<1>1. PICK W : OnVlans(slsFile.nets[n].subnets, W)
  BY DEF UpgradeOnVlans, FileOnVlans, NetsOnVlans
<1>. QED BY <1>1, EachOnVlan, OnVlansEntries DEF AllLabelled

LEMMA LoadKeeps == ASSUME UpgradeRoutes, UpgradeOnVlans, UpgradeKeeps, LoadSls PROVE UpgradeKeeps'
<1>. DEFINE old == slsFile.nets
            read == [n \in SlsNetwork |-> network_from_sls_data(old[n])]
<1>0. /\ slsNets' = read /\ UNCHANGED <<slsFile, slsDump>> /\ slsCommands'[1] = slsCommands[1]
      /\ slsPc' \in {"failed", "switches"}
  BY LoadCommands DEF LoadSls, SlsCalls
<1>1. NetsKnown(old) /\ slsDump \in SlsInputs /\ {"CAN", "CMN"} \subseteq SlsNetwork
  BY DEF UpgradeRoutes, UpgradeOnVlans, SlsNetwork
<1>2. SameNets(old, read)
  BY <1>1, NetworkReadSame DEF SameNets, NetsKnown
<1>3. \A n \in {"CAN", "CMN"} : Keeps(old[n].subnets, read[n].subnets)
  <2>1. \A n \in {"CAN", "CMN"} : IsNet(old[n]) /\ read[n] = network_from_sls_data(old[n])
    BY <1>1 DEF NetsKnown
  <2>. HIDE DEF read
  <2>. QED BY <2>1, FileLabelled, ReadKeeps
<1>. HIDE DEF read
<1>4. read["CMN"] = NoNetwork <=> old["CMN"] = NoNetwork
  <2>. HIDE DEF old
  <2>. QED BY <1>1, <1>2, SamePresence
<1>5. Asked => NetsKeep(old)
  BY DEF UpgradeKeeps
<1>6. Asked => NetsKeep(read)
  BY <1>1, <1>3, <1>4, <1>5, NetsKeepStays
<1>. QED BY <1>0, <1>6, StepToKeeps

LEMMA WriteKeeps == ASSUME UpgradeRoutes, UpgradeOnVlans, UpgradeKeeps, WriteSls PROVE UpgradeKeeps'
<1>. DEFINE new == NetworksToSls(slsNets)
<1>1. /\ slsPc = "write" /\ slsPc' = "written" /\ slsFile'.nets = new
      /\ UNCHANGED <<slsNets, slsOptions, slsCommands, slsDump>>
  BY DEF WriteSls, slsLoaded
<1>2. /\ NetsKnown(slsNets) /\ SameNets(slsNets, new) /\ slsPc \notin Resting /\ slsDump \in SlsInputs
      /\ {"CAN", "CMN"} \subseteq SlsNetwork
  BY <1>1, NetworksToSlsSame DEF UpgradeRoutes, UpgradeOnVlans, Resting, SlsNetwork
<1>3. \A n \in {"CAN", "CMN"} : Keeps(slsNets[n].subnets, new[n].subnets)
  BY <1>2, RunLabelled, ToSlsKeeps
<1>. HIDE DEF new
<1>4. new["CMN"] = NoNetwork <=> slsNets["CMN"] = NoNetwork
  BY <1>2, SamePresence
<1>5. Asked => NetsKeep(new)
  BY <1>2, <1>3, <1>4, NetsKeepStays DEF UpgradeKeeps
<1>6. Asked => NetsKeep(slsFile.nets)'
  BY <1>1, <1>5, SameTerms DEF NetsKeep
<1>. QED BY <1>1, <1>6, SameTerms DEF UpgradeKeeps, Resting

\* The subnet that is kept is among those that are made.
LEMMA OrderHasKept ==
    ASSUME NEW preserve \in {"ncns", "external-dns"}
    PROVE  PreservedSubnet(preserve) \in ToSet(SubnetOrder(<<"bootstrap_dhcp", "metallb_address_pool",
                                                            "metallb_static_pool", "network_hardware">>, preserve))
<1>. DEFINE all == <<"bootstrap_dhcp", "metallb_address_pool", "metallb_static_pool", "network_hardware">>
<1>1. CASE preserve = "ncns"
  BY <1>1, OrderHasBootstrap DEF PreservedSubnet
<1>2. CASE preserve = "external-dns"
  <2>. DEFINE X == ToSet(all)
              kept == X \ {"metallb_static_pool", "metallb_address_pool"}
              first == <<"metallb_static_pool", "metallb_address_pool">>
              rest == Those(all, kept)
  <2>1. SubnetOrder(all, preserve) = first \o rest /\ PreservedSubnet(preserve) = "metallb_static_pool"
    BY <1>2 DEF SubnetOrder, PreservedSubnet
  <2>2. all \in Seq(CloneNames)
    BY DEF CloneNames
  <2>. HIDE DEF kept, all
  <2>3. rest \in Seq(CloneNames)
    <3>1. rest \in Seq(CloneNames \cap kept)
      BY <2>2, ThoseIn
    <3>. QED BY <3>1
  <2>. HIDE DEF rest
  <2>4. first \in Seq(CloneNames) /\ Len(first) = 2 /\ first[1] = "metallb_static_pool"
    BY DEF CloneNames
  <2>. HIDE DEF first
  <2>5. JoinOf(first, rest)
    BY <2>3, <2>4, Joined
  <2>6. (first \o rest)[1] = "metallb_static_pool" /\ 1 \in DOMAIN (first \o rest)
    BY <2>4, <2>5 DEF JoinOf
  <2>. QED BY <2>1, <2>6 DEF ToSet, all
<1>. QED BY <1>1, <1>2

LEMMA StartCmnKeeps == ASSUME UpgradeRoutes, UpgradeOnVlans, UpgradeKeeps, StartCmn PROVE UpgradeKeeps'
<1>0. slsPc = "cmn" /\ slsPc \notin Resting
  BY DEF StartCmn, Resting
<1>1. CASE CmnDone(slsNets)
  <2>1. Does("cmn", slsNets, "static pool")
    BY <1>1 DEF StartCmn
  <2>. QED BY <1>0, <2>1, DoesElsewhere
<1>2. CASE ~CmnDone(slsNets)
  <2>. DEFINE names == SubnetOrder(<<"bootstrap_dhcp", "metallb_address_pool", "metallb_static_pool",
                                     "network_hardware">>, slsOptions.preserve)
  <2>1. /\ slsPc' = "CMN subnets" /\ UNCHANGED <<slsFile, slsOptions, slsCommands, slsNets, slsDump>>
        /\ slsClone' = [cidr |-> slsNets["CAN"].cidr, made |-> <<>>, todo |-> names] /\ slsNets["CMN"] = NoNetwork
    BY <1>2 DEF StartCmn, StartsClone, SlsCalls, SlsGoTo, CmnDone
  <2>2. Asked => KeptName \in ToSet(names)
    <3>1. slsOptions = FirstCommand
      BY <1>0, <1>2 DEF UpgradeRoutes, UpgradeOnVlans, RunOnVlans, NetsReady, WithoutCmn, CmnDone, FirstCommand
    <3>. QED BY <3>1, OrderHasKept, PreservedNames DEF KeptName, Asked
  <2>. HIDE DEF names
  <2>3. slsClone'.made = <<>> /\ slsClone'.todo = names
    BY <2>1
  <2>4. Asked => CloneKeeps'
    <3>1. \A k, N, T : KeptIfAny(<<>>, k, N, T)
      BY DEF KeptIfAny
    <3>. QED BY <2>1, <2>2, <2>3, <3>1, SameTerms DEF CloneKeeps
  <2>5. Asked => NetsKeep(slsFile.nets)' /\ NetsKeep(slsNets)'
    BY <1>0, <2>1, SameTerms DEF UpgradeKeeps, NetsKeep
  <2>. QED BY <2>1, <2>4, <2>5, SameTerms DEF UpgradeKeeps
<1>. QED BY <1>1, <1>2

LEMMA NamesInCmn ==
    ASSUME NEW n \in CloneNames, NEW m \in {"metallb_static_pool", "bootstrap_dhcp"}, NameIn("cmn", n) = NameIn("cmn", m)
    PROVE  n = m
<1>. DEFINE pools == {"metallb_static_pool", "metallb_address_pool"}
<1>1. \A x : IF x \in pools THEN Len(NameIn("cmn", x)) = 2 /\ NameIn("cmn", x)[2] = x
             ELSE Len(NameIn("cmn", x)) = 1 /\ NameIn("cmn", x)[1] = x
  BY DEF NameIn
<1>2. n \in pools <=> m \in pools
  BY <1>1
<1>. QED BY <1>1, <1>2

\* The subnet that the CMN gets for it has the reservations of the CAN, with its names.
LEMMA NewSubnetKeeps ==
    ASSUME slsDump \in SlsInputs, Asked, NEW nets, Entries(nets["CAN"].subnets),
           Kept(nets["CAN"].subnets, KeptFrom, OldNames, OldTerms),
           NEW to, to.word = "cmn", to.preserve = FirstCommand.preserve, NEW seed
    PROVE  Holds(NewSubnet(to, KeptName, Template(nets, KeptName)[1], seed), NewNames, FreshTerms)
<1>. DEFINE own == nets["CAN"].subnets
            g == Get(own, KeptFrom)
            t == Clone(g)
            rs == NamesReplaced(t.reservations, "can", <<"cmn">>)
            s == [t EXCEPT !.key = NameIn(to.word, KeptName), !.name = NameIn(to.word, KeptName), !.reservations = rs]
<1>1. Has(own, KeptFrom) /\ Holds(g, OldNames, OldTerms)
  BY KeptGet
<1>2. Template(nets, KeptName) = <<t>>
  BY <1>1 DEF Template, KeptFrom
<1>. HIDE DEF g
<1>3. Holds(t, OldNames, OldTerms)
  BY <1>1, TermsAreSafe, ToSlsHolds, ReadHolds DEF Clone
<1>4. Template(nets, KeptName)[1] = t
  <2>. HIDE DEF t
  <2>. QED BY <1>2
<1>5. NewSubnet(to, KeptName, t, seed) \in {s, [s EXCEPT !.cidr = seed]}
  BY DEF NewSubnet, KeptName
<1>. HIDE DEF t
<1>6. Reserved(rs, NewNames) /\ \A y \in FreshTerms : Carries(rs, y)
  <2>1. /\ Reserved(rs, {InCmn(n) : n \in OldNames})
        /\ \A x, y : y.keys = x.keys /\ y.name = InCmn(x.name) /\ y.ip = x.ip /\ Carries(t.reservations, x) => Carries(rs, y)
    BY <1>3, TermsAreSafe, ReservedInCmn DEF Holds
  <2>. HIDE DEF rs
  <2>2. ASSUME NEW r \in WasKept PROVE Carries(rs, FreshTerm(r))
    <3>1. OldTerm(r) \in OldTerms
      BY DEF OldTerms
    <3>2. Carries(t.reservations, OldTerm(r))
      BY <1>3, <3>1 DEF Holds
    <3>3. /\ FreshTerm(r).keys = OldTerm(r).keys /\ FreshTerm(r).name = InCmn(OldTerm(r).name)
          /\ FreshTerm(r).ip = OldTerm(r).ip
      BY DEF FreshTerm, OldTerm
    <3>. QED BY <2>1, <3>2, <3>3
  <2>. QED BY <2>1, <2>2 DEF NewNames, FreshTerms
<1>. HIDE DEF rs
<1>7. "reservations" \in DOMAIN s /\ s.reservations = rs
  BY <1>3 DEF Holds
<1>. HIDE DEF s
<1>8. LET q == [s EXCEPT !.cidr = seed] IN "reservations" \in DOMAIN q /\ q.reservations = rs
  BY <1>7
<1>. QED BY <1>4, <1>5, <1>6, <1>7, <1>8 DEF Holds

LEMMA CloneSubnetKeeps == ASSUME UpgradeRoutes, UpgradeOnVlans, UpgradeKeeps, CloneSubnet PROVE UpgradeKeeps'
<1>. DEFINE to == CloneTo[slsPc]
            n == Head(slsClone.todo)
            found == Template(slsNets, n)
<1>1. slsPc \in {"CMN subnets", "CAN subnets"} /\ UNCHANGED <<slsFile, slsNets, slsOptions, slsCommands, slsDump>> /\ slsClone.todo # <<>>
      /\ slsPc' \in {"failed", slsPc}
  BY StepsOfClone DEF CloneSubnet, slsLoaded, SlsCalls, SlsGoTo
<1>2. slsPc \notin Resting /\ IsClone(slsClone) /\ slsDump \in SlsInputs
  BY <1>1 DEF UpgradeOnVlans, UpgradeRoutes, Resting
<1>3. CASE slsPc' # "CMN subnets"
  <2>1. Asked => NetsKeep(slsNets')
    BY <1>1, <1>2 DEF UpgradeKeeps
  <2>. QED BY <1>1, <1>3, <2>1, StepToKeeps
<1>4. CASE slsPc' = "CMN subnets"
  <2>. SUFFICES ASSUME Asked PROVE NetsKeep(slsFile.nets)' /\ NetsKeep(slsNets)' /\ CloneKeeps'
    BY <1>1, SameTerms DEF UpgradeKeeps
  <2>0. slsPc = "CMN subnets" /\ slsPc' # "failed"
    BY <1>1, <1>4
  <2>1. PICK seed \in CloneSeeds(to, n, found) :
           slsClone' = [slsClone EXCEPT !.made = Put(slsClone.made, NewSubnet(to, n, found[1], seed)), !.todo = Tail(@)]
    BY <2>0, Zenon DEF CloneSubnet, SlsCalls, SlsGoTo, CloneSeeds
  <2>2. PICK t \in ToSet(found) : seed \in Seeds(slsClone, [t EXCEPT !.name = NameIn(to.word, n)], to.overrides)
    BY <2>1, Zenon DEF CloneSeeds
  <2>3. to.word = "cmn" /\ to.preserve = FirstCommand.preserve
    <3>1. slsOptions = FirstCommand
      BY <1>2, <2>0 DEF UpgradeRoutes, UpgradeOnVlans, RunOnVlans, NetsReady, FirstCommand
    <3>. QED BY <2>0, <3>1 DEF CloneTo
  <2>. HIDE DEF to
  <2>4. CloneKeeps /\ NetsKeep(slsNets) /\ NetsKeep(slsFile.nets)
    BY <1>2, <2>0 DEF UpgradeKeeps
  <2>5. slsNets["CMN"] = NoNetwork /\ Kept(slsNets["CAN"].subnets, KeptFrom, OldNames, OldTerms)
    BY <2>4 DEF CloneKeeps, NetsKeep
  <2>6. CloneOnVlans(slsClone, OldVlans) /\ RunOnVlans(slsNets, slsPc) /\ slsNets["CAN"] # NoNetwork
    BY <1>2, <2>0 DEF UpgradeOnVlans, UpgradeRoutes, NetsReady, RunOnVlans
  <2>7. Entries(slsClone.made) /\ slsClone.todo \in Seq(CloneNames)
    BY <2>6, OnVlansEntries DEF CloneOnVlans
  <2>8. n \in CloneNames
    <3>1. \A G : \A list \in Seq(G) : list # <<>> => Head(list) \in G
      OBVIOUS
    <3>. QED BY <1>1, <2>7, <3>1
  <2>. HIDE DEF n
  <2>9. Filled(found[1])
    <3>1. /\ OnVlans(slsNets["CAN"].subnets, CanVlans(slsNets, slsPc)) /\ Booted(slsNets["CAN"].subnets)
          /\ OnVlans(slsNets["HMN"].subnets, HmnVlans)
      BY <2>6 DEF RunOnVlans, NetsOnVlans, NetsBooted, UserNets
    <3>. QED BY <2>2, <3>1, TemplateOnVlan
  <2>. DEFINE s == NewSubnet(to, n, found[1], seed)
              made == Put(slsClone.made, s)
  <2>10. s.key = s.name /\ s.name = NameIn("cmn", n)
    BY <2>3, <2>9, NewSubnetLabels
  <2>11. KeptName \in {"metallb_static_pool", "bootstrap_dhcp"}
    BY KeptNames DEF Asked
  <2>12. s.key = KeptTo => Holds(s, NewNames, FreshTerms)
    <3>1. s.key = KeptTo => n = KeptName
      BY <2>8, <2>10, <2>11, NamesInCmn DEF KeptTo
    <3>2. CASE n = KeptName
      <4>1. Entries(slsNets["CAN"].subnets)
        BY <1>2, RunLabelled
      <4>2. s = NewSubnet(to, KeptName, Template(slsNets, KeptName)[1], seed)
        BY <3>2
      <4>. QED BY <1>2, <2>3, <2>5, <4>1, <4>2, NewSubnetKeeps
    <3>. QED BY <3>1, <3>2
  <2>13. n = KeptName => s.key = KeptTo
    BY <2>10 DEF KeptTo
  <2>. HIDE DEF s, found
  <2>14. /\ KeptIfAny(slsClone.made, KeptTo, NewNames, FreshTerms)
         /\ (\E i \in DOMAIN slsClone.made : slsClone.made[i].key = KeptTo) \/ KeptName \in ToSet(slsClone.todo)
    BY <2>4 DEF CloneKeeps
  <2>15. /\ KeptIfAny(made, KeptTo, NewNames, FreshTerms)
         /\ (\E i \in DOMAIN slsClone.made : slsClone.made[i].key = KeptTo) \/ s.key = KeptTo
               => \E i \in DOMAIN made : made[i].key = KeptTo
    BY <2>7, <2>10, <2>12, <2>14, KeptPut
  <2>16. slsClone'.made = made /\ slsClone'.todo = Tail(slsClone.todo)
    BY <1>2, <2>1 DEF IsClone, s, found
  <2>. HIDE DEF made
  <2>17. (\E i \in DOMAIN made : made[i].key = KeptTo) \/ KeptName \in ToSet(Tail(slsClone.todo))
    BY <1>1, <2>7, <2>13, <2>14, <2>15, HeadOrTail DEF n
  <2>18. CloneKeeps'
    BY <1>1, <2>5, <2>15, <2>16, <2>17, SameTerms DEF CloneKeeps
  <2>19. NetsKeep(slsFile.nets)' /\ NetsKeep(slsNets)'
    BY <1>1, <2>4, SameTerms DEF NetsKeep
  <2>. QED BY <2>18, <2>19
<1>. QED BY <1>3, <1>4

\* The supernet hack, and the switches that bootstrap_dhcp loses.
LEMMA HackSafely ==
    ASSUME NEW s, Labelled(s), NEW cidr, NEW k, NEW N, NEW T
    PROVE  MapsSubnet(s, SupernetHack(s, cidr), k, N, N, T, T)
<1>. DEFINE t == [s EXCEPT !.cidr = cidr, !.gateway = cidr.base + 1]
<1>1. SupernetHack(s, cidr) \in {s, t}
  BY DEF SupernetHack
<1>2. /\ t.key = s.key /\ t.name = s.name
      /\ "reservations" \in DOMAIN s => "reservations" \in DOMAIN t /\ t.reservations = s.reservations
  <2>. DEFINE x == cidr.base + 1
  <2>. HIDE DEF x
  <2>. QED BY DEF Labelled
<1>. HIDE DEF t
<1>. QED BY <1>1, <1>2 DEF MapsSubnet, Holds

LEMMA WithoutSafely ==
    ASSUME NEW s, Labelled(s), NEW gone, NEW k, NEW N, NEW T, \A x \in T : x.keys \cap gone = {}
    PROVE  MapsSubnet(s, [s EXCEPT !.reservations = Without(@, gone)], k, N, N, T, T)
<1>. DEFINE q == Without(s.reservations, gone)
            t == [s EXCEPT !.reservations = q]
<1>1. SameLabels(s, t)
  BY OtherContents
<1>. SUFFICES ASSUME Holds(s, N, T) PROVE Holds(t, N, T)
  BY <1>1 DEF MapsSubnet, SameLabels
<1>2. "reservations" \in DOMAIN t /\ t.reservations = q
  <2>. HIDE DEF q
  <2>. QED BY DEF Holds
<1>3. Reserved(q, N) /\ \A x : x.keys \cap gone = {} /\ Carries(s.reservations, x) => Carries(q, x)
  BY ReservedWithout DEF Holds
<1>. HIDE DEF q, t
<1>. QED BY <1>2, <1>3 DEF Holds

LEMMA KeptMore ==
    ASSUME NEW list, NEW k, NEW N, NEW T, Kept(list, k, N, T), NEW U,
           \A y \in U : \E x \in T : y.name = x.name /\ y.ip = x.ip /\ x.keys \subseteq y.keys
    PROVE  Kept(list, k, N, U)
  BY HoldsMore DEF Kept, KeptIfAny

LEMMA NoSwitch ==
    ASSUME slsDump \in SlsInputs, Asked, NEW x \in FreshTerms
    PROVE  x.keys \cap {<<"cmn", "switch", "1">>, <<"cmn", "switch", "2">>} = {}
<1>1. PICK r \in WasKept : x.keys = {r.name}
  BY DEF FreshTerms, FreshTerm
<1>2. "cmn" \notin ToSet(r.name)
  BY WasReservations DEF WasKept, OldName
<1>3. \A w : "cmn" \in ToSet(<<"cmn", "switch", w>>)
  <2>. SUFFICES ASSUME NEW w PROVE "cmn" \in ToSet(<<"cmn", "switch", w>>)
    OBVIOUS
  <2>. DEFINE p == <<"cmn", "switch", w>>
  <2>1. 1 \in DOMAIN p /\ p[1] = "cmn"
    OBVIOUS
  <2>. HIDE DEF p
  <2>2. "cmn" \in ToSet(p)
    BY <2>1 DEF ToSet
  <2>. QED BY <2>2 DEF p
<1>. QED BY <1>1, <1>2, <1>3

LEMMA EndCloneKeeps == ASSUME UpgradeRoutes, UpgradeOnVlans, UpgradeKeeps, EndClone PROVE UpgradeKeeps'
<1>. DEFINE to == CloneTo[slsPc]
            n == to.net
            first == Net(slsClone.cidr, slsClone.made)
            p == [i \in DOMAIN first.subnets |-> SupernetHack(first.subnets[i], slsClone.cidr)]
            second == [first EXCEPT !.subnets = p]
            gone == IF n = "CAN" THEN {} ELSE {<<"cmn", "switch", "1">>, <<"cmn", "switch", "2">>}
            q == [i \in DOMAIN second.subnets |->
                IF second.subnets[i].key = Bootstrap
                THEN [second.subnets[i] EXCEPT !.reservations = Without(@, gone)] ELSE second.subnets[i]]
            third == [second EXCEPT !.subnets = q]
<1>0. slsPc \in {"CMN subnets", "CAN subnets"} /\ slsClone.todo = <<>>
  BY StepsOfClone DEF EndClone
<1>1. /\ slsPc = "CMN subnets" => n = "CMN" /\ to.next = "static pool"
      /\ slsPc = "CAN subnets" => n = "CAN" /\ to.next = "bgp"
  BY <1>0 DEF CloneTo
<1>2. slsPc \notin Resting /\ NetsKnown(slsNets) /\ slsDump \in SlsInputs
  BY <1>0 DEF UpgradeOnVlans, UpgradeRoutes, Resting
<1>3. slsNets' = [slsNets EXCEPT ![n] = third]
  BY DEF EndClone, OnSubnet, OnSubnets
<1>4. slsPc' = to.next /\ UNCHANGED <<slsFile, slsOptions, slsCommands, slsDump>>
  BY DEF EndClone, SlsCalls, SlsGoTo
<1>. HIDE DEF to, third
<1>5. n \in {"CMN", "CAN"} /\ {"CMN", "CAN"} \subseteq SlsNetwork /\ \A m \in SlsNetwork : slsNets'[m] = IF m = n THEN third ELSE slsNets[m]
  <2>1. {"CMN", "CAN"} \subseteq SlsNetwork /\ n \in {"CMN", "CAN"}
    BY <1>0, <1>1 DEF SlsNetwork
  <2>. HIDE DEF n
  <2>. QED BY <1>2, <1>3, <2>1 DEF NetsKnown
<1>6. CASE slsPc = "CAN subnets"
  <2>1. slsNets["CMN"] # NoNetwork
    BY <1>2, <1>6, HasCmn DEF WithoutCmn
  <2>2. slsNets'["CMN"] = slsNets["CMN"]
    BY <1>1, <1>5, <1>6
  <2>3. Asked => NetsKeep(slsNets')
    BY <1>2, <2>1, <2>2 DEF UpgradeKeeps, NetsKeep
  <2>. QED BY <1>1, <1>4, <1>6, <2>3, StepToKeeps
<1>7. CASE slsPc = "CMN subnets"
  <2>. SUFFICES ASSUME Asked PROVE NetsKeep(slsNets')
    BY <1>1, <1>4, <1>7, StepToKeeps
  <2>1. Kept(slsClone.made, KeptTo, NewNames, FreshTerms)
    <3>1. ToSet(slsClone.todo) = {}
      <4>1. ToSet(<<>>) = {}
        BY DEF ToSet
      <4>. QED BY <1>0, <4>1
    <3>. QED BY <1>7, <3>1 DEF UpgradeKeeps, CloneKeeps, Kept
  <2>2. AllLabelled(slsClone.made)
    BY <1>7, EachOnVlan DEF UpgradeOnVlans, CloneOnVlans, AllLabelled
  <2>3. IsNet(first) /\ first.subnets = slsClone.made
    <3>1. first = [cidr |-> slsClone.cidr, subnets |-> slsClone.made, bgp |-> NoNetwork.bgp, route |-> NoNetwork.route]
      BY NetRecord
    <3>. HIDE DEF first
    <3>. QED BY <3>1 DEF IsNet
  <2>. HIDE DEF first
  <2>4. DOMAIN p = DOMAIN first.subnets /\ \A i \in DOMAIN p : p[i] = SupernetHack(first.subnets[i], slsClone.cidr)
    OBVIOUS
  <2>. HIDE DEF p
  <2>5. IsNet(second) /\ second.subnets = p
    BY <2>3, OtherSubnetsNet, SubnetsOfExcept
  <2>. HIDE DEF second
  <2>6. /\ DOMAIN q = DOMAIN second.subnets
        /\ \A i \in DOMAIN q : q[i] = IF second.subnets[i].key = Bootstrap
                                      THEN [second.subnets[i] EXCEPT !.reservations = Without(@, gone)] ELSE second.subnets[i]
    OBVIOUS
  <2>7. gone = {<<"cmn", "switch", "1">>, <<"cmn", "switch", "2">>}
    BY <1>1, <1>7
  <2>. HIDE DEF q, gone
  <2>8. third.subnets = q
    BY <2>5, SubnetsOfExcept DEF third
  <2>9. Kept(p, KeptTo, NewNames, FreshTerms)
    BY <2>1, <2>2, <2>3, <2>4, HackSafely, KeptMap DEF AllLabelled
  <2>10. AllLabelled(p)
    <3>1. \A s : Labelled(s) => Labelled(SupernetHack(s, slsClone.cidr))
      BY DEF SupernetHack, Labelled
    <3>. QED BY <2>2, <2>3, <2>4, <3>1 DEF AllLabelled
  <2>11. Kept(q, KeptTo, NewNames, FreshTerms)
    <3>1. \A x \in FreshTerms : x.keys \cap gone = {}
      BY <1>2, <2>7, NoSwitch
    <3>2. ASSUME NEW i \in DOMAIN p PROVE MapsSubnet(p[i], q[i], KeptTo, NewNames, NewNames, FreshTerms, FreshTerms)
      <4>. DEFINE s == p[i]
                  t == q[i]
                  u == [s EXCEPT !.reservations = Without(@, gone)]
      <4>1. t \in {s, u}
        BY <2>5, <2>6
      <4>2. Labelled(s)
        BY <2>10 DEF AllLabelled
      <4>. HIDE DEF s, t
      <4>3. MapsSubnet(s, s, KeptTo, NewNames, NewNames, FreshTerms, FreshTerms)
        BY DEF MapsSubnet
      <4>4. MapsSubnet(s, u, KeptTo, NewNames, NewNames, FreshTerms, FreshTerms)
        BY <3>1, <4>2, WithoutSafely
      <4>. QED BY <4>1, <4>3, <4>4 DEF s, t
    <3>. QED BY <2>5, <2>6, <2>9, <3>2, KeptMap
  <2>12. Kept(q, KeptTo, NewNames, NewTerms)
    <3>1. ASSUME NEW y \in NewTerms PROVE \E x \in FreshTerms : y.name = x.name /\ y.ip = x.ip /\ x.keys \subseteq y.keys
      <4>1. PICK r \in WasKept : y = NewTerm(r)
        BY DEF NewTerms
      <4>2. FreshTerm(r) \in FreshTerms
        BY DEF FreshTerms
      <4>. QED BY <4>1, <4>2 DEF FreshTerm, NewTerm
    <3>. QED BY <2>11, <3>1, KeptMore
  <2>13. slsNets'["CMN"] = third
    BY <1>1, <1>5, <1>7
  <2>14. third # NoNetwork
    <3>1. \A list : Kept(list, KeptTo, NewNames, NewTerms) => list # <<>>
      BY DEF Kept
    <3>. QED BY <2>8, <2>12, <3>1, NoNetworkIsNet
  <2>. QED BY <2>8, <2>12, <2>13, <2>14 DEF NetsKeep
<1>. QED BY <1>0, <1>6, <1>7

\* Each step of the upgrade.
LEMMA StepKeepsThem == ASSUME UpgradeRoutes, UpgradeOnVlans, UpgradeKeeps, SlsNext PROVE UpgradeKeeps'
  BY LoadKeeps, SwitchesKeeps, BalancersKeeps, StartCmnKeeps, StartCanKeeps, CloneSubnetKeeps, EndCloneKeeps,
     StaticPoolKeeps, KubeApiKeepsThem, ChnKeeps, BgpKeepsThem, UaiKeeps, RemoveUnusedKeeps, BicanKeeps,
     WriteKeeps DEF SlsNext

LEMMA InitKeeps == SlsInit => UpgradeKeeps
<1>. SUFFICES ASSUME SlsInit, Asked PROVE NetsKeep(slsFile.nets) /\ slsPc = "load"
  BY DEF UpgradeKeeps, Resting
<1>1. /\ slsDump \in SlsInputs /\ slsFile.nets = slsDump.nets /\ slsPc = "load" /\ slsFile.nets["CMN"] = NoNetwork
  BY SlsInputsAssumption DEF SlsInit
<1>. QED BY <1>1, DumpKeeps DEF NetsKeep

LEMMA StutterKeeps == ASSUME UpgradeKeeps, UNCHANGED slsVars PROVE UpgradeKeeps'
<1>1. UNCHANGED <<slsFile, slsNets, slsOptions, slsCommands, slsClone, slsPc, slsDump>>
  BY DEF slsVars
<1>. QED BY <1>1, SameTerms DEF UpgradeKeeps, NetsKeep, CloneKeeps

\* What is written then.
LEMMA KeepsPreserved == UpgradeOnVlans /\ UpgradeKeeps => PreservedIpsKept
<1>. DEFINE subnet == Preserved[FirstCommand.preserve]
            was == Get(slsDump.nets["CAN"].subnets, subnet[1]).reservations
            list == slsFile.nets["CMN"].subnets
            now == Get(list, subnet[2]).reservations
<1>. SUFFICES ASSUME UpgradeOnVlans, UpgradeKeeps, slsPc = "written", FirstCommand.preserve \in DOMAIN Preserved,
                     Has(slsDump.nets["CAN"].subnets, subnet[1]),
                     NEW i \in DOMAIN was, was[i].name # KubeApi
              PROVE  \E j \in DOMAIN now : now[j].ip = was[i].ip /\ now[j].name = Renamed(was[i].name, "can", <<"cmn">>)
  BY DEF PreservedIpsKept
<1>1. subnet[1] = KeptFrom /\ subnet[2] = KeptTo
  BY KeptNames
<1>2. Asked /\ was = Was /\ now = Get(list, KeptTo).reservations
  BY <1>1 DEF Asked, Was
<1>3. slsFile.nets["CMN"] # NoNetwork
  BY DEF UpgradeOnVlans, FileOnVlans
<1>4. Kept(list, KeptTo, NewNames, NewTerms) /\ Entries(list)
  BY <1>2, <1>3, FileLabelled DEF UpgradeKeeps, NetsKeep
<1>5. Holds(Get(list, KeptTo), NewNames, NewTerms)
  <2>. HIDE DEF list
  <2>. QED BY <1>4, KeptGet
<1>. HIDE DEF was, now, list
<1>6. was[i] \in WasKept
  BY <1>2 DEF WasKept, ToSet
<1>7. Carries(now, NewTerm(was[i]))
  BY <1>2, <1>5, <1>6 DEF Holds, NewTerms
<1>8. NewTerm(was[i]).name = Renamed(was[i].name, "can", <<"cmn">>) /\ NewTerm(was[i]).ip = was[i].ip
  BY DEF NewTerm, InCmn
<1>. QED BY <1>7, <1>8 DEF Carries, now

LEMMA InitKeepsInChanges == ChangesInit => KeepsInChanges
  BY InitRoutes, InitOnVlans, InitKeeps DEF ChangesInit, KeepsInChanges, UpgradeAtRest

LEMMA StepKeepsInChanges == ASSUME KeepsInChanges, [ChangesNext]_changesVars PROVE KeepsInChanges'
<1>1. CASE ~InUpgrade
  <2>1. UNCHANGED <<changed, slsPc>>
    BY <1>1 DEF ChangesNext, changesVars, UpgradeChanges, slsVars
  <2>. QED BY <1>1, <2>1 DEF KeepsInChanges, InUpgrade
<1>2. CASE InUpgrade
  <2>0. UpgradeRoutes /\ UpgradeOnVlans /\ UpgradeKeeps
    BY <1>2 DEF KeepsInChanges
  <2>1. InUpgrade' /\ (SlsNext \/ UNCHANGED slsVars)
    BY <1>2 DEF ChangesNext, changesVars, InUpgrade, UpgradeChanges
  <2>2. UpgradeRoutes' /\ UpgradeOnVlans' /\ UpgradeKeeps'
    BY <2>0, <2>1, StepRoutes, StutterRoutes, StepOnVlans, StutterOnVlans, StepKeepsThem, StutterKeeps
  <2>. QED BY <2>1, <2>2 DEF KeepsInChanges
<1>. QED BY <1>1, <1>2

\* Asked to keep them, the CMN that the upgrade writes has the addresses that the NCNs, or
\* the services of the static pool, had in the old CAN, under their names in the CMN, and
\* keeps them when the script runs on its own output.
THEOREM PreservedIpsStay == ChangesSpec => []PreservedIpsKept
<1>1. KeepsInChanges /\ [ChangesNext]_changesVars => KeepsInChanges'
  BY StepKeepsInChanges
<1>2. ChangesSpec => []KeepsInChanges
  BY <1>1, InitKeepsInChanges, PTL DEF ChangesSpec
<1>3. KeepsInChanges => PreservedIpsKept
  <2>1. slsPc = "load" => PreservedIpsKept
    BY DEF PreservedIpsKept
  <2>. QED BY <2>1, KeepsPreserved DEF KeepsInChanges
<1>. QED BY <1>2, <1>3, PTL

-----------------------------------------------------------------------------
(* The networks of users before UANs have addresses.                        *)

LEMMA KinFormed ==
    ASSUME NEW old, NEW new, NetsKnown(old), SameNets(old, new), NetsKin(old, new), Formed(old) PROVE Formed(new)
<1>1. \A n \in {"CAN", "CHN", "HSN"} : n \in SlsNetwork /\ n \in LabelledNets
  BY DEF SlsNetwork, LabelledNets
<1>. QED BY <1>1, SameNetsKnown DEF Formed, NetsKin, Kin

LEMMA NoFileFormed == Formed(NoFile)
  BY NothingOnVlans, NoNetworkIsNet DEF Formed, NoFile, SlsNetwork

LEMMA LoadedFormed ==
    ASSUME NEW file \in ChnFile, Sent(chnFiles[file]), Formed(chnFiles[file])
    PROVE  Formed(Loaded(file)) /\ Named(Loaded(file)["CHN"].subnets)
<1>. DEFINE old == chnFiles[file]
<1>1. NetsKnown(old) /\ SameNets(old, Loaded(file)) /\ "CHN" \in SlsNetwork
  BY LoadedSame DEF Sent, SlsNetwork
<1>2. NetsKin(old, Loaded(file))
  BY <1>1, NetsReadKin DEF Loaded
<1>3. Loaded(file)["CHN"] = network_from_sls_data(old["CHN"])
  BY <1>1 DEF Loaded
<1>4. PICK W : OnVlans(old["CHN"].subnets, W)
  BY DEF Formed
<1>5. IsNet(old["CHN"])
  BY <1>1 DEF NetsKnown
<1>. HIDE DEF old
<1>. DEFINE list == old["CHN"].subnets
            q == [i \in DOMAIN list |-> subnet_from_sls_data(list[i])]
<1>6. Relabels(list, q)
  BY ReadFilled DEF Relabels
<1>7. network_from_sls_data(old["CHN"]).subnets = Keyed(q)
  BY <1>5 DEF network_from_sls_data, IsNet
<1>. HIDE DEF q
<1>8. Named(Keyed(q))
  BY <1>4, <1>6, RelabelsOnVlans, KeyedOnVlans
<1>. QED BY <1>1, <1>2, <1>3, <1>7, <1>8, KinFormed DEF old

LEMMA OneNetFormed ==
    ASSUME NEW nets, NetsKnown(nets), Formed(nets), NEW n \in SlsNetwork, NEW net,
           \E W : OnVlans(net.subnets, W), n # "HSN" /\ net # NoNetwork => Booted(net.subnets)
    PROVE  Formed([nets EXCEPT ![n] = net])
<1>1. \A m \in SlsNetwork : [nets EXCEPT ![n] = net][m] = IF m = n THEN net ELSE nets[m]
  BY DEF NetsKnown
<1>2. {"CAN", "CHN", "HSN"} \subseteq SlsNetwork
  BY DEF SlsNetwork
<1>. HIDE DEF SlsNetwork
<1>. DEFINE new == [nets EXCEPT ![n] = net]
<1>. HIDE DEF new
<1>3. \A m \in SlsNetwork : new[m] = IF m = n THEN net ELSE nets[m]
  BY <1>1 DEF new
<1>4. Formed(new)
  BY <1>2, <1>3 DEF Formed
<1>. QED BY <1>4 DEF new

\* The bootstrap_dhcp with the addresses of the nodes of the HSN.
LEMMA WithComputesFilled ==
    ASSUME NEW hsn, NEW X, hsn.reservations \in Seq(X), NEW b, Filled(b)
    PROVE  Filled(WithComputes(hsn, b)) /\ SameLabels(b, WithComputes(hsn, b))
<1>. DEFINE added == Those(hsn.reservations, {r \in ToSet(hsn.reservations) : r.name \in AddedComputes(hsn, b)})
            less == [b EXCEPT !.reservations = Without(@, RemovedComputes(hsn, b))]
            all == Addressed(less, ByNames(added))
<1>1. \E kept : added \in Seq(X \cap kept)
  BY ThoseIn
<1>2. WithComputes(hsn, b) = [all EXCEPT !.dhcp[1] = next_free_ipv4_address(all)]
  BY DEF WithComputes
<1>. HIDE DEF added
<1>3. Bare(ByNames(added))
  BY <1>1, BareByNames
<1>4. Filled(less) /\ SameLabels(b, less)
  BY BareWithout, OtherFilled, OtherContents DEF Filled
<1>. HIDE DEF less
<1>5. Filled(all) /\ SameLabels(b, all)
  BY <1>3, <1>4, AddressedFilled DEF SameLabels
<1>. HIDE DEF all
<1>. DEFINE d == [all.dhcp EXCEPT ![1] = next_free_ipv4_address(all)]
<1>6. WithComputes(hsn, b) = [all EXCEPT !.dhcp = d]
  BY <1>2
<1>. HIDE DEF d
<1>7. Filled([all EXCEPT !.dhcp = d]) /\ SameLabels(b, [all EXCEPT !.dhcp = d])
  BY <1>5 DEF Filled, Labelled, SameLabels
<1>. QED BY <1>6, <1>7

LEMMA MakesFormed ==
    ASSUME MoveRoutes, MoveFormed, NEW file \in ChnFile, NEW nets, Sent(nets), Formed(nets), Makes(file, nets),
           uanRuns' = uanRuns
    PROVE  MoveFormed'
<1>. DEFINE new == NetworksToSls(nets)
<1>1. Formed(new)
  BY NetworksToSlsSame, ToSlsKin, KinFormed DEF Sent
<1>2. chnSls' = chnSls /\ chnFiles' = [chnFiles EXCEPT ![file] = new]
  BY DEF Makes
<1>. HIDE DEF new
<1>. QED BY <1>1, <1>2 DEF MoveFormed, MoveRoutes

LEMMA DumpFormed ==
    ASSUME UpgradeRoutes, UpgradeOnVlans, MoveRoutes, MoveFormed, DumpSls, uanRuns' = uanRuns PROVE MoveFormed'
<1>. DEFINE old == slsFile.nets
            Hsn(rs) == OnSubnet(old["HSN"], HsnBase, LAMBDA s : [s EXCEPT !.reservations = rs])
            Given(rs) == OnSubnet(old["CHN"], Bootstrap, LAMBDA s : WithComputes([reservations |-> rs], s))
<1>1. PICK before, now \in HsnReservations : chnSls' = [old EXCEPT !["HSN"] = Hsn(now), !["CHN"] = Given(before)]
  BY DEF DumpSls
<1>2. NetsKnown(old) /\ {"HSN", "CHN", "CAN"} \subseteq SlsNetwork
  BY DEF UpgradeRoutes, SlsNetwork
<1>3. Formed(old)
  <2>1. slsPc = "written"
    BY DEF DumpSls
  <2>2. (\E W : NetsOnVlans(old, W)) /\ NetsBooted(old)
    BY <2>1 DEF UpgradeOnVlans, FileOnVlans
  <2>. HIDE DEF old
  <2>. QED BY <2>2 DEF Formed, NetsOnVlans, NetsBooted, UserNets
<1>4. \A rs \in HsnReservations : Bare(rs) /\ \E X : rs \in Seq(X)
  <2>1. \A rs \in HsnReservations : rs \in Seq(ToSet(rs)) /\ \A r \in ToSet(rs) : r = Reservation(r.name, r.ip)
    BY HsnReservationsAssumption
  <2>2. \A r : r = Reservation(r.name, r.ip) => {"key", "name"} \subseteq DOMAIN r /\ "comment" \notin DOMAIN r
    <3>1. \A n, i : DOMAIN Reservation(n, i) = {"key", "name", "ip"}
      BY DEF Reservation
    <3>2. ASSUME NEW r, r = Reservation(r.name, r.ip) PROVE DOMAIN r = {"key", "name", "ip"}
      <4>. DEFINE w == Reservation(r.name, r.ip)
      <4>1. DOMAIN w = {"key", "name", "ip"}
        BY <3>1
      <4>. HIDE DEF w
      <4>. QED BY <3>2, <4>1 DEF w
    <3>. QED BY <3>2
  <2>. QED BY <2>1, <2>2, BareOf
<1>. HIDE DEF old
<1>5. PICK W : OnVlans(old["HSN"].subnets, W)
  BY <1>3 DEF Formed
<1>6. PICK V : OnVlans(old["CHN"].subnets, V)
  BY <1>3 DEF Formed
<1>7. \E U : OnVlans(Hsn(now).subnets, U)
  <2>. DEFINE q == [i \in DOMAIN old["HSN"].subnets |->
                      IF old["HSN"].subnets[i].key = HsnBase THEN [old["HSN"].subnets[i] EXCEPT !.reservations = now]
                      ELSE old["HSN"].subnets[i]]
  <2>1. Hsn(now).subnets = q
    BY <1>2, SubnetsOfExcept DEF OnSubnet, OnSubnets, NetsKnown
  <2>2. Relabels(old["HSN"].subnets, q)
    BY <1>4, OtherFilled, OtherContents DEF Relabels, SameLabels, Filled
  <2>. HIDE DEF q
  <2>. QED BY <1>5, <2>1, <2>2, RelabelsOnVlans
<1>8. (\E U : OnVlans(Given(before).subnets, U)) /\ (Given(before) # NoNetwork => Booted(Given(before).subnets))
  <2>. DEFINE hsn == [reservations |-> before]
              list == old["CHN"].subnets
              q == [i \in DOMAIN list |-> IF list[i].key = Bootstrap THEN WithComputes(hsn, list[i]) ELSE list[i]]
  <2>0. IsNet(old["CHN"])
    BY <1>2 DEF NetsKnown
  <2>1. Given(before) = [old["CHN"] EXCEPT !.subnets = q]
    BY DEF OnSubnet, OnSubnets
  <2>2. \E X : hsn.reservations \in Seq(X)
    BY <1>4
  <2>. HIDE DEF hsn
  <2>3. Relabels(list, q)
    BY <2>2, WithComputesFilled DEF Relabels, SameLabels
  <2>. HIDE DEF q, Given
  <2>4. SameNet(old["CHN"], Given(before))
    BY <2>0, <2>1, <2>3, OnSubnetsSame DEF Relabels
  <2>5. Given(before).subnets = q
    BY <2>0, <2>1, SubnetsOfExcept
  <2>6. Given(before) # NoNetwork => Booted(list)
    BY <1>3, <2>4 DEF Formed, SameNet
  <2>. QED BY <1>6, <2>3, <2>5, <2>6, RelabelsOnVlans
<1>. HIDE DEF Hsn, Given
<1>. DEFINE mid == [old EXCEPT !["HSN"] = Hsn(now)]
            new == [mid EXCEPT !["CHN"] = Given(before)]
<1>9. Formed(mid)
  BY <1>2, <1>3, <1>7, OneNetFormed
<1>10. mid["CAN"] = old["CAN"] /\ new = chnSls' /\ mid["HSN"] = Hsn(now)
  BY <1>1, <1>2 DEF NetsKnown
<1>11. \A n \in SlsNetwork : new[n] = IF n = "CHN" THEN Given(before) ELSE mid[n]
  BY <1>2 DEF NetsKnown
<1>. HIDE DEF mid, new
<1>12. Formed(new)
  BY <1>2, <1>8, <1>9, <1>11 DEF Formed
<1>13. chnFiles' = [chnFiles EXCEPT !["dump"] = chnSls']
  BY DEF DumpSls
<1>. QED BY <1>10, <1>12, <1>13 DEF MoveFormed, MoveRoutes

\* The CHN that is made: of a CAN, as there is nothing to make without.
LEMMA FoundFormed ==
    ASSUME NEW nets, NetsKnown(nets), Formed(nets), NEW block \in ChnBlocks, NEW edge,
           ~(nets["CHN"] = NoNetwork /\ ChnFails(FoundChn(nets, block, edge)))
    PROVE  LET chn == FoundChn(nets, block, edge)
           IN  (\E W : OnVlans(chn.subnets, W)) /\ Booted(chn.subnets)
<1>. DEFINE chn == FoundChn(nets, block, edge)
<1>0. {"CAN", "CHN"} \subseteq SlsNetwork
  BY DEF SlsNetwork
<1>1. CASE nets["CHN"] # NoNetwork
  BY <1>1 DEF Formed, FoundChn
<1>2. CASE nets["CHN"] = NoNetwork
  <2>. DEFINE first == chn_network(nets, block, edge)
              q == [i \in DOMAIN first.subnets |->
                      IF first.subnets[i].name = Pool("chn")
                      THEN [first.subnets[i] EXCEPT !.pool = first.subnets[i].name] ELSE first.subnets[i]]
              yes == TRUE
  <2>1. chn = [[first EXCEPT !.subnets = q] EXCEPT !.bgp = yes] /\ ~ChnFails(chn)
    BY <1>2 DEF create_metallb_pool, OnSubnets, FoundChn
  <2>2. first.cidr = block /\ IsNet(first)
    BY NewNet, BlockNotRaised, ChnBlocksAssumption DEF chn_network, Chn
  <2>3. Relabels(first.subnets, q)
    BY OtherContents, OtherFilled DEF Relabels, SameLabels, Filled
  <2>4. PICK W : OnVlans(nets["CAN"].subnets, W)
    BY DEF Formed
  <2>5. PICK gone, pools : first = Chn(nets["CAN"], block, 5, edge, gone, pools)
    BY DEF chn_network
  <2>. HIDE DEF first
  <2>. DEFINE can == nets["CAN"]
              five == 5
  <2>6. /\ OnVlans(first.subnets, {five}) /\ (Booted(can.subnets) => Booted(first.subnets))
        /\ \A i \in DOMAIN first.subnets : i \in DOMAIN can.subnets
    <3>1. first = Chn(can, block, five, edge, gone, pools) /\ OnVlans(can.subnets, W)
      BY <2>4, <2>5
    <3>. HIDE DEF can, five
    <3>. QED BY <3>1, ChnOnVlans
  <2>. HIDE DEF q, yes, chn
  <2>7. chn.subnets = q
    BY <2>1, <2>2, WithBgp
  <2>8. OnVlans(q, {5}) /\ (Booted(first.subnets) => Booted(q)) /\ DOMAIN q = DOMAIN first.subnets
    BY <2>3, <2>6, RelabelsOnVlans DEF Relabels
  <2>9. nets["CAN"] # NoNetwork
    <3>. SUFFICES ASSUME nets["CAN"] = NoNetwork PROVE FALSE
      OBVIOUS
    <3>1. nets["CAN"].subnets = <<>>
      BY NoNetworkIsNet
    <3>2. DOMAIN nets["CAN"].subnets = {}
      BY <3>1
    <3>3. DOMAIN chn.subnets = {}
      BY <2>6, <2>7, <2>8, <3>2
    <3>. QED BY <2>1, <3>3 DEF ChnFails
  <2>. QED BY <2>6, <2>7, <2>8, <2>9 DEF Formed, chn
<1>. QED BY <1>1, <1>2

LEMMA CanToChnFormed ==
    ASSUME MoveRoutes, MoveFormed, SlsCanToChn, uanRuns = 0, uanRuns' = uanRuns PROVE MoveFormed'
<1>. DEFINE nets == Loaded("dump")
            New(block, edge) == WithChn(nets, FoundChn(nets, block, edge))
            Moved(block, edge) == remove_uai_nmn_dhcp_ranges(New(block, edge))
<1>1. "dump" \in ChnFile /\ "chn" \in ChnFile /\ {"CAN", "CHN", "HSN", "BICAN", "NMN"} \subseteq SlsNetwork
  BY DEF ChnFile, SlsNetwork
<1>2. Sent(nets) /\ NetsKnown(nets) /\ nets["BICAN"] # NoNetwork /\ Formed(nets)
  BY <1>1, CanToChnSteps, LoadedFormed DEF MoveRoutes, MoveFormed, Sent
<1>3. CASE UNCHANGED <<chnSls, chnFiles>>
  BY <1>3 DEF MoveFormed
<1>4. ASSUME NEW block \in ChnBlocks, NEW edge \in {1, 2},
             ~(nets["CHN"] = NoNetwork /\ ChnFails(FoundChn(nets, block, edge))), Makes("chn", Moved(block, edge))
      PROVE  MoveFormed'
  <2>. HIDE DEF nets
  <2>. DEFINE chn == FoundChn(nets, block, edge)
              mid == [nets EXCEPT !["CHN"] = chn]
              new == New(block, edge)
              last == Moved(block, edge)
  <2>1. (\E W : OnVlans(chn.subnets, W)) /\ Booted(chn.subnets)
    BY <1>2, <1>4, FoundFormed
  <2>. HIDE DEF chn
  <2>2. Formed(mid)
    BY <1>1, <1>2, <2>1, OneNetFormed
  <2>3. \A n \in {"CAN", "CHN", "HSN"} : new[n] = mid[n]
    BY <1>1, <1>2 DEF WithChn, NetsKnown, chn
  <2>4. Sent(last) /\ \A n \in SlsNetwork \ {"NMN"} : last[n] = new[n]
    BY <1>2, ChnIsSent
  <2>5. Makes("chn", last)
    BY <1>4
  <2>. HIDE DEF mid, new, last
  <2>6. Formed(last)
    BY <1>1, <2>2, <2>3, <2>4 DEF Formed
  <2>. QED BY <1>1, <2>4, <2>5, <2>6, MakesFormed
<1>. QED BY <1>3, <1>4, CanToChnSteps

\* The nodes of the HSN get their addresses in the bootstrap_dhcp of the CHN.
LEMMA AddComputesFormed ==
    ASSUME MoveRoutes, MoveFormed, AddComputes, uanRuns = 0, uanRuns' = uanRuns PROVE MoveFormed'
<1>. DEFINE nets == Loaded("chn")
            hsn == Get(nets["HSN"].subnets, HsnBase)
            b == Get(nets["CHN"].subnets, Bootstrap)
            s == WithComputes(hsn, b)
<1>1. "chn" \in ChnFile /\ "computes" \in ChnFile /\ {"CHN", "HSN"} \subseteq SlsNetwork
  BY DEF ChnFile, SlsNetwork
<1>2. Sent(nets) /\ NetsKnown(nets) /\ Formed(nets) /\ Named(nets["CHN"].subnets)
  BY <1>1, LoadedSame, LoadedFormed DEF MoveRoutes, MoveFormed, Sent
<1>3. CASE UNCHANGED <<chnSls, chnFiles>>
  BY <1>3 DEF MoveFormed
<1>4. ASSUME nets["CHN"] # NoNetwork, Has(nets["HSN"].subnets, HsnBase),
             Makes("computes", [nets EXCEPT !["CHN"].subnets = Put(@, s)])
      PROVE  MoveFormed'
  <2>. HIDE DEF nets
  <2>. DEFINE list == nets["CHN"].subnets
              net == [nets["CHN"] EXCEPT !.subnets = Put(list, s)]
              new == [nets EXCEPT !["CHN"] = net]
  <2>1. PICK W : OnVlans(list, W)
    BY <1>2 DEF Formed
  <2>2. PICK V : OnVlans(nets["HSN"].subnets, V)
    BY <1>2 DEF Formed
  <2>3. hsn \in ToSet(nets["HSN"].subnets)
    BY <1>4, <2>2, GetIs DEF OnVlans
  <2>4. \E X : hsn.reservations \in Seq(X)
    BY <2>2, <2>3 DEF OnVlans, Filled, Bare, Entries
  <2>5. Booted(list) /\ Has(list, Bootstrap)
    BY <1>2, <1>4 DEF Formed, Booted, Has
  <2>6. b \in ToSet(list) /\ b.key = Bootstrap
    BY <2>1, <2>5, GetIs DEF OnVlans
  <2>7. Filled(b) /\ b.vlan \in W /\ b.name = b.key
    BY <1>2, <2>1, <2>6 DEF OnVlans, Named, ToSet
  <2>8. Filled(s) /\ s.vlan \in W /\ s.key = s.name
    <3>. HIDE DEF hsn, b
    <3>. QED BY <2>4, <2>7, WithComputesFilled DEF SameLabels
  <2>. HIDE DEF s
  <2>9. OnVlans(Put(list, s), W) /\ Booted(Put(list, s))
    BY <2>1, <2>5, <2>8, OnVlansPut, PutBooted DEF OnVlans
  <2>10. net.subnets = Put(list, s)
    BY <1>1, <1>2, SubnetsOfExcept DEF NetsKnown
  <2>11. new = [nets EXCEPT !["CHN"].subnets = Put(@, s)]
    OBVIOUS
  <2>12. Sent(new)
    BY <1>2, <1>4, <2>11, PutIsSent
  <2>. HIDE DEF net
  <2>13. Formed(new)
    BY <1>1, <1>2, <2>9, <2>10, OneNetFormed
  <2>14. Makes("computes", new)
    BY <1>4, <2>11
  <2>. HIDE DEF new
  <2>. QED BY <1>1, <2>12, <2>13, <2>14, MakesFormed
<1>. QED BY <1>3, <1>4 DEF AddComputes

LEMMA DeleteCanFormed ==
    ASSUME MoveRoutes, MoveFormed, DeleteCan, uanRuns = 0, uanRuns' = uanRuns PROVE MoveFormed'
<1>1. PICK file \in ChnFile :
        \/ MayDeleteCan(Loaded(file)) /\ Makes("noCan", [Loaded(file) EXCEPT !["CAN"] = NoNetwork])
        \/ UNCHANGED <<chnSls, chnFiles>>
  BY DEF DeleteCan
<1>2. CASE UNCHANGED <<chnSls, chnFiles>>
  BY <1>2 DEF MoveFormed
<1>3. ASSUME MayDeleteCan(Loaded(file)), Makes("noCan", [Loaded(file) EXCEPT !["CAN"] = NoNetwork])
      PROVE  MoveFormed'
  <2>1. Sent(Loaded(file)) /\ Formed(Loaded(file)) /\ "noCan" \in ChnFile /\ "CAN" \in SlsNetwork
    BY LoadedSame, LoadedFormed DEF MoveRoutes, MoveFormed, ChnFile, SlsNetwork
  <2>2. Formed([Loaded(file) EXCEPT !["CAN"] = NoNetwork])
    BY <2>1, NothingOnVlans, NoNetworkIsNet, OneNetFormed DEF Sent
  <2>. QED BY <1>3, <2>1, <2>2, WithoutCanSent, MakesFormed
<1>. QED BY <1>1, <1>2, <1>3

LEMMA ChnStepFormed ==
    ASSUME UpgradeRoutes, UpgradeOnVlans, MoveRoutes, MoveFormed, ChnNext, uanRuns = 0, uanRuns' = uanRuns
    PROVE  MoveFormed'
<1>1. CASE LoadChn \/ LoadComputes \/ LoadNoCan
  BY <1>1 DEF LoadChn, LoadComputes, LoadNoCan, LoadFile, ChnFile, MoveFormed
<1>2. CASE SkipComputes \/ DumpBss \/ BssRemoveCan
  BY <1>2 DEF MoveFormed, SkipComputes, DumpBss, BssRemoveCan
<1>. QED BY <1>1, <1>2, DumpFormed, CanToChnFormed, AddComputesFormed, DeleteCanFormed DEF ChnNext

-----------------------------------------------------------------------------
(* A UAN has an address of all networks, or of none.                        *)

\* Dicts: no key twice.
Distinct(list) == \A i, j \in DOMAIN list : list[i].key = list[j].key => i = j

LEMMA PutDistinct ==
    ASSUME NEW X, NEW list \in Seq(X), Distinct(list), NEW r
    PROVE  Distinct(Put(list, r))
<1>0. DOMAIN list = 1..Len(list) /\ Len(list) \in Nat
  OBVIOUS
<1>1. CASE Has(list, r.key)
  <2>1. Put(list, r) = [i \in DOMAIN list |-> IF list[i].key = r.key THEN r ELSE list[i]]
    BY <1>1 DEF Put
  <2>. QED BY <2>1 DEF Distinct
<1>2. CASE ~Has(list, r.key)
  <2>. DEFINE q == Append(list, r)
  <2>1. Put(list, r) = q
    BY <1>2 DEF Put
  <2>2. DOMAIN q = 1..Len(list) + 1 /\ q[Len(list) + 1] = r /\ \A i \in 1..Len(list) : q[i] = list[i]
    <3>1. list \in Seq(X \cup {r}) /\ r \in X \cup {r}
      OBVIOUS
    <3>. QED BY <3>1
  <2>. HIDE DEF q
  <2>3. \A i \in DOMAIN q : i = Len(list) + 1 \/ (i \in DOMAIN list /\ q[i] = list[i] /\ q[i].key # r.key)
    BY <1>0, <1>2, <2>2 DEF Has
  <2>4. Distinct(q)
    BY <2>2, <2>3 DEF Distinct
  <2>. QED BY <2>1, <2>4
<1>. QED BY <1>1, <1>2

LEMMA KeyedDistinct == ASSUME NEW list, Entries(list) PROVE Distinct(Keyed(list))
<1>. DEFINE X == ToSet(list)
            G == {ByName(x) : x \in X}
            V == {v \in Seq(G) : Distinct(v)}
            n == Len(list)
<1>1. list \in Seq(X) /\ n \in Nat
  BY DEF Entries
<1>. HIDE DEF X
<1>2. \A x \in X : ByName(x) \in G
  OBVIOUS
<1>. HIDE DEF G
<1>3. <<>> \in V /\ \A v \in V, x \in X : Put(v, ByName(x)) \in V
  <2>1. <<>> \in V
    BY DEF Distinct
  <2>. QED BY <1>2, <2>1, PutIn, PutDistinct
<1>4. \A v \in V : Distinct(v)
  OBVIOUS
<1>. HIDE DEF V
<1>5. PICK acc \in [0..n -> V] : KeyedUpTo(acc, list)
  BY <1>1, <1>3, KeyedSteps
<1>. QED BY <1>1, <1>4, <1>5 DEF KeyedUpTo

LEMMA KeyedDict == ASSUME NEW rs, Entries(rs) PROVE Dict(Keyed(rs))
<1>. DEFINE q == Keyed(rs)
<1>1. MadeOf(q, rs) /\ Entries(q) /\ Distinct(q)
  BY KeyedEntries, KeyedDistinct
<1>2. \A i \in DOMAIN rs : ByName(rs[i]).key = ByName(rs[i]).name
  BY NamedEntry DEF Entries
<1>. HIDE DEF q
<1>3. Dict(q)
  BY <1>1, <1>2 DEF Dict, Distinct, MadeOf, Named
<1>. QED BY <1>3 DEF q

\* Reservations of a UAN in them.
LEMMA HisByName ==
    ASSUME NEW r, {"key", "name"} \subseteq DOMAIN r
    PROVE  \A x : IsHis(ByName(r), x) <=> IsHis(r, x)
<1>. DEFINE q == ByName(r)
<1>1. q.name = r.name /\ Comment(q) = Comment(r)
  BY DEF ByName, Comment
<1>. HIDE DEF q
<1>2. \A x : IsHis(q, x) <=> IsHis(r, x)
  BY <1>1 DEF IsHis, SameAlias, SameXname
<1>. QED BY <1>2 DEF q

LEMMA HisKeyed ==
    ASSUME NEW rs, Dict(rs)
    PROVE  \A x : HasHis(Keyed(rs), x) <=> HasHis(rs, x)
<1>. DEFINE q == Keyed(rs)
<1>1. MadeOf(q, rs) /\ \A i \in DOMAIN rs : {"key", "name"} \subseteq DOMAIN rs[i]
  BY KeyedEntries DEF Dict, Entries
<1>. HIDE DEF q
<1>2. \A i \in DOMAIN rs : \E j \in DOMAIN q : q[j] = ByName(rs[i])
  BY <1>1, NamedEntry DEF MadeOf, Dict, Named
<1>3. \A x : HasHis(q, x) <=> HasHis(rs, x)
  BY <1>1, <1>2, HisByName DEF HasHis, MadeOf, ToSet
<1>. QED BY <1>3 DEF q

LEMMA BareHasNone == ASSUME NEW rs, Bare(rs) PROVE \A x \in UanNode : ~HasHis(rs, x)
  BY UanNodeAssumption DEF Bare, HasHis, IsHis, SameXname, Comment, ToSet

LEMMA DictByNames ==
    ASSUME NEW rs, Dict(rs)
    PROVE  LET q == [i \in DOMAIN rs |-> ByName(rs[i])]
           IN  Dict(q) /\ \A x : HasHis(q, x) <=> HasHis(rs, x)
<1>. DEFINE q == [i \in DOMAIN rs |-> ByName(rs[i])]
<1>1. DOMAIN q = DOMAIN rs /\ q = [i \in DOMAIN q |-> q[i]] /\ \A i \in DOMAIN rs : q[i] = ByName(rs[i])
  OBVIOUS
<1>2. \A i \in DOMAIN rs : {"key", "name"} \subseteq DOMAIN rs[i]
  BY DEF Dict, Entries
<1>3. \A i \in DOMAIN rs : {"key", "name"} \subseteq DOMAIN ByName(rs[i])
  BY <1>2 DEF ByName
<1>. HIDE DEF q
<1>4. Entries(q)
  BY <1>1, <1>3, EntriesMap DEF Dict
<1>5. \A i \in DOMAIN rs : q[i].key = rs[i].key /\ q[i].name = rs[i].name
  BY <1>1, <1>2, NamedEntry DEF Dict, Named
<1>6. Dict(q)
  BY <1>1, <1>4, <1>5 DEF Dict, Named
<1>7. \A x : HasHis(q, x) <=> HasHis(rs, x)
  BY <1>1, <1>2, HisByName DEF HasHis, ToSet
<1>. QED BY <1>6, <1>7 DEF q

LEMMA DictWithout ==
    ASSUME NEW rs, Dict(rs), NEW keys
    PROVE  Dict(Without(rs, keys)) /\ \A x : uanAlias[x] \in keys => ~HasHis(Without(rs, keys), x)
<1>. DEFINE X == ToSet(rs)
            kept == {r \in X : r.key \notin keys}
            q == Without(rs, keys)
<1>1. Entries(q) /\ \A j \in DOMAIN q : \E i \in DOMAIN rs : q[j] = rs[i]
  BY EntriesThose DEF Dict
<1>2. \A j \in DOMAIN q : q[j].key \notin keys
  <2>1. rs \in Seq(X) /\ q = Those(rs, kept)
    BY DEF Dict, Entries, Without
  <2>2. \A r \in X \cap kept : r.key \notin keys
    OBVIOUS
  <2>. HIDE DEF X, kept, q
  <2>3. q \in Seq(X \cap kept)
    BY <2>1, ThoseIn
  <2>. QED BY <2>2, <2>3
<1>. HIDE DEF q
<1>3. Dict(q)
  BY <1>1 DEF Dict, Named
<1>4. \A x : uanAlias[x] \in keys => ~HasHis(q, x)
  BY <1>2, <1>3 DEF Dict, Named, HasHis, IsHis, SameAlias, ToSet
<1>. QED BY <1>3, <1>4 DEF q

LEMMA DictPut ==
    ASSUME NEW rs, Dict(rs), NEW r, {"key", "name"} \subseteq DOMAIN r, r.key = r.name
    PROVE  Dict(Put(rs, r)) /\ r \in ToSet(Put(rs, r))
<1>. DEFINE X == ToSet(rs) \cup {r}
            q == Put(rs, r)
<1>1. rs \in Seq(X) /\ r \in X /\ \A s \in X : {"key", "name"} \subseteq DOMAIN s
  <2>1. rs \in Seq(ToSet(rs)) /\ \A s \in ToSet(rs) : {"key", "name"} \subseteq DOMAIN s
    BY DEF Dict, Entries, ToSet
  <2>. QED BY <2>1
<1>. HIDE DEF X
<1>2. q \in Seq(X) /\ Named(q) /\ WithEntry(rs, r, q)
  BY <1>1, PutIn, PutNamed, PutEntries DEF Dict
<1>3. \A j \in DOMAIN q : q[j] = r \/ (q[j].key # r.key /\ \E i \in DOMAIN rs : q[j] = rs[i])
  <2>0. DOMAIN rs = 1..Len(rs) /\ Len(rs) \in Nat
    BY <1>1
  <2>1. CASE Has(rs, r.key)
    BY <2>1 DEF Put
  <2>2. CASE ~Has(rs, r.key)
    <3>1. q = Append(rs, r)
      BY <2>2 DEF Put
    <3>2. \A j \in DOMAIN Append(rs, r) : Append(rs, r)[j] = r \/ (j \in DOMAIN rs /\ Append(rs, r)[j] = rs[j])
      BY <1>1, <2>0
    <3>. QED BY <2>2, <3>1, <3>2 DEF Has
  <2>. QED BY <2>1, <2>2
<1>. HIDE DEF q
<1>4. Entries(q)
  <2>1. DOMAIN q = 1..Len(q) /\ Len(q) \in Nat /\ q = [j \in 1..Len(q) |-> q[j]] /\ \A j \in DOMAIN q : q[j] \in X
    BY <1>2
  <2>2. q \in Seq(ToSet(q))
    <3>1. \A j \in 1..Len(q) : q[j] \in ToSet(q)
      BY <2>1 DEF ToSet
    <3>. QED BY <2>1, <3>1
  <2>. QED BY <1>1, <2>1, <2>2 DEF Entries
<1>5. Dict(q)
  BY <1>2, <1>3, <1>4 DEF Dict
<1>6. r \in ToSet(q)
  BY <1>2 DEF WithEntry, ToSet
<1>. QED BY <1>5, <1>6 DEF q

LEMMA TidyGet == ASSUME NEW list, NEW i, TidyAt(list, i) PROVE Get(list, Bootstrap) = list[i]
<1>1. Has(list, Bootstrap) /\ list \in Seq(ToSet(list))
  BY DEF TidyAt, Shaped, Has
<1>2. Get(list, Bootstrap) \in ToSet(list) /\ Get(list, Bootstrap).key = Bootstrap
  BY <1>1, GetIs
<1>. QED BY <1>2 DEF ToSet, TidyAt

LEMMA TidyMap ==
    ASSUME NEW list, NEW i, TidyAt(list, i), NEW q, DOMAIN q = DOMAIN list, q = [j \in DOMAIN q |-> q[j]],
           \A j \in DOMAIN list :
               Listing(q[j]) /\ q[j].name = list[j].name /\ q[j].key \in {list[j].key, list[j].name},
           Dict(q[i].reservations)
    PROVE  TidyAt(q, i)
<1>1. DOMAIN q = 1..Len(list) /\ Len(list) \in Nat
  BY DEF TidyAt, Shaped
<1>2. \A j \in 1..Len(list) : q[j] \in ToSet(q)
  BY <1>1 DEF ToSet
<1>3. q \in Seq(ToSet(q))
  BY <1>1, <1>2
<1>. QED BY <1>3 DEF TidyAt, Shaped

\* What a run reads.
LEMMA ReadShape ==
    ASSUME NEW s, Listing(s)
    PROVE  LET t == subnet_from_sls_data(s)
           IN  /\ {"key", "name", "reservations"} \subseteq DOMAIN t
               /\ t.name = s.name /\ t.reservations = Keyed(s.reservations)
  BY DEF Listing, subnet_from_sls_data

LEMMA FreshShaped == ASSUME NEW list, Fresh(list) PROVE Shaped(list) /\ \A x \in UanNode : ~OfUan(list, x)
<1>1. PICK W : OnVlans(list, W)
  BY DEF Fresh
<1>2. Shaped(list)
  BY <1>1, EachOnVlan DEF OnVlans, Filled, Labelled, Bare, Shaped, Listing
<1>3. Has(list, Bootstrap)
  BY DEF Fresh, Booted, Has
<1>4. Get(list, Bootstrap) \in ToSet(list)
  BY <1>1, <1>3, GetIs DEF OnVlans
<1>5. Bare(Get(list, Bootstrap).reservations)
  BY <1>1, <1>4 DEF OnVlans, Filled
<1>. QED BY <1>2, <1>5, BareHasNone DEF OfUan

LEMMA LoadTidy ==
    ASSUME NEW net, IsNet(net), Fresh(net.subnets) \/ Tidy(net.subnets)
    PROVE  LET d == network_from_sls_data(net).subnets
           IN  Tidy(d) /\ \A x \in UanNode : OfUan(d, x) <=> OfUan(net.subnets, x)
<1>. DEFINE list == net.subnets
            q == [i \in DOMAIN list |-> subnet_from_sls_data(list[i])]
            d == Keyed(q)
<1>1. network_from_sls_data(net).subnets = d
  BY DEF network_from_sls_data, IsNet
<1>2. Shaped(list) /\ \E k \in DOMAIN list : list[k].name = Bootstrap
  BY FreshShaped DEF Fresh, Booted, Tidy, TidyAt
<1>3. DOMAIN q = DOMAIN list /\ q = [i \in DOMAIN q |-> q[i]] /\ \A i \in DOMAIN list : q[i] = subnet_from_sls_data(list[i])
  OBVIOUS
<1>. HIDE DEF list, q
<1>4. \A i \in DOMAIN list : /\ {"key", "name", "reservations"} \subseteq DOMAIN q[i]
                             /\ q[i].name = list[i].name /\ q[i].reservations = Keyed(list[i].reservations)
  BY <1>2, <1>3, ReadShape DEF Shaped
<1>5. Entries(q)
  <2>1. Entries(list)
    BY <1>2 DEF Shaped, Listing, Entries
  <2>. QED BY <1>3, <1>4, <2>1, EntriesMap
<1>6. MadeOf(d, q) /\ Entries(d) /\ Distinct(d)
  BY <1>5, KeyedEntries, KeyedDistinct
<1>. HIDE DEF d
<1>7. ASSUME NEW j \in DOMAIN d
      PROVE  \E i \in DOMAIN list : /\ d[j].key = list[i].name /\ d[j].name = list[i].name
                                    /\ "reservations" \in DOMAIN d[j]
                                    /\ d[j].reservations = Keyed(list[i].reservations)
  <2>1. PICK i \in DOMAIN q : d[j] = ByName(q[i])
    BY <1>6 DEF MadeOf
  <2>. QED BY <1>3, <1>4, <2>1, NamedEntry DEF ByName
<1>8. PICK j \in DOMAIN d : d[j].key = Bootstrap
  BY <1>2, <1>3, <1>4, <1>6 DEF MadeOf
<1>9. \A i \in DOMAIN list : Dict(Keyed(list[i].reservations))
  BY <1>2, KeyedDict DEF Shaped, Listing
<1>10. TidyAt(d, j)
  <2>1. \A m \in DOMAIN d : d[m].key = d[m].name /\ "reservations" \in DOMAIN d[m] /\ Dict(d[m].reservations)
    BY <1>7, <1>9
  <2>2. Shaped(d)
    BY <1>6, <2>1 DEF Shaped, Listing, Entries, Dict
  <2>. QED BY <1>6, <1>8, <2>1, <2>2 DEF TidyAt, Distinct
<1>11. Get(d, Bootstrap) = d[j]
  BY <1>10, TidyGet
<1>12. PICK k \in DOMAIN list : list[k].name = Bootstrap /\ d[j].reservations = Keyed(list[k].reservations)
  BY <1>7, <1>8
<1>13. \A x \in UanNode : OfUan(d, x) <=> OfUan(list, x)
  <2>1. CASE Fresh(list)
    <3>1. Bare(list[k].reservations)
      BY <2>1, EachOnVlan DEF Fresh, Filled
    <3>. QED BY <1>11, <1>12, <2>1, <3>1, BareKeyed, BareHasNone, FreshShaped DEF OfUan
  <2>2. CASE Tidy(list)
    <3>1. PICK i : TidyAt(list, i)
      BY <2>2 DEF Tidy
    <3>2. k = i /\ Get(list, Bootstrap) = list[i] /\ Dict(list[i].reservations)
      BY <1>12, <3>1, TidyGet DEF TidyAt
    <3>. QED BY <1>11, <1>12, <3>2, HisKeyed DEF OfUan
  <2>. QED BY <2>1, <2>2 DEF list
<1>. QED BY <1>1, <1>10, <1>13 DEF Tidy, list

\* The room that a run makes in the range of DHCP.
LEMMA RoomTidy ==
    ASSUME NEW net, IsNet(net), Tidy(net.subnets), NEW t \in RoomMade(net)
    PROVE  Tidy([net EXCEPT !.subnets = Put(@, t)].subnets)
<1>. DEFINE list == net.subnets
            q == [j \in DOMAIN list |-> IF list[j].key = t.key THEN t ELSE list[j]]
<1>1. PICK i : TidyAt(list, i)
  BY DEF Tidy
<1>2. Get(list, Bootstrap) = list[i]
  BY <1>1, TidyGet
<1>3. t = list[i] \/ t = Expanded(list[i])
  BY <1>2 DEF RoomMade, BootstrapOf
<1>. HIDE DEF list
<1>4. Listing(t) /\ t.key = Bootstrap /\ t.name = Bootstrap /\ t.reservations = list[i].reservations
  BY <1>1, <1>3 DEF TidyAt, Shaped, Listing, Expanded
<1>5. Put(list, t) = q
  BY <1>1, <1>4 DEF Put, Has, TidyAt
<1>6. DOMAIN q = DOMAIN list /\ q = [j \in DOMAIN q |-> q[j]] /\ q[i] = t
  BY <1>1, <1>4 DEF TidyAt
<1>7. \A j \in DOMAIN list : Listing(q[j]) /\ q[j].name = list[j].name /\ q[j].key = list[j].key
  BY <1>1, <1>4 DEF TidyAt, Shaped
<1>. HIDE DEF q
<1>8. Tidy(q)
  BY <1>1, <1>4, <1>6, <1>7, TidyMap DEF TidyAt, Tidy
<1>. QED BY <1>5, <1>8, SubnetsOfExcept DEF list

\* The reservations of a UAN that a run adds, or takes away.
LEMMA UanReservationHis ==
    ASSUME NEW x, NEW ip, NEW r, r = UanReservation(x, ip)
    PROVE  {"key", "name"} \subseteq DOMAIN r /\ r.key = r.name /\ IsHis(r, x)
  BY DEF UanReservation, Reservation, IsHis, SameAlias, SameXname, Comment

LEMMA WithNodeTidy ==
    ASSUME NEW net, IsNet(net), Tidy(net.subnets), NEW x, NEW ip
    PROVE  LET w == OnSubnets(WithNode(net, x, ip), SubnetToSls).subnets
           IN  Tidy(w) /\ (OfUan(w, x) <=> uanCall.command # "deallocate")
<1>. DEFINE New(rs) == IF uanCall.command = "deallocate" THEN Without(rs, {uanAlias[x]})
                       ELSE Put(rs, UanReservation(x, ip))
            list == net.subnets
            Given(s) == [s EXCEPT !.reservations = New(@)]
            p == [j \in DOMAIN list |-> IF list[j].key = Bootstrap THEN Given(list[j]) ELSE list[j]]
            q == [j \in DOMAIN p |-> SubnetToSls(p[j])]
<1>1. OnSubnets(WithNode(net, x, ip), SubnetToSls).subnets = q
  <2>1. WithNode(net, x, ip) = [net EXCEPT !.subnets = p]
    BY DEF WithNode, OnSubnet, OnSubnets
  <2>. DEFINE w == [net EXCEPT !.subnets = p]
  <2>2. IsNet(w) /\ w.subnets = p
    <3>. HIDE DEF p
    <3>. QED BY OtherSubnetsNet, SubnetsOfExcept
  <2>. HIDE DEF w, p
  <2>3. OnSubnets(w, SubnetToSls).subnets = q
    BY <2>2, SubnetsOfExcept DEF OnSubnets
  <2>. QED BY <2>1, <2>3 DEF w
<1>2. PICK i : TidyAt(list, i)
  BY DEF Tidy
<1>3. \A rs : Dict(rs) => Dict(New(rs)) /\ (HasHis(New(rs), x) <=> uanCall.command # "deallocate")
  BY DictWithout, DictPut, UanReservationHis DEF HasHis
<1>. HIDE DEF New, list
<1>4. DOMAIN p = DOMAIN list /\ p = [j \in DOMAIN p |-> p[j]] /\ p[i] = Given(list[i])
  BY <1>2 DEF TidyAt
<1>5. \A j \in DOMAIN list : Listing(p[j]) /\ p[j].name = list[j].name /\ p[j].key = list[j].key
  BY <1>2, <1>3 DEF TidyAt, Shaped, Listing, Dict
<1>6. p[i].reservations = New(list[i].reservations)
  BY <1>2, <1>4 DEF TidyAt, Shaped, Listing
<1>. HIDE DEF p
<1>7. TidyAt(p, i)
  <2>1. Dict(p[i].reservations)
    BY <1>2, <1>3, <1>6 DEF TidyAt
  <2>2. DOMAIN p = DOMAIN list /\ p = [j \in DOMAIN p |-> p[j]]
    BY <1>4
  <2>3. \A j \in DOMAIN list : Listing(p[j]) /\ p[j].name = list[j].name /\ p[j].key \in {list[j].key, list[j].name}
    BY <1>5
  <2>. QED BY <1>2, <2>1, <2>2, <2>3, TidyMap
<1>8. DOMAIN q = DOMAIN p /\ q = [j \in DOMAIN q |-> q[j]] /\ \A j \in DOMAIN p : q[j] = SubnetToSls(p[j])
  OBVIOUS
<1>. HIDE DEF q
<1>9. \A j \in DOMAIN p : /\ {"key", "name", "reservations"} \subseteq DOMAIN q[j]
                          /\ q[j].name = p[j].name /\ q[j].key = p[j].name
                          /\ q[j].reservations = [k \in DOMAIN p[j].reservations |-> ByName(p[j].reservations[k])]
  BY <1>7, <1>8 DEF SubnetToSls, TidyAt, Shaped, Listing
<1>10. \A j \in DOMAIN p : Entries([k \in DOMAIN p[j].reservations |-> ByName(p[j].reservations[k])])
  <2>1. ASSUME NEW rs, Entries(rs) PROVE Entries([k \in DOMAIN rs |-> ByName(rs[k])])
    <3>. DEFINE named == [k \in DOMAIN rs |-> ByName(rs[k])]
    <3>1. DOMAIN named = DOMAIN rs /\ named = [k \in DOMAIN named |-> named[k]]
          /\ \A k \in DOMAIN rs : {"key", "name"} \subseteq DOMAIN named[k]
      BY <2>1 DEF Entries, ByName
    <3>. HIDE DEF named
    <3>2. Entries(named)
      BY <2>1, <3>1, EntriesMap
    <3>. QED BY <3>2 DEF named
  <2>. QED BY <1>7, <2>1 DEF TidyAt, Shaped, Listing
<1>11. Dict(q[i].reservations) /\ (HasHis(q[i].reservations, x) <=> uanCall.command # "deallocate")
  <2>. DEFINE rs == p[i].reservations
              named == [k \in DOMAIN rs |-> ByName(rs[k])]
  <2>1. Dict(rs) /\ (HasHis(rs, x) <=> uanCall.command # "deallocate")
    BY <1>2, <1>3, <1>6 DEF TidyAt
  <2>2. q[i].reservations = named
    BY <1>7, <1>9 DEF TidyAt
  <2>. HIDE DEF rs
  <2>3. Dict(named) /\ \A y : HasHis(named, y) <=> HasHis(rs, y)
    BY <2>1, DictByNames
  <2>. HIDE DEF named
  <2>. QED BY <2>1, <2>2, <2>3
<1>12. TidyAt(q, i)
  <2>1. \A j \in DOMAIN p : Listing(q[j]) /\ q[j].name = p[j].name /\ q[j].key \in {p[j].key, p[j].name}
    BY <1>9, <1>10 DEF Listing
  <2>2. DOMAIN q = DOMAIN p /\ q = [j \in DOMAIN q |-> q[j]]
    BY <1>8
  <2>. QED BY <1>7, <1>11, <2>1, <2>2, TidyMap
<1>13. Tidy(q) /\ (OfUan(q, x) <=> uanCall.command # "deallocate")
  BY <1>11, <1>12, TidyGet DEF Tidy, OfUan
<1>. QED BY <1>1, <1>13

\* How many addresses of a network a UAN has.
LEMMA HisOnce ==
    ASSUME NEW n, Fresh(chnSls[n].subnets) \/ Tidy(chnSls[n].subnets), NEW x \in UanNode
    PROVE  Cardinality({r \in UanReservations(n) : IsHis(r, x)}) = IF OfUan(chnSls[n].subnets, x) THEN 1 ELSE 0
<1>. DEFINE rs == Get(chnSls[n].subnets, Bootstrap).reservations
            his == {r \in UanReservations(n) : IsHis(r, x)}
<1>1. his = {r \in ToSet(rs) : IsHis(r, x)} /\ (OfUan(chnSls[n].subnets, x) <=> HasHis(rs, x))
  BY UanNodeAssumption DEF UanReservations, BootstrapOf, IsHis, SameXname, OfUan
<1>2. CASE Fresh(chnSls[n].subnets)
  <2>1. ~HasHis(rs, x) /\ his = {}
    BY <1>1, <1>2, FreshShaped DEF HasHis
  <2>. QED BY <1>1, <2>1, FS_EmptySet
<1>3. CASE Tidy(chnSls[n].subnets)
  <2>1. Dict(rs)
    BY <1>3, TidyGet DEF Tidy, TidyAt
  <2>2. \A r, q \in his : r = q
    BY <1>1, <2>1 DEF Dict, Named, IsHis, SameAlias, ToSet
  <2>3. CASE his = {}
    BY <1>1, <2>3, FS_EmptySet DEF HasHis
  <2>4. CASE his # {}
    <3>1. PICK r : his = {r}
      BY <2>2, <2>4
    <3>2. HasHis(rs, x)
      BY <1>1, <3>1 DEF HasHis
    <3>3. Cardinality({r}) = 1
      BY FS_Singleton
    <3>. QED BY <1>1, <3>1, <3>2, <3>3
  <2>. QED BY <2>3, <2>4
<1>. QED BY <1>2, <1>3

LEMMA ServedInAll == UanServed => UanInAllNetworks
<1>. SUFFICES ASSUME UanServed, uanPc = "ok", uanCall # NoCall, NEW n \in Live
              PROVE  Cardinality({r \in UanReservations(n) : IsHis(r, uanCall.node)})
                       = IF uanCall.command = "allocate" THEN 1 ELSE 0
  BY UanNetsThose DEF UanInAllNetworks, Live
<1>1. Served(uanCall, n) /\ (Fresh(chnSls[n].subnets) \/ Tidy(chnSls[n].subnets))
      /\ uanCall.command \in {"allocate", "deallocate"} /\ uanCall.node \in UanNode
  BY DEF UanServed
<1>2. Cardinality({r \in UanReservations(n) : IsHis(r, uanCall.node)})
        = IF OfUan(chnSls[n].subnets, uanCall.node) THEN 1 ELSE 0
  BY <1>1, HisOnce
<1>. QED BY <1>1, <1>2 DEF Served

LEMMA SameServed ==
    ASSUME UNCHANGED <<chnSls, uanAlias>>
    PROVE  /\ Live' = Live
           /\ Underway(uanCall, uanCopy, uanTodo)' <=> Underway(uanCall', uanCopy', uanTodo')
           /\ \A n : Served(uanCall, n)' <=> Served(uanCall', n)
<1>1. Live' = Live /\ \A n : Served(uanCall, n)' <=> Served(uanCall', n)
  BY DEF Live, Served, OfUan, HasHis, IsHis, SameAlias
<1>. QED BY <1>1 DEF Underway

\* What a run finds when it starts, and what it must do.
LEMMA UanReads ==
    ASSUME MoveRoutes, UanServed, NEW x \in UanNode, NEW n \in Live
    PROVE  LET net == network_from_sls_data(chnSls[n])
           IN  /\ n \in SlsNetwork /\ net # NoNetwork /\ IsNet(net) /\ Tidy(net.subnets)
               /\ OfUan(net.subnets, x) <=> OfUan(chnSls[n].subnets, x)
<1>1. n \in SlsNetwork /\ NetsKnown(chnSls)
  BY DEF Live, SlsNetwork, MoveRoutes, Sent
<1>2. IsNet(chnSls[n]) /\ (Fresh(chnSls[n].subnets) \/ Tidy(chnSls[n].subnets))
  BY <1>1 DEF UanServed, NetsKnown
<1>3. network_from_sls_data(chnSls[n]) # NoNetwork
  BY <1>1, NetsRead DEF Live
<1>4. IsNet(network_from_sls_data(chnSls[n]))
  BY <1>2, OtherSubnetsNet DEF network_from_sls_data
<1>. QED BY <1>1, <1>2, <1>3, <1>4, LoadTidy

LEMMA UanNetsKept ==
    ASSUME NEW kept, NEW list, list = Those(UanNets, kept)
    PROVE  /\ \A i \in DOMAIN list : list[i] \in {"CAN", "CHN"} \cap kept
           /\ \A n \in {"CAN", "CHN"} \cap kept : \E i \in DOMAIN list : list[i] = n
<1>1. UanNets \in Seq({"CAN", "CHN"}) /\ DOMAIN UanNets = {1, 2} /\ UanNets[1] = "CAN" /\ UanNets[2] = "CHN"
  BY DEF UanNets
<1>2. list \in Seq({"CAN", "CHN"} \cap kept)
  BY UanNetsThose
<1>3. \A n \in {"CAN", "CHN"} \cap kept : \E k \in DOMAIN UanNets : UanNets[k] = n /\ UanNets[k] \in kept
  BY <1>1
<1>. QED BY <1>1, <1>2, <1>3, ThoseHas

LEMMA StartServed ==
    ASSUME UanServed, NEW x \in UanNode, NEW command \in {"allocate", "deallocate"}, UanStarts(command, x),
           \/ uanPc' = "failed"
           \/ uanPc' = "ok" /\ \A n \in Live : Served([command |-> command, node |-> x], n)
           \/ uanPc' \notin Ended /\ Underway([command |-> command, node |-> x], uanCopy', uanTodo')
    PROVE  UanServed'
<1>1. /\ uanCall' = [command |-> command, node |-> x] /\ uanRuns' = uanRuns + 1
      /\ UNCHANGED <<chnSls, uanAlias>>
  BY DEF UanStarts
<1>2. uanCall' # NoCall /\ uanCall'.command = command /\ uanCall'.node = x /\ uanRuns' \in Nat /\ uanRuns' # 0
  BY <1>1 DEF NoCall, UanServed
<1>3. /\ Live' = Live /\ (Underway(uanCall, uanCopy, uanTodo)' <=> Underway(uanCall', uanCopy', uanTodo'))
      /\ \A n : Served(uanCall, n)' <=> Served(uanCall', n)
  BY <1>1, SameServed
<1>4. /\ uanPc' \notin Ended => Underway(uanCall, uanCopy, uanTodo)'
      /\ uanPc' = "ok" => \A n \in Live' : Served(uanCall, n)'
  BY <1>1, <1>3 DEF Ended
<1>5. \A n \in Live' : Fresh(chnSls'[n].subnets) \/ Tidy(chnSls'[n].subnets)
  BY <1>1, <1>3 DEF UanServed
<1>. QED BY <1>2, <1>4, <1>5 DEF UanServed, MoveFormed

LEMMA AllocateServed == ASSUME MoveRoutes, UanServed, NEW x \in UanNode, AllocateUanIp(x) PROVE UanServed'
<1>. DEFINE nets == [n \in SlsNetwork |-> network_from_sls_data(chnSls[n])]
            kept == {n \in ToSet(UanNets) : nets[n] # NoNetwork
                        /\ \A r \in ToSet(BootstrapOf(nets[n]).reservations) : ~IsHis(r, x)}
            need == NeedsAllocation(nets, x)
            room == [n \in ToSet(need) |-> CHOOSE s \in RoomMade(nets[n]) : TRUE]
            copy == [n \in SlsNetwork |->
                       IF n \in DOMAIN room THEN [nets[n] EXCEPT !.subnets = Put(@, room[n])] ELSE nets[n]]
            work == [i \in DOMAIN need |-> [net |-> need[i], ip |-> next_ip(room[need[i]])]]
            call0 == [command |-> "allocate", node |-> x]
<1>1. /\ UanStarts("allocate", x)
      /\ \/ uanPc' = "failed"
         \/ uanPc' = "ok" /\ need = <<>>
         \/ uanPc' = "hsm 1" /\ uanCopy' = copy /\ uanTodo' = work /\ \A n \in ToSet(need) : RoomMade(nets[n]) # {}
  BY DEF AllocateUanIp
<1>2. need = Those(UanNets, kept)
  BY DEF NeedsAllocation
<1>3. \A n \in Live : /\ n \in SlsNetwork /\ nets[n] # NoNetwork /\ IsNet(nets[n]) /\ Tidy(nets[n].subnets)
                      /\ OfUan(nets[n].subnets, x) <=> OfUan(chnSls[n].subnets, x)
  BY UanReads
<1>4. \A n \in {"CAN", "CHN"} : nets[n] # NoNetwork => n \in Live
  BY NetsRead DEF MoveRoutes, Sent, SlsNetwork, Live
<1>. HIDE DEF nets
<1>5. \A n \in Live : Served(call0, n) \/ n \in {"CAN", "CHN"} \cap kept
  BY <1>3, UanNetsThose DEF Live, Served, OfUan, HasHis, BootstrapOf
<1>6. {"CAN", "CHN"} \cap kept \subseteq Live
  BY <1>4
<1>. HIDE DEF kept, need
<1>7. (\A i \in DOMAIN need : need[i] \in Live) /\ \A n \in Live : Served(call0, n) \/ \E i \in DOMAIN need : need[i] = n
  BY <1>2, <1>5, <1>6, UanNetsKept
<1>8. CASE uanPc' = "failed" \/ (uanPc' = "ok" /\ need = <<>>)
  <2>. HIDE DEF copy, work
  <2>1. need = <<>> => \A n \in Live : Served(call0, n)
    BY <1>7
  <2>. QED BY <1>1, <1>8, <2>1, StartServed
<1>9. CASE uanPc' = "hsm 1" /\ uanCopy' = copy /\ uanTodo' = work /\ \A n \in ToSet(need) : RoomMade(nets[n]) # {}
  <2>1. ASSUME NEW n \in ToSet(need) PROVE Tidy(copy[n].subnets)
    <3>1. n \in Live /\ room[n] \in RoomMade(nets[n])
      BY <1>7, <1>9 DEF ToSet
    <3>2. copy[n] = [nets[n] EXCEPT !.subnets = Put(@, room[n])]
      BY <1>3, <3>1
    <3>. HIDE DEF room, copy
    <3>. QED BY <1>3, <3>1, <3>2, RoomTidy
  <2>. HIDE DEF copy
  <2>. HIDE DEF room
  <2>2. DOMAIN work = DOMAIN need /\ \A i \in DOMAIN need : work[i].net = need[i]
    OBVIOUS
  <2>. HIDE DEF work
  <2>3. /\ \A t \in ToSet(work) : t.net \in ToSet(need)
        /\ \A i \in DOMAIN need : \E t \in ToSet(work) : t.net = need[i]
    BY <2>2 DEF ToSet
  <2>4. Underway(call0, copy, work)
    BY <1>7, <2>1, <2>3 DEF Underway
  <2>. QED BY <1>1, <1>9, <2>4, StartServed DEF Ended
<1>. HIDE DEF work, copy
<1>. QED BY <1>1, <1>8, <1>9, StartServed

LEMMA DeallocateServed == ASSUME MoveRoutes, UanServed, NEW x \in UanNode, DeallocateUanIp(x) PROVE UanServed'
<1>. DEFINE nets == [n \in SlsNetwork |-> network_from_sls_data(chnSls[n])]
            of(n) == IF nets[n] = NoNetwork THEN {} ELSE ToSet(BootstrapOf(nets[n]).reservations)
            kept == {n \in ToSet(UanNets) : \E r \in of(n) : IsHis(r, x)}
            his == Those(UanNets, kept)
            work == [i \in DOMAIN his |-> [net |-> his[i], ip |-> Nil]]
            call0 == [command |-> "deallocate", node |-> x]
<1>1. /\ UanStarts("deallocate", x)
      /\ \/ uanPc' = "failed"
         \/ uanPc' = "ok" /\ his = <<>>
         \/ uanPc' = "put" /\ uanCopy' = nets /\ uanTodo' = work
  BY DEF DeallocateUanIp
<1>2. \A n \in Live : /\ n \in SlsNetwork /\ nets[n] # NoNetwork /\ Tidy(nets[n].subnets)
                      /\ OfUan(nets[n].subnets, x) <=> OfUan(chnSls[n].subnets, x)
  BY UanReads
<1>3. \A n \in {"CAN", "CHN"} : nets[n] # NoNetwork => n \in Live
  BY NetsRead DEF MoveRoutes, Sent, SlsNetwork, Live
<1>. HIDE DEF nets
<1>4. \A n \in Live : Served(call0, n) \/ n \in {"CAN", "CHN"} \cap kept
  BY <1>2, UanNetsThose DEF Live, Served, OfUan, HasHis, BootstrapOf
<1>5. {"CAN", "CHN"} \cap kept \subseteq Live
  BY <1>3
<1>. HIDE DEF kept
<1>6. (\A i \in DOMAIN his : his[i] \in Live) /\ \A n \in Live : Served(call0, n) \/ \E i \in DOMAIN his : his[i] = n
  BY <1>4, <1>5, UanNetsKept
<1>. HIDE DEF his
<1>7. CASE uanPc' = "failed" \/ (uanPc' = "ok" /\ his = <<>>)
  <2>. HIDE DEF work
  <2>1. his = <<>> => \A n \in Live : Served(call0, n)
    BY <1>6
  <2>. QED BY <1>1, <1>7, <2>1, StartServed
<1>8. CASE uanPc' = "put" /\ uanCopy' = nets /\ uanTodo' = work
  <2>1. DOMAIN work = DOMAIN his /\ \A i \in DOMAIN his : work[i].net = his[i]
    OBVIOUS
  <2>. HIDE DEF work
  <2>2. /\ \A t \in ToSet(work) : t.net \in Live
        /\ \A i \in DOMAIN his : \E t \in ToSet(work) : t.net = his[i]
    BY <1>6, <2>1 DEF ToSet
  <2>3. Underway(call0, nets, work)
    BY <1>2, <1>6, <2>2 DEF Underway
  <2>. QED BY <1>1, <1>8, <2>3, StartServed DEF Ended
<1>. HIDE DEF work
<1>. QED BY <1>1, <1>7, <1>8

\* What a run writes is what it was to write there; what is left is the rest of it.
LEMMA EndsServed ==
    ASSUME UanServed, uanPc \notin Ended, UanEnds("failed"), UNCHANGED chnSls PROVE UanServed'
<1>1. UNCHANGED <<chnSls, uanAlias, uanCall, uanRuns>> /\ uanPc' = "failed" /\ Live' = Live
  BY DEF UanEnds, Live
<1>2. uanRuns # 0
  BY DEF UanServed, Ended
<1>. QED BY <1>1, <1>2 DEF UanServed, MoveFormed, Ended

LEMMA PutServed == ASSUME MoveRoutes, UanRoutes, UanServed, PutNetwork PROVE UanServed'
<1>. DEFINE todo1 == Head(uanTodo)
            m == todo1.net
            old == uanCopy[m]
            net == OnSubnets(WithNode(old, uanCall.node, todo1.ip), SubnetToSls)
<1>1. /\ uanPc \notin Ended /\ uanCall # NoCall /\ Underway(uanCall, uanCopy, uanTodo)
      /\ uanCall.command \in {"allocate", "deallocate"} /\ uanCall.node \in UanNode
      /\ NetsKnown(uanCopy) /\ NetsKnown(chnSls) /\ TodoFor(uanCopy, uanTodo) /\ uanRuns \in Nat /\ uanRuns # 0
  BY DEF UanServed, UanRoutes, MoveRoutes, Sent, PutNetwork, Ended
<1>2. PICK T : uanTodo \in Seq(T) /\ uanTodo # <<>> /\ \A t \in T : t.net \in {"CAN", "CHN"} /\ uanCopy[t.net] # NoNetwork
  BY <1>1 DEF TodoFor
<1>3. todo1 \in ToSet(uanTodo) /\ m \in {"CAN", "CHN"} /\ m \in SlsNetwork
  BY <1>2 DEF ToSet, SlsNetwork
<1>4. IsNet(old) /\ Tidy(old.subnets)
  BY <1>1, <1>3 DEF NetsKnown, Underway
<1>5. Tidy(net.subnets) /\ (OfUan(net.subnets, uanCall.node) <=> uanCall.command # "deallocate")
  <2>. HIDE DEF old, todo1
  <2>. QED BY <1>4, WithNodeTidy
<1>6. chnSls' = WithNet(chnSls, m, net) /\ UNCHANGED <<uanAlias, uanCall, uanRuns>>
  BY DEF PutNetwork, WithNet, UanEnds
<1>7. chnSls'[m] = net /\ \A n \in SlsNetwork : n # m => chnSls'[n] = chnSls[n]
  <2>. HIDE DEF net, m
  <2>. QED BY <1>1, <1>3, <1>6 DEF WithNet, NetsKnown
<1>. HIDE DEF net, old, m
<1>9. /\ \A n \in Live' : n = m \/ (n \in Live /\ chnSls'[n] = chnSls[n])
      /\ \A n \in Live' : Fresh(chnSls'[n].subnets) \/ Tidy(chnSls'[n].subnets)
      /\ \A n \in Live' : Served(uanCall, n)' \/ (n # m /\ \E t \in ToSet(uanTodo) : t.net = n)
  <2>1. \A n \in Live' : n = m \/ (n \in Live /\ chnSls'[n] = chnSls[n])
    BY <1>7 DEF Live, SlsNetwork
  <2>2. \A n \in Live' : Fresh(chnSls'[n].subnets) \/ Tidy(chnSls'[n].subnets)
    BY <1>5, <1>7, <2>1 DEF UanServed
  <2>3. \A n : n = m => Served(uanCall, n)'
    BY <1>5, <1>6, <1>7 DEF Served, OfUan, HasHis, IsHis, SameAlias
  <2>4. \A n \in Live : chnSls'[n] = chnSls[n] => (Served(uanCall, n)' <=> Served(uanCall, n))
    BY <1>6 DEF Served, OfUan, HasHis, IsHis, SameAlias
  <2>5. \A n \in Live : Served(uanCall, n) \/ \E t \in ToSet(uanTodo) : t.net = n
    BY <1>1 DEF Underway
  <2>. QED BY <2>1, <2>2, <2>3, <2>4, <2>5
<1>10. CASE Len(uanTodo) = 1
  <2>1. uanPc' = "ok"
    BY <1>10 DEF PutNetwork, UanEnds
  <2>2. \A t \in ToSet(uanTodo) : t.net = m
    BY <1>2, <1>10 DEF ToSet, m
  <2>. QED BY <1>1, <1>6, <1>9, <2>1, <2>2 DEF UanServed, MoveFormed, Ended
<1>11. CASE Len(uanTodo) # 1
  <2>1. uanTodo' = Tail(uanTodo) /\ UNCHANGED <<uanPc, uanCopy>>
    BY <1>11 DEF PutNetwork
  <2>2. \A t \in ToSet(uanTodo) : t # todo1 => t \in ToSet(Tail(uanTodo))
    BY <1>2, HeadOrTail
  <2>3. \A t \in ToSet(Tail(uanTodo)) : t \in ToSet(uanTodo)
    BY <1>2 DEF ToSet
  <2>4. Underway(uanCall, uanCopy, uanTodo)'
    BY <1>1, <1>9, <2>1, <2>2, <2>3 DEF Underway, m
  <2>. QED BY <1>1, <1>6, <1>9, <2>1, <2>4 DEF UanServed, MoveFormed, Ended
<1>. QED BY <1>10, <1>11

\* A step that changes no network and nothing of the run but what it does next.
LEMMA StutterServed ==
    ASSUME UanServed, UNCHANGED <<chnSls, chnFiles, uanAlias, uanCall, uanCopy, uanTodo, uanRuns>>,
           uanPc' = uanPc \/ (uanPc \notin Ended /\ uanPc' \notin Ended)
    PROVE  UanServed'
<1>1. /\ Live' = Live /\ (Underway(uanCall, uanCopy, uanTodo)' <=> Underway(uanCall, uanCopy, uanTodo))
      /\ \A n : Served(uanCall, n)' <=> Served(uanCall, n)
  BY SameServed
<1>2. MoveFormed'
  BY DEF UanServed, MoveFormed, Formed
<1>. QED BY <1>1, <1>2 DEF UanServed, Ended

LEMMA UanStepServed ==
    ASSUME MoveRoutes, UanRoutes, UanServed, UanNext, UNCHANGED chnFiles PROVE UanServed'
<1>1. CASE CheckHsm
  <2>1. CASE UanEnds("failed")
    BY <1>1, <2>1, EndsServed DEF CheckHsm, Ended
  <2>2. CASE ~UanEnds("failed")
    BY <1>1, <2>2, StutterServed DEF CheckHsm, Ended
  <2>. QED BY <2>1, <2>2
<1>2. CASE UanFails
  BY <1>2, EndsServed DEF UanFails
<1>3. CASE InterfaceSeen
  BY <1>3, StutterServed DEF InterfaceSeen
<1>4. CASE HardwareChanges
  <2>1. /\ uanPc \in Ended /\ uanPc' = uanPc /\ uanRuns' = uanRuns /\ uanRuns # 0 /\ uanCall' = NoCall
        /\ chnSls' = chnSls /\ Live' = Live
    BY <1>4 DEF HardwareChanges, UanServed, Live
  <2>. QED BY <2>1 DEF UanServed, MoveFormed
<1>. QED BY <1>1, <1>2, <1>3, <1>4, AllocateServed, DeallocateServed, PutServed DEF UanNext

\* The same among all changes: no UAN has an address before the CHN is enabled, and the
\* CHN is not enabled again after that.
LEMMA InitUansInChanges == ChangesInit => UansInChanges
<1>. SUFFICES ASSUME ChangesInit PROVE UansInChanges
  OBVIOUS
<1>1. Sent(NoFile) /\ Formed(NoFile) /\ NoFile["CAN"] = NoNetwork /\ NoFile["CHN"] = NoNetwork
  BY NoFileSent, NoFileFormed DEF NoFile, SlsNetwork
<1>2. MoveRoutes /\ UanRoutes
  BY <1>1 DEF ChangesInit, ChnInit, UanInit, MoveRoutes, UanRoutes, Ended, Sent
<1>3. UanServed
  BY <1>1 DEF ChangesInit, ChnInit, UanInit, UanServed, MoveFormed, Live, Ended
<1>. QED BY <1>2, <1>3, InitRoutes, InitOnVlans DEF ChangesInit, UansInChanges, UanInit

LEMMA StepUansInChanges == ASSUME UansInChanges, [ChangesNext]_changesVars PROVE UansInChanges'
<1>1. CASE ~InUpgrade
  <2>1. UNCHANGED <<changed, uanCall>>
    BY <1>1 DEF ChangesNext, changesVars, UpgradeChanges, uanVars
  <2>. QED BY <1>1, <2>1 DEF UansInChanges, InUpgrade
<1>2. CASE InUpgrade
  <2>0. UpgradeRoutes /\ UpgradeOnVlans /\ MoveRoutes /\ UanRoutes /\ UanServed
    BY <1>2 DEF UansInChanges
  <2>1. InUpgrade'
    BY <1>2 DEF ChangesNext, changesVars, InUpgrade
  <2>2. \/ (SlsNext \/ UNCHANGED slsVars) /\ UNCHANGED <<chnVars, uanVars>>
        \/ ChnNext /\ uanRuns = 0 /\ UNCHANGED <<slsVars, uanVars>>
        \/ UanNext /\ UNCHANGED <<slsVars, chnFiles, chnPc, bssHost>>
    BY <1>2 DEF ChangesNext, changesVars, UpgradeChanges, InUpgrade
  <2>3. UpgradeRoutes' /\ UpgradeOnVlans'
    BY <2>0, <2>2, StepRoutes, StutterRoutes, StepOnVlans, StutterOnVlans
  <2>4. CASE UNCHANGED <<chnVars, uanVars>>
    <3>1. MoveRoutes' /\ UanRoutes'
      BY <2>0, <2>4 DEF MoveRoutes, UanRoutes, chnVars, uanVars
    <3>2. UanServed'
      BY <2>0, <2>4, StutterServed DEF chnVars, uanVars
    <3>. QED BY <2>1, <2>3, <3>1, <3>2 DEF UansInChanges
  <2>5. CASE ChnNext /\ uanRuns = 0 /\ UNCHANGED <<slsVars, uanVars>>
    <3>1. UNCHANGED <<uanPc, uanCall, uanCopy, uanTodo, uanRuns>> /\ uanPc = "idle" /\ uanCall = NoCall /\ MoveFormed
      BY <2>0, <2>5 DEF uanVars, UanServed
    <3>2. MoveFormed' /\ MoveRoutes' /\ UanRoutes'
      BY <2>0, <2>5, <3>1, ChnStepFormed, ChnStepRoutes DEF UanRoutes
    <3>3. \A n \in Live' : Fresh(chnSls'[n].subnets)
      BY <2>5, <3>1, <3>2 DEF MoveFormed, Formed, Live, Fresh
    <3>4. UanServed'
      BY <2>0, <3>1, <3>2, <3>3 DEF UanServed, Ended
    <3>. QED BY <2>1, <2>3, <3>2, <3>4 DEF UansInChanges
  <2>6. CASE UanNext /\ UNCHANGED <<slsVars, chnFiles, chnPc, bssHost>>
    <3>1. MoveRoutes' /\ UanRoutes' /\ UanServed'
      BY <2>0, <2>6, UanStepRoutes, UanStepServed
    <3>. QED BY <2>1, <2>3, <3>1 DEF UansInChanges
  <2>. QED BY <2>2, <2>4, <2>5, <2>6
<1>. QED BY <1>1, <1>2

\* allocate-uan-ip and deallocate-uan-ip, which write the networks one by one and are run
\* again when they fail in between: a run that ends well leaves the UAN with one address of
\* each of the CAN and the CHN, or with none of any, for every number of nodes and of runs.
THEOREM UansGetAllNetworks == ChangesSpec => []UanInAllNetworks
<1>1. UansInChanges /\ [ChangesNext]_changesVars => UansInChanges'
  BY StepUansInChanges
<1>2. UansInChanges => UanInAllNetworks
  BY ServedInAll DEF UansInChanges, UanInAllNetworks
<1>. QED BY <1>1, <1>2, InitUansInChanges, PTL DEF ChangesSpec
=============================================================================
