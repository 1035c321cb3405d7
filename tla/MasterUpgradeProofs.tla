-------------------------- MODULE MasterUpgradeProofs --------------------------
(***************************************************************************)
(* Proofs about MasterUpgrade: for any number of masters, either script    *)
(* and runs that may be interrupted anywhere, the first master is always a *)
(* running member that was prepared, at most one master is missing, and a  *)
(* node on which the script ended well serves.  What a record says of its  *)
(* step must then hold for every step whose effect the end relies on.      *)
(***************************************************************************)
EXTENDS MasterUpgrade, FiniteSetTheorems, WellFoundedInduction, TLAPS

-----------------------------------------------------------------------------
(* The order of the steps.                                                 *)

\* Step s comes before position i.
Before(s, i) == \E j \in 1..(i - 1) : Steps[j] = s

\* Both scripts move the first master away before they drain or reset a node,
\* and wait for the node before they end.
LEMMA StepOrder ==
    ASSUME NEW i \in 1..Len(Steps)
    PROVE  /\ Steps[i] \in {"DRAIN_NODE", "POWER_CYCLE_NCN"} => Before("RECONFIGURE_FIRST_MASTER", i)
           /\ Steps[i] = "WAIT_FOR_CLOUD_INIT" => Before("POWER_CYCLE_NCN", i)
           /\ Steps[i] = "WAIT_FOR_K8S" => Before("DRAIN_NODE", i)
           /\ Steps[i] = "move_state_file" => /\ Before("WAIT_FOR_CLOUD_INIT", i)
                                              /\ Before("WAIT_FOR_K8S", i)
           /\ Steps[i] # "move_state_file" => i + 1 \in 1..Len(Steps)
<1>1. CASE Variant = "upgrade"
  <2>. /\ Len(Steps) = 23
       /\ Steps[2] = "RECONFIGURE_FIRST_MASTER" /\ Steps[7] = "DRAIN_NODE"
       /\ Steps[11] = "POWER_CYCLE_NCN" /\ Steps[13] = "WAIT_FOR_CLOUD_INIT"
       /\ Steps[14] = "WAIT_FOR_K8S" /\ Steps[23] = "move_state_file"
    BY <1>1 DEF Steps
  <2>. i \in 1..23
    OBVIOUS
  <2>1. /\ Steps[i] = "DRAIN_NODE" => i = 7
        /\ Steps[i] = "POWER_CYCLE_NCN" => i = 11
        /\ Steps[i] = "WAIT_FOR_CLOUD_INIT" => i = 13
        /\ Steps[i] = "WAIT_FOR_K8S" => i = 14
        /\ Steps[i] = "move_state_file" => i = 23
    BY <1>1 DEF Steps
  <2>. QED BY <2>1 DEF Before
<1>2. CASE Variant # "upgrade"
  <2>. /\ Len(Steps) = 21
       /\ Steps[3] = "RECONFIGURE_FIRST_MASTER" /\ Steps[6] = "DRAIN_NODE"
       /\ Steps[10] = "POWER_CYCLE_NCN" /\ Steps[12] = "WAIT_FOR_CLOUD_INIT"
       /\ Steps[13] = "WAIT_FOR_K8S" /\ Steps[21] = "move_state_file"
    BY <1>2 DEF Steps
  <2>. i \in 1..21
    OBVIOUS
  <2>1. /\ Steps[i] = "DRAIN_NODE" => i = 6
        /\ Steps[i] = "POWER_CYCLE_NCN" => i = 10
        /\ Steps[i] = "WAIT_FOR_CLOUD_INIT" => i = 12
        /\ Steps[i] = "WAIT_FOR_K8S" => i = 13
        /\ Steps[i] = "move_state_file" => i = 21
    BY <1>2 DEF Steps
  <2>. QED BY <2>1 DEF Before
<1>. QED BY <1>1, <1>2

\* The first position, and no step is recorded that ends a script.
LEMMA FirstStep ==
    /\ 1 \in 1..Len(Steps)
    /\ \A s : ~Before(s, 1)
    /\ "move_state_file" \notin StateName
<1>1. 1 \in 1..Len(Steps)
  <2>1. Variant = "upgrade" => Len(Steps) = 23
    BY DEF Steps
  <2>2. Variant # "upgrade" => Len(Steps) = 21
    BY DEF Steps
  <2>. QED BY <2>1, <2>2
<1>2. \A s : ~Before(s, 1)
  BY DEF Before
<1>3. "move_state_file" \notin StateName
  BY DEF StateName, EveryRun
<1>. QED BY <1>1, <1>2, <1>3

\* A step is recorded by name, unless every run executes it.
LEMMA NamedStep ==
    ASSUME NEW i \in 1..Len(Steps), Steps[i] \notin EveryRun
    PROVE  Steps[i] \in StateName
<1>1. CASE Variant = "upgrade"
  <2>1. DOMAIN Steps = 1..23 /\ Len(Steps) = 23
    BY <1>1 DEF Steps
  <2>. QED BY <2>1 DEF StateName, Step
<1>2. CASE Variant # "upgrade"
  <2>1. DOMAIN Steps = 1..21 /\ Len(Steps) = 21
    BY <1>2 DEF Steps
  <2>. QED BY <2>1 DEF StateName, Step
<1>. QED BY <1>1, <1>2

\* What comes before the next position.
LEMMA BeforeNext ==
    ASSUME NEW i \in 1..Len(Steps), NEW s
    PROVE  Before(s, i + 1) <=> Before(s, i) \/ Steps[i] = s
  BY DEF Before

-----------------------------------------------------------------------------
(* The master that is promoted.                                            *)

\* Every set of natural numbers that is not empty has a least element.
LEMMA LeastElement ==
    ASSUME NEW T \in SUBSET Nat, T # {}
    PROVE  \E m \in T : \A k \in T : m <= k
<1>1. IsWellFoundedOn(OpToRel(<, Nat), Nat)
  BY NatLessThanWellFounded, Zenon
<1>2. PICK m \in T : \A k \in T : <<k, m>> \notin OpToRel(<, Nat)
  BY <1>1, WFMin, Zenon
<1>3. \A k \in T : ~(k < m)
  BY <1>2 DEF OpToRel
<1>. QED BY <1>3

\* The promoted master is a member other than the node that is upgraded.
LEMMA PromotingMasterIsOther ==
    ASSUME members \subseteq Node, members \ {target} # {}
    PROVE  PromotingMaster \in members \ {target}
<1> DEFINE others == {i \in DOMAIN Masters : Masters[i] \in members \ {target}}
<1>1. others # {} /\ others \in SUBSET Nat
  BY MasterUpgradeAssumption DEF Node
<1>2. \E i \in others : \A j \in others : i <= j
  BY <1>1, LeastElement
<1>3. (CHOOSE i \in others : \A j \in others : i <= j) \in others
  BY <1>2
<1>. QED BY <1>3 DEF PromotingMaster

-----------------------------------------------------------------------------
(* The inductive invariant.                                                *)

\* Steps whose record says something about the node.
Milestone == {"DRAIN_NODE", "POWER_CYCLE_NCN", "WAIT_FOR_CLOUD_INIT", "WAIT_FOR_K8S"}

\* The step took effect, and its record is written or the next thing to do.
Taken(s, n) == s \in recorded[n] \/ (n = target /\ done /\ Steps[step] = s)

Shape ==
    /\ target \in Node \cup {None} /\ chosen \in Node \cup {None}
    /\ step \in 1..Len(Steps) /\ done \in BOOLEAN
    /\ recorded \in [Node -> SUBSET StateName]
    /\ firstMaster \in Node /\ members \subseteq Node
    /\ host \in [Node -> {"up", "booting", "installing"}]
    /\ target # None => target = chosen
    /\ target # None /\ done => Steps[step] \in StateName

\* Only the node that is being upgraded may be down or out of the cluster.
OthersServe ==
    \A n \in Node : n # chosen => host[n] = "up" /\ n \in members /\ recorded[n] = {}

\* A node past RECONFIGURE_FIRST_MASTER is not the first master.
FirstMasterMoved ==
    /\ \A n \in Node : Taken("RECONFIGURE_FIRST_MASTER", n) => firstMaster # n
    /\ target # None /\ Before("RECONFIGURE_FIRST_MASTER", step) => firstMaster # target

\* Runs do not pass a milestone without its record, and records are in order.
RecordsInOrder ==
    /\ target # None => \A m \in Milestone : Before(m, step) => m \in recorded[target]
    /\ \A n \in Node : Taken("WAIT_FOR_CLOUD_INIT", n) => "POWER_CYCLE_NCN" \in recorded[n]
    /\ \A n \in Node : Taken("WAIT_FOR_K8S", n) => "DRAIN_NODE" \in recorded[n]

\* What was awaited is still so: for the boot, while a run is going on.
AwaitedIsSo ==
    /\ target # None /\ Taken("WAIT_FOR_CLOUD_INIT", target) => host[target] = "up"
    /\ \A n \in Node : Taken("WAIT_FOR_K8S", n) => n \in members

IInv ==
    /\ Shape /\ FirstMasterReady /\ OthersServe
    /\ FirstMasterMoved /\ RecordsInOrder /\ AwaitedIsSo

-----------------------------------------------------------------------------
(* The invariant is inductive.                                             *)

\* Initially all nodes serve and nothing is recorded.
LEMMA InitIInv == Init => IInv
<1>. SUFFICES ASSUME Init PROVE IInv
  OBVIOUS
<1>. USE MasterUpgradeAssumption, FirstStep DEF Init
<1>1. Shape
  BY DEF Shape, Node
<1>2. FirstMasterReady
  BY DEF FirstMasterReady
<1>3. OthersServe
  BY DEF OthersServe
<1>4. FirstMasterMoved /\ RecordsInOrder /\ AwaitedIsSo
  BY DEF FirstMasterMoved, RecordsInOrder, AwaitedIsSo, Taken
<1>. QED BY <1>1, <1>2, <1>3, <1>4 DEF IInv

\* What the invariant reads of the cluster.
ClusterUnchanged == UNCHANGED <<recorded, firstMaster, prepared, members, host>>

\* A step that is neither a milestone nor that of the first master, taken or
\* passed over, with no effect on the cluster.
Progress ==
    /\ target # None /\ ~done
    /\ Steps[step] \notin Milestone \cup {"RECONFIGURE_FIRST_MASTER", "move_state_file"}
    /\ ClusterUnchanged /\ UNCHANGED <<target, chosen>>
    /\ \/ done' = TRUE /\ step' = step /\ Steps[step] \notin EveryRun
       \/ done' = FALSE /\ step' = step + 1

\* Progress preserves the invariant.
LEMMA ProgressIInv == IInv /\ Progress => IInv'
<1>. SUFFICES ASSUME IInv, Progress PROVE IInv'
  OBVIOUS
<1>. USE DEF IInv, Progress, ClusterUnchanged
<1>0. step \in 1..Len(Steps) /\ step' \in 1..Len(Steps)
  BY StepOrder DEF Shape
<1>1. Shape'
  BY <1>0, NamedStep DEF Shape
<1>2. FirstMasterReady' /\ OthersServe'
  BY DEF FirstMasterReady, OthersServe
<1>3. /\ \A m \in Milestone \cup {"RECONFIGURE_FIRST_MASTER"} :
           Before(m, step) <=> Before(m, step')
      /\ \A m \in Milestone \cup {"RECONFIGURE_FIRST_MASTER"}, n \in Node :
           Taken(m, n) <=> Taken(m, n)'
  BY <1>0, BeforeNext DEF Taken
<1>4. FirstMasterMoved'
  BY <1>3 DEF FirstMasterMoved, Before
<1>5. RecordsInOrder'
  BY <1>3 DEF RecordsInOrder, Milestone, Before
<1>6. AwaitedIsSo'
  BY <1>3 DEF AwaitedIsSo, Milestone, Shape
<1>. QED BY <1>1, <1>2, <1>4, <1>5, <1>6

\* Most steps of the scripts are of that kind.
LEMMA PlainStepsProgress ==
    ASSUME IInv,
           \/ BackupSat
           \/ SetNoWipe("metal_no_wipe_0", 0) \/ SetNoWipe("metal_no_wipe_1", 1)
           \/ UpdateKernelParameters \/ ForceTimeSync \/ SetLiveDir
           \/ ShutdownServices \/ ReadLastEpoch \/ WaitForNcnBoot
           \/ UnsetOverlayReset \/ RestoreSat \/ PlainStep
    PROVE  Progress
<1>. USE DEF Progress, ClusterUnchanged, At, Milestone, Performed, Goto, EveryRun,
             operVars, hostVars, bssVars
<1>1. CASE BackupSat
  BY <1>1 DEF BackupSat
<1>2. ASSUME NEW s \in {"metal_no_wipe_0", "metal_no_wipe_1"}, NEW v, SetNoWipe(s, v)
      PROVE  Progress
  BY <1>2 DEF SetNoWipe
<1>3. CASE UpdateKernelParameters
  BY <1>3 DEF UpdateKernelParameters
<1>4. CASE ForceTimeSync
  BY <1>4 DEF ForceTimeSync
<1>5. CASE SetLiveDir
  BY <1>5 DEF SetLiveDir
<1>6. CASE ShutdownServices
  BY <1>6 DEF ShutdownServices
<1>7. CASE ReadLastEpoch
  BY <1>7 DEF ReadLastEpoch
<1>8. CASE WaitForNcnBoot
  BY <1>8 DEF WaitForNcnBoot
<1>9. CASE UnsetOverlayReset
  BY <1>9 DEF UnsetOverlayReset
<1>10. CASE RestoreSat
  BY <1>10 DEF RestoreSat
<1>11. CASE PlainStep
  BY <1>11 DEF PlainStep, Effectless
<1>. QED BY <1>1, <1>2, <1>3, <1>4, <1>5, <1>6, <1>7, <1>8, <1>9, <1>10, <1>11

\* A run ends before the script does.
LEMMA ExitIInv == IInv /\ Exit /\ ClusterUnchanged /\ UNCHANGED chosen => IInv'
<1>. SUFFICES ASSUME IInv, Exit, ClusterUnchanged, UNCHANGED chosen PROVE IInv'
  OBVIOUS
<1>. USE FirstStep DEF IInv, Exit, ClusterUnchanged
<1>1. \A s, n : Taken(s, n)' => Taken(s, n)
  BY DEF Taken
<1>2. \A n \in Node : Taken("RECONFIGURE_FIRST_MASTER", n)' => firstMaster # n
  BY <1>1 DEF FirstMasterMoved
<1>3. Shape'
  BY DEF Shape
<1>4. FirstMasterReady' /\ OthersServe'
  BY DEF FirstMasterReady, OthersServe
<1>5. FirstMasterMoved' /\ RecordsInOrder' /\ AwaitedIsSo'
  BY <1>1, <1>2 DEF FirstMasterMoved, RecordsInOrder, AwaitedIsSo
<1>. QED BY <1>3, <1>4, <1>5

\* A run starts: on the node that is being upgraded, or on a new one.
LEMMA StartIInv == ASSUME NEW n \in Node, IInv, Start(n) PROVE IInv'
<1>. USE FirstStep, MasterUpgradeAssumption DEF IInv, Start, operVars, hostVars, bssVars
<1>1. \A s, m : Taken(s, m)' => Taken(s, m)
  BY DEF Taken
<1>2. Shape'
  BY DEF Shape
<1>3. FirstMasterReady' /\ OthersServe'
  BY DEF FirstMasterReady, OthersServe, Shape
<1>4. FirstMasterMoved' /\ RecordsInOrder' /\ AwaitedIsSo'
  BY <1>1 DEF FirstMasterMoved, RecordsInOrder, AwaitedIsSo
<1>. QED BY <1>2, <1>3, <1>4

\* A recorded step is skipped: what its record says holds.
LEMMA SkipIInv == IInv /\ Skip => IInv'
<1>. SUFFICES ASSUME IInv, Skip PROVE IInv'
  OBVIOUS
<1>. USE DEF IInv, Skip, Goto, is_state_recorded, operVars, hostVars, bssVars
<1>1. /\ step \in 1..Len(Steps) /\ Steps[step] \in recorded[target]
      /\ target \in Node /\ Steps[step] \in StateName
  BY DEF Shape
<1>2. step' \in 1..Len(Steps)
  BY <1>1, StepOrder, FirstStep
<1>3. Shape'
  BY <1>2 DEF Shape
<1>4. FirstMasterReady' /\ OthersServe'
  BY DEF FirstMasterReady, OthersServe
<1>5. \A s, n : Taken(s, n)' => Taken(s, n)
  BY DEF Taken
<1>6. FirstMasterMoved'
  <2>1. Before("RECONFIGURE_FIRST_MASTER", step') => firstMaster # target
    BY <1>1, BeforeNext DEF FirstMasterMoved, Taken
  <2>. QED BY <1>5, <2>1 DEF FirstMasterMoved
<1>7. RecordsInOrder'
  <2>1. \A m \in Milestone : Before(m, step') => m \in recorded[target]
    BY <1>1, BeforeNext DEF RecordsInOrder
  <2>. QED BY <1>5, <2>1 DEF RecordsInOrder
<1>8. AwaitedIsSo'
  BY <1>5 DEF AwaitedIsSo
<1>. QED BY <1>3, <1>4, <1>6, <1>7, <1>8

\* A step that took effect is recorded.
LEMMA RecordIInv == IInv /\ record_state => IInv'
<1>. SUFFICES ASSUME IInv, record_state PROVE IInv'
  OBVIOUS
<1>. USE DEF IInv, record_state, Goto, operVars, hostVars, bssVars
<1>1. /\ step \in 1..Len(Steps) /\ target \in Node /\ target = chosen
      /\ \A s : s \in recorded'[target] <=> s \in recorded[target] \/ s = Steps[step]
      /\ \A n \in Node \ {target} : recorded'[n] = recorded[n]
  BY DEF Shape
<1>2. step' \in 1..Len(Steps)
  BY <1>1, StepOrder, FirstStep DEF Shape
<1>3. Shape'
  BY <1>1, <1>2 DEF Shape
<1>4. FirstMasterReady' /\ OthersServe'
  BY <1>1 DEF FirstMasterReady, OthersServe
<1>5. \A s : \A n \in Node : Taken(s, n)' => Taken(s, n)
  BY <1>1 DEF Taken
<1>6. FirstMasterMoved'
  <2>1. Before("RECONFIGURE_FIRST_MASTER", step') => firstMaster # target
    BY <1>1, BeforeNext DEF FirstMasterMoved, Taken
  <2>2. \A n \in Node : Taken("RECONFIGURE_FIRST_MASTER", n)' => firstMaster # n
    BY <1>1 DEF FirstMasterMoved, Taken
  <2>. QED BY <2>1, <2>2 DEF FirstMasterMoved
<1>7. RecordsInOrder'
  <2>1. \A m \in Milestone : Before(m, step') => m \in recorded'[target]
    BY <1>1, BeforeNext DEF RecordsInOrder
  <2>2. \A n \in Node : Taken("WAIT_FOR_CLOUD_INIT", n)' => "POWER_CYCLE_NCN" \in recorded'[n]
    BY <1>1 DEF RecordsInOrder, Taken
  <2>3. \A n \in Node : Taken("WAIT_FOR_K8S", n)' => "DRAIN_NODE" \in recorded'[n]
    BY <1>1 DEF RecordsInOrder, Taken
  <2>. QED BY <2>1, <2>2, <2>3 DEF RecordsInOrder
<1>8. AwaitedIsSo'
  BY <1>1 DEF AwaitedIsSo, Taken
<1>. QED BY <1>3, <1>4, <1>6, <1>7, <1>8

\* The script ends well: the node is up and a member, like the others.
LEMMA EndIInv == IInv /\ move_state_file => IInv'
<1>. SUFFICES ASSUME IInv, move_state_file PROVE IInv'
  OBVIOUS
<1>. USE FirstStep DEF IInv, move_state_file, Exit, At, operVars, hostVars, bssVars
<1>1. /\ step \in 1..Len(Steps) /\ target \in Node /\ target = chosen
      /\ recorded'[target] = {}
      /\ \A n \in Node \ {target} : recorded'[n] = recorded[n]
  BY DEF Shape
<1>2. /\ "WAIT_FOR_CLOUD_INIT" \in recorded[target]
      /\ "WAIT_FOR_K8S" \in recorded[target]
  BY <1>1, StepOrder DEF RecordsInOrder, Milestone
<1>3. host[target] = "up" /\ target \in members
  BY <1>1, <1>2 DEF AwaitedIsSo, Taken
<1>4. Shape'
  BY <1>1 DEF Shape
<1>5. FirstMasterReady' /\ OthersServe'
  BY <1>1, <1>3 DEF FirstMasterReady, OthersServe
<1>6. \A n \in Node : recorded'[n] = {} /\ \A s : ~Taken(s, n)'
  BY <1>1 DEF OthersServe, Taken
<1>7. FirstMasterMoved' /\ RecordsInOrder' /\ AwaitedIsSo'
  BY <1>6 DEF FirstMasterMoved, RecordsInOrder, AwaitedIsSo
<1>. QED BY <1>4, <1>5, <1>7

\* The first master is moved to another member, which serves.
LEMMA ReconfigureIInv == IInv /\ ReconfigureFirstMaster => IInv'
<1>. SUFFICES ASSUME IInv, ReconfigureFirstMaster PROVE IInv'
  OBVIOUS
<1>. USE DEF IInv, At, is_state_recorded, operVars, scriptVars
<1>0. /\ step \in 1..Len(Steps) /\ target \in Node /\ target = chosen /\ ~done
      /\ Steps[step] = "RECONFIGURE_FIRST_MASTER" /\ Steps[step] \notin EveryRun
      /\ UNCHANGED <<recorded, members, host, target, chosen>>
  BY DEF ReconfigureFirstMaster, Shape, EveryRun, Performed, Goto
<1>1. CASE firstMaster # target
  <2>. /\ step' = step + 1 /\ done' = FALSE
       /\ UNCHANGED <<firstMaster, prepared>>
    BY <1>0, <1>1 DEF ReconfigureFirstMaster, Goto
  <2>1. Shape'
    BY <1>0, StepOrder DEF Shape
  <2>2. FirstMasterReady' /\ OthersServe'
    BY <1>0 DEF FirstMasterReady, OthersServe
  <2>3. \A s : \A n \in Node : Taken(s, n)' <=> Taken(s, n)
    BY <1>0 DEF Taken
  <2>4. \A m \in Milestone : Before(m, step') <=> Before(m, step)
    BY <1>0, BeforeNext DEF Milestone
  <2>5. FirstMasterMoved'
    BY <1>0, <1>1, <2>3 DEF FirstMasterMoved
  <2>6. RecordsInOrder' /\ AwaitedIsSo'
    BY <1>0, <2>3, <2>4 DEF RecordsInOrder, AwaitedIsSo
  <2>. QED BY <2>1, <2>2, <2>5, <2>6
<1>2. CASE firstMaster = target /\ PromotingMaster \notin prepared
  <2>. /\ prepared \subseteq prepared'
       /\ UNCHANGED <<firstMaster, step, done>>
    BY <1>2 DEF ReconfigureFirstMaster
  <2>1. Shape' /\ FirstMasterReady' /\ OthersServe'
    BY <1>0 DEF Shape, FirstMasterReady, OthersServe
  <2>2. FirstMasterMoved' /\ RecordsInOrder' /\ AwaitedIsSo'
    BY <1>0 DEF FirstMasterMoved, RecordsInOrder, AwaitedIsSo, Taken
  <2>. QED BY <2>1, <2>2
<1>3. CASE firstMaster = target /\ PromotingMaster \in prepared
  <2>. /\ firstMaster' = PromotingMaster /\ prepared' = prepared
       /\ done' = TRUE /\ step' = step /\ members \ {target} # {}
    BY <1>0, <1>3 DEF ReconfigureFirstMaster, Performed, Goto
  <2>1. PromotingMaster \in members \ {target}
    BY PromotingMasterIsOther DEF Shape
  <2>2. Shape'
    BY <1>0, <2>1, NamedStep DEF Shape
  <2>3. FirstMasterReady' /\ OthersServe'
    BY <1>0, <1>3, <2>1 DEF FirstMasterReady, OthersServe, Shape
  <2>4. FirstMasterMoved'
    BY <1>0, <2>1 DEF FirstMasterMoved, Taken, OthersServe
  <2>5. RecordsInOrder' /\ AwaitedIsSo'
    BY <1>0 DEF RecordsInOrder, AwaitedIsSo, Taken
  <2>. QED BY <2>2, <2>3, <2>4, <2>5
<1>. QED BY <1>1, <1>2, <1>3

\* A milestone that takes effect: it is no step of the first master, and its
\* record comes next.
LEMMA MilestoneTaken ==
    ASSUME IInv, NEW m \in Milestone, At(m), Performed,
           UNCHANGED <<firstMaster, prepared>>
    PROVE  /\ target \in Node /\ target = chosen /\ step \in 1..Len(Steps) /\ ~done
           /\ Steps[step] = m /\ m \notin recorded[target]
           /\ UNCHANGED <<recorded, target, chosen, step>> /\ done' = TRUE
           /\ FirstMasterMoved'
           /\ Steps[step] \in StateName
<1>. USE DEF IInv, At, is_state_recorded, Performed, Goto, operVars, Milestone, EveryRun
<1>1. /\ target \in Node /\ target = chosen /\ step \in 1..Len(Steps) /\ ~done
      /\ Steps[step] = m /\ m \notin recorded[target]
      /\ UNCHANGED <<recorded, target, chosen, step>> /\ done' = TRUE
  BY DEF Shape
<1>2. FirstMasterMoved'
  BY <1>1 DEF FirstMasterMoved, Taken
<1>. QED BY <1>1, <1>2, NamedStep

\* The node that is drained, and then reset, is not the first master.
LEMMA DrainIInv == IInv /\ drain_node => IInv'
<1>. SUFFICES ASSUME IInv, drain_node PROVE IInv'
  OBVIOUS
<1>. USE DEF IInv, drain_node, hostVars, bssVars
<1>1. /\ target \in Node /\ target = chosen /\ step \in 1..Len(Steps) /\ ~done
      /\ Steps[step] = "DRAIN_NODE" /\ "DRAIN_NODE" \notin recorded[target]
      /\ UNCHANGED <<recorded, target, chosen, step>> /\ done' = TRUE
      /\ FirstMasterMoved' /\ Steps[step] \in StateName
  BY MilestoneTaken DEF Milestone
<1>2. firstMaster # target
  BY <1>1, StepOrder DEF FirstMasterMoved, At
<1>3. Shape' /\ FirstMasterReady' /\ OthersServe'
  BY <1>1, <1>2 DEF Shape, FirstMasterReady, OthersServe
<1>4. RecordsInOrder'
  BY <1>1 DEF RecordsInOrder, Taken
<1>5. AwaitedIsSo'
  BY <1>1 DEF AwaitedIsSo, RecordsInOrder, Taken
<1>. QED BY <1>1, <1>3, <1>4, <1>5

\* The reset.
LEMMA PowerCycleIInv == IInv /\ PowerCycle => IInv'
<1>. SUFFICES ASSUME IInv, PowerCycle PROVE IInv'
  OBVIOUS
<1>. USE DEF IInv, PowerCycle, bssVars
<1>1. /\ target \in Node /\ target = chosen /\ step \in 1..Len(Steps) /\ ~done
      /\ Steps[step] = "POWER_CYCLE_NCN" /\ "POWER_CYCLE_NCN" \notin recorded[target]
      /\ UNCHANGED <<recorded, target, chosen, step>> /\ done' = TRUE
      /\ FirstMasterMoved' /\ Steps[step] \in StateName
  BY MilestoneTaken DEF Milestone
<1>2. firstMaster # target
  BY <1>1, StepOrder DEF FirstMasterMoved, At
<1>3. Shape' /\ FirstMasterReady' /\ OthersServe'
  BY <1>1, <1>2 DEF Shape, FirstMasterReady, OthersServe
<1>4. RecordsInOrder'
  BY <1>1 DEF RecordsInOrder, Taken
<1>5. AwaitedIsSo'
  BY <1>1 DEF AwaitedIsSo, RecordsInOrder, Taken
<1>. QED BY <1>1, <1>3, <1>4, <1>5

\* What a run waits for is so when it goes on.
LEMMA WaitIInv == IInv /\ (WaitForCloudInit \/ wait_for_kubernetes) => IInv'
<1>. SUFFICES ASSUME IInv, NEW m \in {"WAIT_FOR_CLOUD_INIT", "WAIT_FOR_K8S"}, At(m), Performed,
                     UNCHANGED <<firstMaster, prepared, members, host>>,
                     m = "WAIT_FOR_CLOUD_INIT" => host[target] = "up",
                     m = "WAIT_FOR_K8S" => target \in members
              PROVE  IInv'
  BY DEF WaitForCloudInit, wait_for_kubernetes, hostVars, bssVars
<1>. USE DEF IInv
<1>1. /\ target \in Node /\ target = chosen /\ step \in 1..Len(Steps) /\ ~done
      /\ Steps[step] = m /\ m \notin recorded[target]
      /\ UNCHANGED <<recorded, target, chosen, step>> /\ done' = TRUE
      /\ FirstMasterMoved' /\ Steps[step] \in StateName
  BY MilestoneTaken DEF Milestone
<1>2. /\ m = "WAIT_FOR_CLOUD_INIT" => "POWER_CYCLE_NCN" \in recorded[target]
      /\ m = "WAIT_FOR_K8S" => "DRAIN_NODE" \in recorded[target]
  BY <1>1, StepOrder DEF RecordsInOrder, Milestone, At
<1>3. Shape' /\ FirstMasterReady' /\ OthersServe'
  BY <1>1 DEF Shape, FirstMasterReady, OthersServe
<1>4. RecordsInOrder'
  BY <1>1, <1>2 DEF RecordsInOrder, Taken
<1>5. AwaitedIsSo'
  BY <1>1 DEF AwaitedIsSo, Taken
<1>. QED BY <1>1, <1>3, <1>4, <1>5

\* A node boots: it is the node that is upgraded, which is not the first master.
LEMMA BootIInv == ASSUME NEW n \in Node, IInv, Boot(n) \/ DiskBoot(n) PROVE IInv'
<1>. USE DEF IInv, scriptVars, operVars, hostVars, bssVars
<1>1. CASE NetBoot(n)
  <2>. USE <1>1 DEF NetBoot
  <2>1. n = chosen /\ n # firstMaster
    BY DEF OthersServe, FirstMasterReady
  <2>2. Shape' /\ FirstMasterReady' /\ OthersServe'
    BY <2>1 DEF Shape, FirstMasterReady, OthersServe
  <2>3. FirstMasterMoved' /\ RecordsInOrder'
    BY DEF FirstMasterMoved, RecordsInOrder, Taken
  <2>4. AwaitedIsSo'
    BY DEF AwaitedIsSo, Taken, Shape
  <2>. QED BY <2>2, <2>3, <2>4
<1>2. CASE CloudInit(n) \/ DiskBoot(n)
  <2>. /\ host' = [host EXCEPT ![n] = "up"]
       /\ UNCHANGED <<recorded, firstMaster, prepared, members, target, chosen, step, done>>
    BY <1>2 DEF CloudInit, DiskBoot
  <2>1. Shape' /\ FirstMasterReady' /\ OthersServe'
    BY DEF Shape, FirstMasterReady, OthersServe
  <2>2. FirstMasterMoved' /\ RecordsInOrder'
    BY DEF FirstMasterMoved, RecordsInOrder, Taken
  <2>3. AwaitedIsSo'
    BY DEF AwaitedIsSo, Taken, Shape
  <2>. QED BY <2>1, <2>2, <2>3
<1>3. CASE Join(n)
  <2>. USE <1>3 DEF Join
  <2>1. Shape' /\ FirstMasterReady' /\ OthersServe'
    BY DEF Shape, FirstMasterReady, OthersServe
  <2>2. FirstMasterMoved' /\ RecordsInOrder' /\ AwaitedIsSo'
    BY DEF FirstMasterMoved, RecordsInOrder, AwaitedIsSo, Taken
  <2>. QED BY <2>1, <2>2
<1>. QED BY <1>1, <1>2, <1>3 DEF Boot

\* Every step preserves the invariant.
LEMMA NextIInv == IInv /\ [Next]_vars => IInv'
<1>. SUFFICES ASSUME IInv, [Next]_vars PROVE IInv'
  OBVIOUS
<1>1. CASE Script
  <2>1. CASE BootTimeout
    BY <2>1, ExitIInv DEF BootTimeout, ClusterUnchanged, operVars, hostVars, bssVars
  <2>. QED
    BY <1>1, <2>1, PlainStepsProgress, ProgressIInv, SkipIInv, RecordIInv, EndIInv,
       ReconfigureIInv, DrainIInv, PowerCycleIInv, WaitIInv DEF Script
<1>2. CASE Interrupt
  BY <1>2, ExitIInv DEF Interrupt, ClusterUnchanged, operVars, hostVars, bssVars
<1>3. ASSUME NEW n \in Node, Start(n) \/ Boot(n) \/ DiskBoot(n) PROVE IInv'
  BY <1>3, StartIInv, BootIInv
<1>4. CASE UNCHANGED vars
  BY <1>4 DEF vars, IInv, Shape, FirstMasterReady, OthersServe, FirstMasterMoved,
              RecordsInOrder, AwaitedIsSo, Taken,
              scriptVars, operVars, hostVars, bssVars
<1>. QED BY <1>1, <1>2, <1>3, <1>4 DEF Next

\* So the invariant always holds.
LEMMA SpecIInv == Spec => []IInv
  BY InitIInv, NextIInv, PTL DEF Spec

-----------------------------------------------------------------------------
(* The theorems.                                                           *)

\* first-master-hostname always names a running member that was prepared, for
\* any number of masters, whichever of them the scripts are run on and wherever
\* their runs end (promote-initial-master.sh, RECONFIGURE_FIRST_MASTER).
THEOREM FirstMasterIsReady == Spec => []FirstMasterReady
<1>1. IInv => FirstMasterReady
  BY DEF IInv
<1>. QED BY <1>1, SpecIInv, PTL

\* There are finitely many masters.
LEMMA NodesAreFinite == IsFiniteSet(Node)
<1>1. Masters \in Surjection(1..Len(Masters), Node)
  BY MasterUpgradeAssumption DEF Node, Surjection
<1>2. IsFiniteSet(1..Len(Masters))
  BY FS_Interval, MasterUpgradeAssumption
<1>. QED BY <1>1, <1>2, FS_Surjection

\* At most one master is down or out of the cluster, whatever happens to the
\* runs: the scripts wait for a node (WAIT_FOR_CLOUD_INIT, WAIT_FOR_K8S) before
\* they let the operator go on to the next.
THEOREM QuorumIsKept == Spec => []QuorumKept
<1>1. IInv => QuorumKept
  <2>. SUFFICES ASSUME IInv PROVE QuorumKept
    OBVIOUS
  <2> DEFINE serving == {n \in Node : host[n] = "up" /\ n \in members}
  <2>1. IsFiniteSet(serving) /\ IsFiniteSet(Node \ {chosen})
    BY NodesAreFinite, FS_Subset
  <2>2. Cardinality(Node \ {chosen}) >= Cardinality(Node) - 1
    <3>1. Cardinality(Node) \in Nat
      BY NodesAreFinite, FS_CardinalityType
    <3>2. Cardinality(Node \ {chosen})
            = IF chosen \in Node THEN Cardinality(Node) - 1 ELSE Cardinality(Node)
      BY NodesAreFinite, FS_RemoveElement, Zenon
    <3>. QED BY <3>1, <3>2
  <2>3. Node \ {chosen} \in SUBSET serving
    BY DEF IInv, OthersServe
  <2>4. Cardinality(Node \ {chosen}) <= Cardinality(serving)
    BY <2>1, <2>3, FS_Subset
  <2>5. /\ Cardinality(serving) \in Nat /\ Cardinality(Node) \in Nat
        /\ Cardinality(Node \ {chosen}) \in Nat
    BY <2>1, NodesAreFinite, FS_CardinalityType
  <2>. QED BY <2>2, <2>4, <2>5 DEF QuorumKept
<1>. QED BY <1>1, SpecIInv, PTL

-----------------------------------------------------------------------------
(* A node on which the script ended well serves.                           *)

-----------------------------------------------------------------------------
(* The invariant.                                                          *)

\* Steps that no run passes without their record.
Recorded == {"BACKUP_SAT_LOCAL_FILES", "DRAIN_NODE", "SET_rd_live_dir", "POWER_CYCLE_NCN",
             "WAIT_FOR_CLOUD_INIT", "WAIT_FOR_K8S", "UNSET_rd_live_overlay_reset",
             "RESTORE_SAT_LOCAL_FILES"}

\* In the script that is run, s comes before t.
Precedes(s, t) == \A i \in 1..Len(Steps) : Steps[i] = t => Before(s, i)

\* The records of a node are those of the steps before the last one taken.
AllInOrder ==
    /\ target # None => \A s \in Recorded : Before(s, step) => s \in recorded[target]
    /\ \A s, t \in Recorded, n \in Node :
           Precedes(s, t) /\ Taken(t, n) => s \in recorded[n]

\* What a step that took effect did, nothing has undone.
EffectsStay ==
    \A n \in Node :
        /\ Taken("WAIT_FOR_CLOUD_INIT", n) => host[n] = "up"
        /\ Taken("SET_rd_live_dir", n) => liveDir[n] = "new"
        /\ Taken("DRAIN_NODE", n) /\ n \in members => release[n] = "new"
        /\ Taken("UNSET_rd_live_overlay_reset", n) => n \notin overlayReset
        /\ Taken("BACKUP_SAT_LOCAL_FILES", n) => n \in satBackup
        /\ Taken("RESTORE_SAT_LOCAL_FILES", n) => n \in sat

\* Only a node with a copy of its files and the release to boot is reset or wiped.
WipesArePrepared ==
    \A n \in Node :
        /\ host[n] # "up" => {"BACKUP_SAT_LOCAL_FILES", "SET_rd_live_dir"} \subseteq recorded[n]
        /\ n \notin sat => "BACKUP_SAT_LOCAL_FILES" \in recorded[n]

\* A run that is past its last metal.no-wipe has set it to 1.
DisksKept == target # None /\ Before("metal_no_wipe_1", step) => noWipe[target] = 1

\* No upgraded node is chosen again.
ChosenIsNotUpgraded == chosen # None => chosen \notin upgraded

ServeInv ==
    /\ AllInOrder /\ EffectsStay /\ WipesArePrepared /\ DisksKept
    /\ ChosenIsNotUpgraded /\ UpgradedNodesServe

-----------------------------------------------------------------------------
(* The order of the steps.                                                 *)

\* In both scripts the files are saved and the release to boot is set before the
\* node is reset, the node has booted before what is undone or restored, and
\* metal.no-wipe is cleared again before the end.
LEMMA ScriptOrder ==
    ASSUME NEW i \in 1..Len(Steps)
    PROVE  /\ Steps[i] = "POWER_CYCLE_NCN" => /\ Before("BACKUP_SAT_LOCAL_FILES", i)
                                              /\ Before("SET_rd_live_dir", i)
           /\ Steps[i] = "WAIT_FOR_CLOUD_INIT" => Before("POWER_CYCLE_NCN", i)
           /\ Steps[i] = "UNSET_rd_live_overlay_reset" => Before("SET_rd_live_dir", i)
           /\ Steps[i] = "RESTORE_SAT_LOCAL_FILES" => /\ Before("BACKUP_SAT_LOCAL_FILES", i)
                                                      /\ Before("WAIT_FOR_CLOUD_INIT", i)
           /\ Steps[i] = "metal_no_wipe_0" => ~Before("metal_no_wipe_1", i)
           /\ Steps[i] = "move_state_file" => /\ \A s \in Recorded : Before(s, i)
                                              /\ Before("metal_no_wipe_1", i)
<1>1. CASE Variant = "upgrade"
  <2>. /\ Len(Steps) = 23
       /\ Steps[1] = "BACKUP_SAT_LOCAL_FILES"
       /\ Steps[3] = "metal_no_wipe_0"
       /\ Steps[7] = "DRAIN_NODE"
       /\ Steps[8] = "SET_rd_live_dir"
       /\ Steps[11] = "POWER_CYCLE_NCN"
       /\ Steps[13] = "WAIT_FOR_CLOUD_INIT"
       /\ Steps[14] = "WAIT_FOR_K8S"
       /\ Steps[15] = "UNSET_rd_live_overlay_reset"
       /\ Steps[17] = "metal_no_wipe_1"
       /\ Steps[19] = "RESTORE_SAT_LOCAL_FILES"
       /\ Steps[23] = "move_state_file"
    BY <1>1 DEF Steps
  <2>. i \in 1..23
    OBVIOUS
  <2>1. /\ Steps[i] = "metal_no_wipe_0" => i = 3
        /\ Steps[i] = "POWER_CYCLE_NCN" => i = 11
        /\ Steps[i] = "WAIT_FOR_CLOUD_INIT" => i = 13
        /\ Steps[i] = "UNSET_rd_live_overlay_reset" => i = 15
        /\ Steps[i] = "RESTORE_SAT_LOCAL_FILES" => i = 19
        /\ Steps[i] = "move_state_file" => i = 23
    BY <1>1 DEF Steps
  <2>2. \A j \in 1..23 : Steps[j] = "metal_no_wipe_1" => j = 17
    BY <1>1 DEF Steps
  <2>. QED BY <2>1, <2>2 DEF Before, Recorded
<1>2. CASE Variant # "upgrade"
  <2>. /\ Len(Steps) = 21
       /\ Steps[2] = "BACKUP_SAT_LOCAL_FILES"
       /\ Steps[4] = "metal_no_wipe_0"
       /\ Steps[6] = "DRAIN_NODE"
       /\ Steps[7] = "SET_rd_live_dir"
       /\ Steps[10] = "POWER_CYCLE_NCN"
       /\ Steps[12] = "WAIT_FOR_CLOUD_INIT"
       /\ Steps[13] = "WAIT_FOR_K8S"
       /\ Steps[14] = "UNSET_rd_live_overlay_reset"
       /\ Steps[16] = "metal_no_wipe_1"
       /\ Steps[18] = "RESTORE_SAT_LOCAL_FILES"
       /\ Steps[21] = "move_state_file"
    BY <1>2 DEF Steps
  <2>. i \in 1..21
    OBVIOUS
  <2>1. /\ Steps[i] = "metal_no_wipe_0" => i = 4
        /\ Steps[i] = "POWER_CYCLE_NCN" => i = 10
        /\ Steps[i] = "WAIT_FOR_CLOUD_INIT" => i = 12
        /\ Steps[i] = "UNSET_rd_live_overlay_reset" => i = 14
        /\ Steps[i] = "RESTORE_SAT_LOCAL_FILES" => i = 18
        /\ Steps[i] = "move_state_file" => i = 21
    BY <1>2 DEF Steps
  <2>2. \A j \in 1..21 : Steps[j] = "metal_no_wipe_1" => j = 16
    BY <1>2 DEF Steps
  <2>. QED BY <2>1, <2>2 DEF Before, Recorded
<1>. QED BY <1>1, <1>2

-----------------------------------------------------------------------------
(* Type correctness.                                                       *)

\* The types that IInv does not have, of what nodes and scripts leave.
OtherTypes ==
    /\ prepared \subseteq Node
    /\ noWipe \in [Node -> {0, 1}] /\ liveDir \in [Node -> Release]
    /\ overlayReset \subseteq Node /\ epoch \in [Node -> 0..MaxBoots]
    /\ bootEntries \subseteq Node /\ release \in [Node -> Release]
    /\ sat \subseteq Node /\ satBackup \subseteq Node
    /\ bootscript_last_epoch \in 0..MaxBoots
    /\ upgraded \subseteq Node

\* Every step of a script keeps the types.
LEMMA ScriptTypes == ASSUME IInv, OtherTypes, Script PROVE OtherTypes'
<1>. USE DEF OtherTypes, bssVars, hostVars, operVars, scriptVars, At, Goto, Performed, Exit
<1>0. target # None => target \in Node
  BY DEF IInv, Shape
<1>1. CASE Skip \/ record_state
  BY <1>1 DEF Skip, record_state
<1>2. CASE move_state_file \/ BootTimeout
  BY <1>0, <1>2, MasterUpgradeAssumption DEF move_state_file, BootTimeout
<1>3. CASE BackupSat \/ RestoreSat
  BY <1>3 DEF BackupSat, RestoreSat
<1>4. CASE ReconfigureFirstMaster
  <2>1. firstMaster = target => PromotingMaster \in Node
    BY <1>4, PromotingMasterIsOther DEF IInv, Shape, ReconfigureFirstMaster
  <2>. QED BY <1>4, <2>1 DEF ReconfigureFirstMaster
<1>5. ASSUME NEW s, NEW v \in {0, 1}, SetNoWipe(s, v) PROVE OtherTypes'
  BY <1>5 DEF SetNoWipe
<1>6. CASE UpdateKernelParameters \/ SetLiveDir
  BY <1>0, <1>6 DEF UpdateKernelParameters, SetLiveDir, Release
<1>7. CASE ForceTimeSync \/ drain_node \/ WaitForNcnBoot \/ WaitForCloudInit
           \/ wait_for_kubernetes \/ PlainStep
  BY <1>7 DEF ForceTimeSync, drain_node, WaitForNcnBoot, WaitForCloudInit,
              wait_for_kubernetes, PlainStep
<1>8. CASE ShutdownServices \/ PowerCycle \/ UnsetOverlayReset
  BY <1>8 DEF ShutdownServices, PowerCycle, UnsetOverlayReset
<1>9. CASE ReadLastEpoch
  BY <1>0, <1>9 DEF ReadLastEpoch
<1>. QED BY <1>1, <1>2, <1>3, <1>4, <1>5, <1>6, <1>7, <1>8, <1>9 DEF Script

\* So does every step.
LEMMA NextTypes == IInv /\ OtherTypes /\ [Next]_vars => OtherTypes'
<1>. SUFFICES ASSUME IInv, OtherTypes, [Next]_vars PROVE OtherTypes'
  OBVIOUS
<1>. USE DEF bssVars, hostVars, operVars, scriptVars
<1>1. CASE Interrupt
  BY <1>1, MasterUpgradeAssumption DEF OtherTypes, Interrupt, Exit
<1>2. ASSUME NEW n \in Node, Start(n) \/ CloudInit(n) \/ Join(n) \/ DiskBoot(n)
      PROVE  OtherTypes'
  BY <1>2 DEF OtherTypes, Start, CloudInit, Join, DiskBoot
<1>3. ASSUME NEW n \in Node, NetBoot(n) PROVE OtherTypes'
  <2>1. epoch' \in [Node -> 0..MaxBoots]
    <3>1. epoch[n] + 1 \in 0..MaxBoots
      BY <1>3, MasterUpgradeAssumption DEF OtherTypes, NetBoot
    <3>. QED BY <1>3, <3>1 DEF OtherTypes, NetBoot
  <2>2. /\ prepared' \subseteq Node /\ sat' \subseteq Node /\ bootEntries' \subseteq Node
        /\ release' \in [Node -> Release]
    BY <1>3 DEF OtherTypes, NetBoot
  <2>. QED BY <1>3, <2>1, <2>2 DEF OtherTypes, NetBoot
<1>4. CASE UNCHANGED vars
  BY <1>4 DEF OtherTypes, vars
<1>. QED BY <1>1, <1>2, <1>3, <1>4, ScriptTypes DEF Next, Boot

\* Type correctness, for any number of masters and either script: above all, no
\* step goes past the end of the script and only names of steps are recorded.
THEOREM TypeCorrect == Spec => []TypeOK
<1>1. Init => OtherTypes
  BY MasterUpgradeAssumption DEF Init, OtherTypes, Release
<1>2. IInv /\ OtherTypes => TypeOK
  BY DEF IInv, Shape, OtherTypes, TypeOK
<1>. QED BY <1>1, <1>2, NextTypes, SpecIInv, PTL DEF Spec

-----------------------------------------------------------------------------
(* The invariant is inductive.                                             *)

\* Initially all nodes serve, nothing is recorded and nothing is upgraded.
LEMMA InitServeInv == Init => ServeInv
<1>. SUFFICES ASSUME Init PROVE ServeInv
  OBVIOUS
<1>. USE MasterUpgradeAssumption, FirstStep DEF Init, Taken
<1>1. AllInOrder /\ EffectsStay
  BY DEF AllInOrder, EffectsStay
<1>2. WipesArePrepared /\ DisksKept /\ ChosenIsNotUpgraded /\ UpgradedNodesServe
  BY DEF WipesArePrepared, DisksKept, ChosenIsNotUpgraded, UpgradedNodesServe
<1>. QED BY <1>1, <1>2 DEF ServeInv

\* What the invariant reads besides the run and the records.
NodesUnchanged ==
    UNCHANGED <<noWipe, liveDir, overlayReset, members, host, release, sat, satBackup>>

\* The run takes or passes over a step; if one of Recorded, it takes it or its
\* record is there.
RunGoesOn ==
    /\ target # None /\ ~done /\ UNCHANGED <<recorded, target, chosen, upgraded>>
    /\ \/ done' = TRUE /\ step' = step
       \/ /\ done' = FALSE /\ step' = step + 1
          /\ Steps[step] \in Recorded => Steps[step] \in recorded[target]

\* A run that goes on keeps the order of the records.
LEMMA OrderIsKept ==
    ASSUME IInv, ServeInv, RunGoesOn
    PROVE  /\ AllInOrder'
           /\ ChosenIsNotUpgraded'
           /\ \A n \in Node : \A s :
                Taken(s, n)' <=> Taken(s, n) \/ (n = target /\ done' /\ Steps[step] = s)
           /\ target \in Node /\ target \notin upgraded /\ step \in 1..Len(Steps)
           /\ \A s : Before(s, step') => Before(s, step) \/ Steps[step] = s
<1>. USE DEF RunGoesOn
<1>1. target \in Node /\ target = chosen /\ step \in 1..Len(Steps)
  BY DEF IInv, Shape
<1>2. \A n \in Node : \A s :
        Taken(s, n)' <=> Taken(s, n) \/ (n = target /\ done' /\ Steps[step] = s)
  BY DEF Taken
<1>3. \A s : Before(s, step') => Before(s, step) \/ Steps[step] = s
  BY <1>1, BeforeNext
<1>4. ChosenIsNotUpgraded' /\ target \notin upgraded
  BY <1>1 DEF ServeInv, ChosenIsNotUpgraded
<1>5. AllInOrder'
  <2>1. \A s \in Recorded : Before(s, step') => s \in recorded[target]
    BY <1>1, BeforeNext DEF ServeInv, AllInOrder
  <2>2. ASSUME NEW s \in Recorded, NEW t \in Recorded, NEW n \in Node, Precedes(s, t), Taken(t, n)'
        PROVE  s \in recorded[n]
    <3>1. CASE Taken(t, n)
      BY <2>2, <3>1 DEF ServeInv, AllInOrder
    <3>2. CASE n = target /\ Steps[step] = t
      BY <1>1, <2>2, <3>2 DEF ServeInv, AllInOrder, Precedes
    <3>. QED BY <1>2, <2>2, <3>1, <3>2
  <2>. QED BY <2>1, <2>2 DEF AllInOrder, Precedes
<1>. QED BY <1>1, <1>2, <1>3, <1>4, <1>5

\* What the order of the scripts says of the records.
LEMMA RecordsImply ==
    ASSUME IInv, ServeInv, NEW n \in Node
    PROVE  /\ Taken("RESTORE_SAT_LOCAL_FILES", n) => "WAIT_FOR_CLOUD_INIT" \in recorded[n]
           /\ Taken("WAIT_FOR_CLOUD_INIT", n) => "POWER_CYCLE_NCN" \in recorded[n]
           /\ Taken("UNSET_rd_live_overlay_reset", n) => "SET_rd_live_dir" \in recorded[n]
<1>1. /\ Precedes("WAIT_FOR_CLOUD_INIT", "RESTORE_SAT_LOCAL_FILES")
      /\ Precedes("POWER_CYCLE_NCN", "WAIT_FOR_CLOUD_INIT")
      /\ Precedes("SET_rd_live_dir", "UNSET_rd_live_overlay_reset")
  BY ScriptOrder DEF Precedes
<1>. QED BY <1>1 DEF ServeInv, AllInOrder, Recorded

\* A step without an effect on what the invariant reads.
LEMMA QuietStep ==
    ASSUME IInv, ServeInv, RunGoesOn, NodesUnchanged,
           Steps[step] \notin Recorded \cup {"metal_no_wipe_1"}
    PROVE  ServeInv'
<1>. USE DEF NodesUnchanged, ServeInv, RunGoesOn
<1>1. \A n \in Node, s \in Recorded : Taken(s, n)' => Taken(s, n)
  BY OrderIsKept
<1>2. EffectsStay'
  BY <1>1 DEF EffectsStay, Recorded
<1>3. WipesArePrepared' /\ UpgradedNodesServe'
  BY DEF WipesArePrepared, UpgradedNodesServe
<1>4. DisksKept'
  BY OrderIsKept DEF DisksKept
<1>. QED BY <1>2, <1>3, <1>4, OrderIsKept

\* A step that takes effect at the node: what changes is of this node only.
LEMMA BackupServes == ASSUME IInv, ServeInv, BackupSat PROVE ServeInv'
<1>. USE DEF BackupSat, ServeInv, bssVars, hostVars
<1>1. /\ RunGoesOn /\ Steps[step] = "BACKUP_SAT_LOCAL_FILES"
      /\ "BACKUP_SAT_LOCAL_FILES" \notin recorded[target]
  BY DEF RunGoesOn, At, is_state_recorded, Performed, Goto, operVars, EveryRun
<1>2. target \in sat
  BY <1>1, OrderIsKept DEF WipesArePrepared
<1>3. EffectsStay'
  BY <1>1, <1>2, OrderIsKept DEF EffectsStay
<1>4. WipesArePrepared' /\ UpgradedNodesServe'
  BY <1>1 DEF WipesArePrepared, UpgradedNodesServe, RunGoesOn
<1>5. DisksKept'
  BY <1>1, OrderIsKept DEF DisksKept, RunGoesOn
<1>. QED BY <1>1, <1>3, <1>4, <1>5, OrderIsKept

\* metal.no-wipe is 0 only before the step that sets it to 1.
LEMMA NoWipeServes ==
    ASSUME IInv, OtherTypes, ServeInv, SetNoWipe("metal_no_wipe_0", 0) \/ SetNoWipe("metal_no_wipe_1", 1)
    PROVE  ServeInv'
<1>1. PICK s \in {"metal_no_wipe_0", "metal_no_wipe_1"}, v \in {0, 1} :
        /\ SetNoWipe(s, v)
        /\ (v = 1) <=> (s = "metal_no_wipe_1")
  OBVIOUS
<1>. USE DEF SetNoWipe, ServeInv, OtherTypes, hostVars
<1>2. RunGoesOn /\ Steps[step] = s
  BY <1>1 DEF RunGoesOn, At, Performed, Goto, operVars, EveryRun, Recorded
<1>3. EffectsStay'
  BY <1>1, <1>2, OrderIsKept DEF EffectsStay
<1>4. WipesArePrepared'
  BY <1>1, <1>2 DEF WipesArePrepared, RunGoesOn
<1>5. UpgradedNodesServe'
  BY <1>1, <1>2, OrderIsKept DEF UpgradedNodesServe, RunGoesOn
<1>6. DisksKept'
  BY <1>1, <1>2, OrderIsKept, ScriptOrder DEF DisksKept, RunGoesOn
<1>. QED BY <1>2, <1>3, <1>4, <1>5, <1>6, OrderIsKept

\* Steps of which the end of the script needs nothing.
LEMMA QuietSteps ==
    ASSUME IInv, ServeInv,
           \/ ForceTimeSync \/ ShutdownServices \/ ReadLastEpoch \/ WaitForNcnBoot \/ PlainStep
           \/ ReconfigureFirstMaster
    PROVE  ServeInv'
<1>. USE DEF NodesUnchanged, RunGoesOn, At, Performed, Goto, EveryRun, Recorded, operVars,
             hostVars, bssVars, scriptVars
<1>0. done \in BOOLEAN
  BY DEF IInv, Shape
<1>1. CASE ForceTimeSync
  BY <1>0, <1>1, QuietStep DEF ForceTimeSync
<1>2. CASE ShutdownServices
  BY <1>2, QuietStep DEF ShutdownServices
<1>3. CASE ReadLastEpoch
  BY <1>0, <1>3, QuietStep DEF ReadLastEpoch
<1>4. CASE WaitForNcnBoot
  BY <1>4, QuietStep DEF WaitForNcnBoot
<1>5. CASE PlainStep
  BY <1>5, QuietStep DEF PlainStep, Effectless
<1>6. CASE ReconfigureFirstMaster
  <2>1. CASE firstMaster # target \/ PromotingMaster \in prepared
    BY <1>0, <1>6, <2>1, QuietStep DEF ReconfigureFirstMaster
  <2>2. CASE firstMaster = target /\ PromotingMaster \notin prepared
    <3>1. UNCHANGED <<recorded, target, step, done, chosen, upgraded>> /\ NodesUnchanged
      BY <1>6, <2>2 DEF ReconfigureFirstMaster
    <3>. QED
      BY <3>1 DEF ServeInv, AllInOrder, EffectsStay, WipesArePrepared, DisksKept,
                  ChosenIsNotUpgraded, UpgradedNodesServe, Taken
  <2>. QED BY <2>1, <2>2
<1>. QED BY <1>1, <1>2, <1>3, <1>4, <1>5, <1>6

\* The release to boot is set, once more in the upgrade, where the overlay is
\* reset with it only the first time.
LEMMA LiveDirServes ==
    ASSUME IInv, OtherTypes, ServeInv, SetLiveDir \/ UpdateKernelParameters PROVE ServeInv'
<1>. USE DEF SetLiveDir, UpdateKernelParameters, ServeInv, OtherTypes, hostVars
<1>1. /\ RunGoesOn /\ Steps[step] \in {"SET_rd_live_dir", "UPDATE_NCN_KERNEL_PARAMETERS"}
      /\ SetLiveDir => "SET_rd_live_dir" \notin recorded[target]
  BY DEF RunGoesOn, At, is_state_recorded, Performed, Goto, operVars, EveryRun, Recorded
<1>2. liveDir'[target] = "new" /\ \A n \in Node : liveDir'[n] \in {liveDir[n], "new"}
  BY <1>1, OrderIsKept
<1>3. SetLiveDir => ~Taken("UNSET_rd_live_overlay_reset", target)
  BY <1>1, OrderIsKept, RecordsImply
<1>4. EffectsStay'
  <2>1. \A n \in Node, s \in Recorded \ {"SET_rd_live_dir"} : Taken(s, n)' => Taken(s, n)
    BY <1>1, OrderIsKept DEF Recorded
  <2>2. \A n \in Node : Taken("SET_rd_live_dir", n)' => liveDir'[n] = "new"
    BY <1>1, <1>2, OrderIsKept DEF EffectsStay
  <2>3. \A n \in Node : Taken("UNSET_rd_live_overlay_reset", n)' => n \notin overlayReset'
    BY <1>1, <1>3, <2>1 DEF EffectsStay, Recorded
  <2>. QED BY <2>1, <2>2, <2>3 DEF EffectsStay, Recorded
<1>5. WipesArePrepared' /\ UpgradedNodesServe'
  BY <1>1, OrderIsKept DEF WipesArePrepared, UpgradedNodesServe, RunGoesOn
<1>6. DisksKept'
  BY <1>1, OrderIsKept DEF DisksKept, RunGoesOn
<1>. QED BY <1>1, <1>4, <1>5, <1>6, OrderIsKept

\* The node leaves the cluster; it can join again only with the new release.
LEMMA DrainServes == ASSUME IInv, ServeInv, drain_node PROVE ServeInv'
<1>. USE DEF drain_node, ServeInv, hostVars, bssVars
<1>1. RunGoesOn /\ Steps[step] = "DRAIN_NODE"
  BY DEF RunGoesOn, At, Performed, Goto, operVars, EveryRun
<1>2. EffectsStay'
  BY <1>1, OrderIsKept DEF EffectsStay
<1>3. WipesArePrepared' /\ UpgradedNodesServe'
  BY <1>1, OrderIsKept DEF WipesArePrepared, UpgradedNodesServe, RunGoesOn
<1>4. DisksKept'
  BY <1>1, OrderIsKept DEF DisksKept, RunGoesOn
<1>. QED BY <1>1, <1>2, <1>3, <1>4, OrderIsKept

\* The node that is reset has a copy of its files and the release to boot.
LEMMA PowerCycleServes == ASSUME IInv, OtherTypes, ServeInv, PowerCycle PROVE ServeInv'
<1>. USE DEF PowerCycle, ServeInv, bssVars
<1>1. /\ RunGoesOn /\ Steps[step] = "POWER_CYCLE_NCN"
      /\ "POWER_CYCLE_NCN" \notin recorded[target]
  BY DEF RunGoesOn, At, is_state_recorded, Performed, Goto, operVars, EveryRun
<1>2. {"BACKUP_SAT_LOCAL_FILES", "SET_rd_live_dir"} \subseteq recorded[target]
  <2>1. step \in 1..Len(Steps) /\ target # None
    BY <1>1, OrderIsKept DEF RunGoesOn
  <2>. QED BY <1>1, <2>1, ScriptOrder DEF AllInOrder, Recorded
<1>3. ~Taken("WAIT_FOR_CLOUD_INIT", target)
  BY <1>1, OrderIsKept, RecordsImply
<1>4. /\ host \in [Node -> {"up", "booting", "installing"}]
      /\ \A n \in Node \ {target} : host'[n] = host[n]
  BY <1>1 DEF IInv, Shape
<1>5. EffectsStay'
  BY <1>1, <1>3, <1>4, OrderIsKept DEF EffectsStay
<1>6. WipesArePrepared'
  BY <1>1, <1>2, <1>4, OrderIsKept DEF WipesArePrepared, RunGoesOn
<1>7. UpgradedNodesServe'
  BY <1>1, <1>4, OrderIsKept DEF UpgradedNodesServe, OtherTypes, RunGoesOn
<1>8. DisksKept'
  BY <1>1, OrderIsKept DEF DisksKept, RunGoesOn
<1>. QED BY <1>1, <1>5, <1>6, <1>7, <1>8, OrderIsKept

\* What a run has waited for.
LEMMA WaitsServe ==
    ASSUME IInv, ServeInv, WaitForCloudInit \/ wait_for_kubernetes PROVE ServeInv'
<1>. USE DEF WaitForCloudInit, wait_for_kubernetes, ServeInv, hostVars, bssVars
<1>1. /\ RunGoesOn /\ Steps[step] \in {"WAIT_FOR_CLOUD_INIT", "WAIT_FOR_K8S"}
      /\ Steps[step] = "WAIT_FOR_CLOUD_INIT" => host[target] = "up"
  BY DEF RunGoesOn, At, Performed, Goto, operVars, EveryRun
<1>2. EffectsStay'
  BY <1>1, OrderIsKept DEF EffectsStay
<1>3. WipesArePrepared' /\ UpgradedNodesServe'
  BY <1>1 DEF WipesArePrepared, UpgradedNodesServe, RunGoesOn
<1>4. DisksKept'
  BY <1>1, OrderIsKept DEF DisksKept, RunGoesOn
<1>. QED BY <1>1, <1>2, <1>3, <1>4, OrderIsKept

\* The overlay is no longer reset, and the disks are kept.
LEMMA UnsetServes == ASSUME IInv, OtherTypes, ServeInv, UnsetOverlayReset PROVE ServeInv'
<1>. USE DEF UnsetOverlayReset, ServeInv, OtherTypes, hostVars
<1>1. RunGoesOn /\ Steps[step] = "UNSET_rd_live_overlay_reset"
  BY DEF RunGoesOn, At, Performed, Goto, operVars, EveryRun
<1>2. EffectsStay'
  BY <1>1, OrderIsKept DEF EffectsStay
<1>3. WipesArePrepared' /\ UpgradedNodesServe'
  BY <1>1, OrderIsKept DEF WipesArePrepared, UpgradedNodesServe, RunGoesOn
<1>4. DisksKept'
  BY <1>1, OrderIsKept DEF DisksKept, RunGoesOn
<1>. QED BY <1>1, <1>2, <1>3, <1>4, OrderIsKept

\* The files are restored from the copy, which is there.
LEMMA RestoreServes == ASSUME IInv, ServeInv, RestoreSat PROVE ServeInv'
<1>. USE DEF RestoreSat, ServeInv, bssVars
<1>1. RunGoesOn /\ Steps[step] = "RESTORE_SAT_LOCAL_FILES"
  BY DEF RunGoesOn, At, Performed, Goto, operVars, EveryRun
<1>2. target \in sat \cup satBackup
  <2>1. "BACKUP_SAT_LOCAL_FILES" \in recorded[target]
    BY <1>1, OrderIsKept, ScriptOrder DEF AllInOrder, Recorded, RunGoesOn
  <2>. QED BY <2>1, <1>1, OrderIsKept DEF EffectsStay, Taken
<1>3. EffectsStay'
  BY <1>1, <1>2, OrderIsKept DEF EffectsStay
<1>4. WipesArePrepared' /\ UpgradedNodesServe'
  BY <1>1 DEF WipesArePrepared, UpgradedNodesServe, RunGoesOn
<1>5. DisksKept'
  BY <1>1, OrderIsKept DEF DisksKept, RunGoesOn
<1>. QED BY <1>1, <1>3, <1>4, <1>5, OrderIsKept

\* A recorded step is skipped.
LEMMA SkipServes == ASSUME IInv, ServeInv, Skip PROVE ServeInv'
<1>. USE DEF Skip, ServeInv, hostVars, bssVars
<1>1. /\ RunGoesOn /\ Steps[step] # "metal_no_wipe_1"
      /\ done' = FALSE
  <2>1. Steps[step] \in StateName
    BY DEF is_state_recorded, IInv, Shape
  <2>2. Steps[step] # "metal_no_wipe_1"
    BY <2>1 DEF StateName, EveryRun
  <2>. QED BY <2>2 DEF RunGoesOn, is_state_recorded, Goto, operVars, IInv, Shape
<1>2. EffectsStay'
  BY <1>1, OrderIsKept DEF EffectsStay, RunGoesOn
<1>3. WipesArePrepared' /\ UpgradedNodesServe'
  BY <1>1 DEF WipesArePrepared, UpgradedNodesServe, RunGoesOn
<1>4. DisksKept'
  BY <1>1, OrderIsKept DEF DisksKept, RunGoesOn
<1>. QED BY <1>1, <1>2, <1>3, <1>4, OrderIsKept

\* A step that took effect is recorded.
LEMMA RecordServes == ASSUME IInv, ServeInv, record_state PROVE ServeInv'
<1>. USE DEF ServeInv
<1>1. /\ step \in 1..Len(Steps) /\ target \in Node /\ Steps[step] \in StateName
      /\ done = TRUE /\ done' = FALSE /\ step' = step + 1 /\ UNCHANGED <<target, chosen, upgraded>>
      /\ target # None /\ NodesUnchanged
      /\ \A n \in Node : recorded'[n] = IF n = target THEN recorded[n] \cup {Steps[step]}
                                                      ELSE recorded[n]
  BY DEF record_state, Goto, operVars, hostVars, bssVars, NodesUnchanged, IInv, Shape
<1>2. \A s : \A n \in Node : Taken(s, n)' <=> Taken(s, n)
  BY <1>1 DEF Taken
<1>3. \A s \in Recorded, n \in Node : s \in recorded[n] => s \in recorded'[n]
  BY <1>1
<1>4. AllInOrder'
  <2>1. \A s \in Recorded : Before(s, step') => s \in recorded'[target]
    BY <1>1, BeforeNext DEF AllInOrder
  <2>2. \A s, t \in Recorded, n \in Node :
          Precedes(s, t) /\ Taken(t, n)' => s \in recorded'[n]
    BY <1>2, <1>3 DEF AllInOrder
  <2>. QED BY <1>1, <2>1, <2>2 DEF AllInOrder, Precedes
<1>5. EffectsStay'
  BY <1>1, <1>2 DEF EffectsStay, NodesUnchanged
<1>6. WipesArePrepared'
  BY <1>1, <1>3 DEF WipesArePrepared, Recorded, NodesUnchanged
<1>7. DisksKept'
  <2>1. Steps[step] # "metal_no_wipe_1"
    BY <1>1 DEF StateName, EveryRun
  <2>. QED BY <1>1, <2>1, BeforeNext DEF DisksKept, NodesUnchanged
<1>8. ChosenIsNotUpgraded' /\ UpgradedNodesServe'
  BY <1>1 DEF ChosenIsNotUpgraded, UpgradedNodesServe, NodesUnchanged
<1>. QED BY <1>4, <1>5, <1>6, <1>7, <1>8

\* At the end of the script all effects are there.
LEMMA EndServes == ASSUME IInv, IInv', ServeInv, move_state_file PROVE ServeInv'
<1>. USE DEF move_state_file, Exit, At, ServeInv, operVars, hostVars, bssVars
<1>1. /\ step \in 1..Len(Steps) /\ target \in Node /\ target = chosen
      /\ \A n \in Node : recorded'[n] = IF n = target THEN {} ELSE recorded[n]
  BY DEF IInv, Shape
<1>2. Recorded \subseteq recorded[target] /\ noWipe[target] = 1
  BY <1>1, ScriptOrder DEF AllInOrder, DisksKept
<1>3. host[target] = "up" /\ target \in members
  BY <1>1, <1>2 DEF IInv, AwaitedIsSo, Taken, Recorded
<1>4. target \in sat /\ release[target] = "new" /\ target \notin overlayReset
  BY <1>1, <1>2, <1>3 DEF EffectsStay, Taken, Recorded
<1>5. \A s : \A n \in Node : Taken(s, n)' => Taken(s, n)
  BY <1>1 DEF Taken
<1>6. AllInOrder' /\ EffectsStay'
  <2>1. \A s : \A n \in Node : Taken(s, n)' => n # target
    BY <1>1 DEF Taken
  <2>. QED BY <1>1, <1>5, <2>1 DEF AllInOrder, EffectsStay, Precedes
<1>7. WipesArePrepared'
  BY <1>1, <1>3, <1>4 DEF WipesArePrepared
<1>8. DisksKept' /\ ChosenIsNotUpgraded'
  BY DEF DisksKept, ChosenIsNotUpgraded
<1>9. UpgradedNodesServe'
  BY <1>2, <1>3, <1>4 DEF UpgradedNodesServe
<1>. QED BY <1>6, <1>7, <1>8, <1>9

\* A run ends before the script does, or starts.
LEMMA RunBoundsServe ==
    ASSUME IInv, ServeInv,
           Interrupt \/ BootTimeout \/ \E n \in Node : Start(n)
    PROVE  ServeInv'
<1>. USE FirstStep DEF ServeInv, NodesUnchanged, hostVars, bssVars, operVars
<1>1. /\ NodesUnchanged /\ UNCHANGED <<recorded, upgraded>>
      /\ step' = 1 /\ done' = FALSE
      /\ chosen' = chosen \/ (chosen' \notin upgraded)
  BY DEF Interrupt, BootTimeout, Start, Exit
<1>2. \A s, n : Taken(s, n)' => Taken(s, n)
  BY <1>1 DEF Taken
<1>3. AllInOrder' /\ EffectsStay' /\ DisksKept'
  BY <1>1, <1>2 DEF AllInOrder, EffectsStay, DisksKept, Precedes
<1>4. WipesArePrepared' /\ ChosenIsNotUpgraded' /\ UpgradedNodesServe'
  BY <1>1 DEF WipesArePrepared, ChosenIsNotUpgraded, UpgradedNodesServe
<1>. QED BY <1>3, <1>4

\* A node boots: a wipe is of a node with a copy of its files, and installs the
\* new release; only nodes with the new release join.
LEMMA BootServes ==
    ASSUME NEW n \in Node, IInv, OtherTypes, ServeInv, Boot(n) \/ DiskBoot(n) PROVE ServeInv'
<1>. USE DEF ServeInv, bssVars, hostVars, scriptVars, operVars
<1>0. /\ UNCHANGED <<recorded, target, step, done, chosen, upgraded, liveDir,
                     overlayReset, noWipe, satBackup>>
      /\ n \in upgraded => host[n] = "up" /\ n \in members
  BY DEF Boot, NetBoot, CloudInit, DiskBoot, Join, UpgradedNodesServe
<1>1. /\ AllInOrder' /\ DisksKept' /\ ChosenIsNotUpgraded'
      /\ \A s, m : Taken(s, m)' <=> Taken(s, m)
  BY <1>0 DEF AllInOrder, DisksKept, ChosenIsNotUpgraded, Taken
<1>2. CASE NetBoot(n)
  <2>. USE <1>2 DEF NetBoot, OtherTypes
  <2>1. /\ {"BACKUP_SAT_LOCAL_FILES", "SET_rd_live_dir"} \subseteq recorded[n]
        /\ ~Taken("WAIT_FOR_CLOUD_INIT", n) /\ n \notin upgraded
    BY <1>0 DEF WipesArePrepared, EffectsStay
  <2>2. ~Taken("RESTORE_SAT_LOCAL_FILES", n) /\ liveDir[n] = "new"
    BY <2>1, RecordsImply DEF EffectsStay, Taken
  <2>3. /\ \A m \in Node \ {n} : host'[m] = host[m] /\ release'[m] = release[m]
                                 /\ (m \in sat' <=> m \in sat)
        /\ release'[n] \in {release[n], "new"} /\ UNCHANGED members
    BY <2>2 DEF IInv, Shape
  <2>4. EffectsStay'
    BY <1>0, <1>1, <2>1, <2>2, <2>3 DEF EffectsStay
  <2>5. WipesArePrepared'
    BY <1>0, <2>1, <2>3 DEF WipesArePrepared
  <2>6. UpgradedNodesServe'
    BY <1>0, <2>1, <2>3 DEF UpgradedNodesServe
  <2>. QED BY <1>1, <2>4, <2>5, <2>6
<1>3. CASE CloudInit(n) \/ DiskBoot(n)
  <2>1. /\ host \in [Node -> {"up", "booting", "installing"}]
        /\ host' = [host EXCEPT ![n] = "up"] /\ UNCHANGED <<members, release, sat>>
    BY <1>3 DEF CloudInit, DiskBoot, IInv, Shape
  <2>2. EffectsStay'
    BY <1>0, <1>1, <2>1 DEF EffectsStay
  <2>3. WipesArePrepared' /\ UpgradedNodesServe'
    BY <1>0, <2>1 DEF WipesArePrepared, UpgradedNodesServe, OtherTypes
  <2>. QED BY <1>1, <2>2, <2>3
<1>4. CASE Join(n)
  <2>1. EffectsStay'
    BY <1>0, <1>1, <1>4 DEF EffectsStay, Join
  <2>2. WipesArePrepared' /\ UpgradedNodesServe'
    BY <1>0, <1>4 DEF WipesArePrepared, UpgradedNodesServe, Join
  <2>. QED BY <1>1, <2>1, <2>2
<1>. QED BY <1>2, <1>3, <1>4 DEF Boot

\* Every step preserves the invariant.
LEMMA NextServeInv == IInv /\ IInv' /\ OtherTypes /\ ServeInv /\ [Next]_vars => ServeInv'
<1>. SUFFICES ASSUME IInv, IInv', OtherTypes, ServeInv, [Next]_vars PROVE ServeInv'
  OBVIOUS
<1>1. CASE Script
  BY <1>1, QuietSteps, BackupServes, NoWipeServes, LiveDirServes, DrainServes,
     PowerCycleServes, WaitsServe, UnsetServes, RestoreServes, SkipServes, RecordServes,
     EndServes, RunBoundsServe DEF Script
<1>2. CASE Interrupt \/ \E n \in Node : Start(n)
  BY <1>2, RunBoundsServe
<1>3. ASSUME NEW n \in Node, Boot(n) \/ DiskBoot(n) PROVE ServeInv'
  BY <1>3, BootServes
<1>4. CASE UNCHANGED vars
  BY <1>4 DEF vars, bssVars, hostVars, scriptVars, operVars, ServeInv, AllInOrder, EffectsStay,
              WipesArePrepared, DisksKept, ChosenIsNotUpgraded, UpgradedNodesServe, Taken
<1>. QED BY <1>1, <1>2, <1>3, <1>4 DEF Next

-----------------------------------------------------------------------------
(* The theorem.                                                            *)

\* A node on which the script ended well, in whatever number of runs, is a running
\* member with the new release and its files, and keeps its disks at the next
\* boot: for any number of masters, both scripts and interruptions anywhere (the
\* records of upgrade-state.sh, the steps of ncn-rebuild-common.sh).
THEOREM UpgradedNodesDoServe == Spec => []UpgradedNodesServe
<1>1. Init => OtherTypes
  BY MasterUpgradeAssumption DEF Init, OtherTypes, Release
<1>2. ServeInv => UpgradedNodesServe
  BY DEF ServeInv
<1>. QED BY <1>1, <1>2, InitServeInv, NextTypes, NextServeInv, SpecIInv, PTL DEF Spec

=============================================================================
