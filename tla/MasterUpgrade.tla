---------------------------- MODULE MasterUpgrade ----------------------------
(***************************************************************************)
(* Upgrading or rebuilding the master NCNs one after the other:            *)
(* upgrade/scripts/upgrade/ncn-upgrade-master-nodes.sh or                  *)
(* rebuild/ncn-rebuild-master-nodes.sh with common/ncn-rebuild-common.sh,  *)
(* ncn-common.sh and upgrade-state.sh.                                     *)
(*                                                                         *)
(* A script is a sequence of steps.  Most have a name that is recorded in  *)
(* the state file of the node once the step is done, and a run skips the   *)
(* steps that earlier runs recorded; some are executed by every run.  A    *)
(* run may end anywhere (error, timeout, lost session): between the effect *)
(* of a step and its record in particular.  The operator then runs the     *)
(* script on that node again, until it ends well.                          *)
(*                                                                         *)
(* Abstractions: the files of SAT stand for all files that are backed up   *)
(* and restored; steps that only check, install or configure something no  *)
(* other step reads are recorded without effect; the clock is a choice.    *)
(***************************************************************************)
EXTENDS Naturals, Sequences, FiniteSets

CONSTANTS
    Masters,        \* the master NCNs, in the order `kubectl get nodes' lists them
    InstalledFirst, \* first-master-hostname after installation
    Variant,        \* "upgrade" or "rebuild": which of the two scripts
    Uninterrupted,  \* steps that a run never ends in without completing them
    MaxBoots        \* bound on the bootscripts a node fetches

Node == {Masters[i] : i \in DOMAIN Masters}
None == "none"
Release == {"installed", "new"}

\* The steps, by the names they are recorded under; those in lower case are
\* executed by every run (what they set is the kernel parameter metal.no-wipe;
\* SET_ and UNSET_ shorten names that hold spaces).  Time is synchronised twice
\* under one name.
Steps ==
    IF Variant = "upgrade"
    THEN <<"BACKUP_SAT_LOCAL_FILES", "RECONFIGURE_FIRST_MASTER", "metal_no_wipe_0",
           "UPDATE_NCN_KERNEL_PARAMETERS", "FORCE_TIME_SYNC", "CSI_VALIDATE_BSS_NTP",
           "DRAIN_NODE", "SET_rd_live_dir", "SHUTDOWN_SERVICES",
           "bootscript_last_epoch", "POWER_CYCLE_NCN", "WAIT_FOR_NCN_BOOT",
           "WAIT_FOR_CLOUD_INIT", "WAIT_FOR_K8S",
           "UNSET_rd_live_overlay_reset", "FORCE_TIME_SYNC",
           "metal_no_wipe_1", "CRAY_INIT", "RESTORE_SAT_LOCAL_FILES",
           "INSTALL_DOCS_NEW_MASTER", "ENSURE_TESTING_RPMS", "RUN_GOSS_TESTS",
           "move_state_file">>
    ELSE <<"ENSURE_CSI_IS_INSTALLED", "BACKUP_SAT_LOCAL_FILES", "RECONFIGURE_FIRST_MASTER",
           "metal_no_wipe_0", "FORCE_TIME_SYNC",
           "DRAIN_NODE", "SET_rd_live_dir", "SHUTDOWN_SERVICES",
           "bootscript_last_epoch", "POWER_CYCLE_NCN", "WAIT_FOR_NCN_BOOT",
           "WAIT_FOR_CLOUD_INIT", "WAIT_FOR_K8S",
           "UNSET_rd_live_overlay_reset", "FORCE_TIME_SYNC",
           "metal_no_wipe_1", "CRAY_INIT", "RESTORE_SAT_LOCAL_FILES",
           "INSTALL_DOCS_NEW_MASTER", "run_goss_tests", "move_state_file">>
Step == {Steps[i] : i \in DOMAIN Steps}
EveryRun == {"metal_no_wipe_0", "bootscript_last_epoch", "metal_no_wipe_1",
             "run_goss_tests", "move_state_file"}
StateName == Step \ EveryRun

\* Recorded without an effect that the model keeps.
Effectless == {"ENSURE_CSI_IS_INSTALLED", "CSI_VALIDATE_BSS_NTP", "CRAY_INIT",
               "INSTALL_DOCS_NEW_MASTER", "ENSURE_TESTING_RPMS", "RUN_GOSS_TESTS"}

ASSUME MasterUpgradeAssumption ==
    /\ Masters \in Seq(STRING) /\ None \notin Node
    /\ \A i, j \in DOMAIN Masters : Masters[i] = Masters[j] => i = j
    /\ InstalledFirst \in Node
    /\ Variant \in {"upgrade", "rebuild"}
    /\ Uninterrupted \subseteq Step
    /\ MaxBoots \in Nat

VARIABLES
    recorded,     \* recorded[n]: contents of the state file of n
    firstMaster,  \* first-master-hostname in BSS
    prepared,     \* nodes with the kubeadm.yaml of an initial master
    noWipe,       \* noWipe[n]: metal.no-wipe of n in BSS
    liveDir,      \* liveDir[n]: release that rd.live.dir of n names
    overlayReset, \* nodes whose rd.live.overlay.reset is set
    epoch,        \* epoch[n]: last_epoch of n's bootscript in BSS
    members,      \* nodes that are members of Kubernetes (and of its etcd)
    host,         \* host[n]: "up", "booting" (reset) or "installing" (net booted)
    bootEntries,  \* nodes that can boot from their disks
    release,      \* release[n]: the release on the disks of n
    sat,          \* nodes that have their SAT files
    satBackup,    \* nodes whose SAT files are in /tmp/sat-backup-<node>
    target,       \* target_ncn of the running script, or None
    step,         \* index in Steps
    done,         \* the effect of this step took place; the record is next
    bootscript_last_epoch, \* as read by this run
    chosen,       \* the node being upgraded, from its first run to its last
    upgraded      \* nodes on which the script ended well

bssVars    == <<firstMaster, noWipe, liveDir, overlayReset, epoch>>
hostVars   == <<prepared, host, bootEntries, release, sat>>
scriptVars == <<target, step, done, bootscript_last_epoch>>
operVars   == <<chosen, upgraded>>
vars == <<recorded, bssVars, members, hostVars, satBackup, scriptVars, operVars>>

TypeOK ==
    /\ recorded \in [Node -> SUBSET StateName]
    /\ firstMaster \in Node /\ prepared \subseteq Node
    /\ noWipe \in [Node -> {0, 1}] /\ liveDir \in [Node -> Release]
    /\ overlayReset \subseteq Node /\ epoch \in [Node -> 0..MaxBoots]
    /\ members \subseteq Node
    /\ host \in [Node -> {"up", "booting", "installing"}]
    /\ bootEntries \subseteq Node /\ release \in [Node -> Release]
    /\ sat \subseteq Node /\ satBackup \subseteq Node
    /\ target \in Node \cup {None} /\ step \in 1..Len(Steps) /\ done \in BOOLEAN
    /\ bootscript_last_epoch \in 0..MaxBoots
    /\ chosen \in Node \cup {None} /\ upgraded \subseteq Node

Init ==
    /\ recorded = [n \in Node |-> {}]
    /\ firstMaster = InstalledFirst /\ prepared = {InstalledFirst}
    /\ noWipe = [n \in Node |-> 1] /\ liveDir = [n \in Node |-> "installed"]
    /\ overlayReset = {} /\ epoch = [n \in Node |-> 0]
    /\ members = Node
    /\ host = [n \in Node |-> "up"] /\ bootEntries = Node
    /\ release = [n \in Node |-> "installed"]
    /\ sat = Node /\ satBackup = {}
    /\ target = None /\ step = 1 /\ done = FALSE /\ bootscript_last_epoch = 0
    /\ chosen = None /\ upgraded = {}

-----------------------------------------------------------------------------
(* Runs of the script.                                                     *)

\* The operator finishes a node before the next one.  The script ends at once
\* while the node does not answer ssh-keyscan.
Start(n) ==
    /\ target = None /\ chosen \in {None, n} /\ n \notin upgraded
    /\ host[n] = "up"
    /\ target' = n /\ chosen' = n /\ step' = 1 /\ done' = FALSE
    /\ UNCHANGED <<recorded, bssVars, members, hostVars, satBackup,
                   bootscript_last_epoch, upgraded>>

Exit == target' = None /\ step' = 1 /\ done' = FALSE /\ bootscript_last_epoch' = 0

\* A step fails, or the run is interrupted in it.
Interrupt ==
    /\ target # None /\ Steps[step] \notin Uninterrupted
    /\ Exit
    /\ UNCHANGED <<recorded, bssVars, members, hostVars, satBackup, operVars>>

is_state_recorded(s) == s \in recorded[target]

\* The run executes step s, which is not recorded.
At(s) ==
    /\ target # None /\ Steps[step] = s /\ ~done
    /\ ~is_state_recorded(s)

Goto(i) == step' = i /\ UNCHANGED <<target, bootscript_last_epoch>>

\* A step took effect: its record comes next, if it has a name.
Performed ==
    /\ IF Steps[step] \in EveryRun THEN done' = FALSE /\ Goto(step + 1)
                                   ELSE done' = TRUE  /\ Goto(step)
    /\ UNCHANGED <<recorded, operVars>>

Skip ==
    /\ target # None /\ ~done
    /\ is_state_recorded(Steps[step])
    /\ Goto(step + 1)
    /\ UNCHANGED <<recorded, bssVars, members, hostVars, satBackup, done, operVars>>

record_state ==
    /\ target # None /\ done
    /\ recorded' = [recorded EXCEPT ![target] = @ \cup {Steps[step]}]
    /\ done' = FALSE /\ Goto(step + 1)
    /\ UNCHANGED <<bssVars, members, hostVars, satBackup, operVars>>

\* The state file is renamed and the script ends well.
move_state_file ==
    /\ At("move_state_file")
    /\ recorded' = [recorded EXCEPT ![target] = {}]
    /\ upgraded' = upgraded \cup {target} /\ chosen' = None
    /\ Exit
    /\ UNCHANGED <<bssVars, members, hostVars, satBackup>>

-----------------------------------------------------------------------------
(* The steps.                                                              *)

\* Copies what there is; nothing is ever removed from the copy.
BackupSat ==
    /\ At("BACKUP_SAT_LOCAL_FILES")
    /\ satBackup' = satBackup \cup (sat \cap {target})
    /\ Performed
    /\ UNCHANGED <<bssVars, members, hostVars>>

\* Mutant: the node itself is not left out.
PromotingMasterAny ==
    LET listed == {i \in DOMAIN Masters : Masters[i] \in members}
    IN  Masters[CHOOSE i \in listed : \A j \in listed : i <= j]

\* The first other master that Kubernetes lists.  (A master without healthy
\* cloud-init data ends the run, by `set -e'.)
PromotingMaster ==
    LET others == {i \in DOMAIN Masters : Masters[i] \in members \ {target}}
    IN  Masters[CHOOSE i \in others : \A j \in others : i <= j]

\* Mutant: the step is recorded before it is done.
ReconfigureFirstMasterRecordsFirst ==
    /\ At("RECONFIGURE_FIRST_MASTER")
    /\ recorded' = [recorded EXCEPT ![target] = @ \cup {"RECONFIGURE_FIRST_MASTER"}]
    /\ Goto(step) /\ done' = TRUE
    /\ UNCHANGED <<prepared, firstMaster, noWipe, liveDir, overlayReset, epoch, operVars,
                   members, host, bootEntries, release, sat, satBackup>>

\* promote-initial-master.sh on another master, then first-master-hostname in
\* BSS.  Only when the target is the first master; otherwise nothing, not even
\* a record.
ReconfigureFirstMaster ==
    /\ At("RECONFIGURE_FIRST_MASTER")
    /\ IF firstMaster # target
       THEN Goto(step + 1) /\ UNCHANGED <<recorded, operVars, done, prepared, firstMaster>>
       ELSE /\ members \ {target} # {}
            /\ IF PromotingMaster \notin prepared
               THEN /\ prepared' = prepared \cup {PromotingMaster}
                    /\ UNCHANGED <<recorded, scriptVars, operVars, firstMaster>>
               ELSE firstMaster' = PromotingMaster /\ Performed /\ UNCHANGED prepared
    /\ UNCHANGED <<noWipe, liveDir, overlayReset, epoch,
                   members, host, bootEntries, release, sat, satBackup>>

\* Mutant: a node is told to keep its disks only where the boot was awaited.
SetNoWipeOnce(s, value) ==
    /\ At(s)
    /\ noWipe' = [noWipe EXCEPT ![target] = IF value = 1 THEN @ ELSE 0]
    /\ Performed
    /\ UNCHANGED <<firstMaster, liveDir, overlayReset, epoch, members, hostVars, satBackup>>

\* csi handoff bss-update-param --set metal.no-wipe=..., tried until it succeeds.
SetNoWipe(s, value) ==
    /\ At(s)
    /\ noWipe' = [noWipe EXCEPT ![target] = value]
    /\ Performed
    /\ UNCHANGED <<firstMaster, liveDir, overlayReset, epoch, members, hostVars, satBackup>>

UpdateKernelParameters ==
    /\ At("UPDATE_NCN_KERNEL_PARAMETERS")
    /\ liveDir' = [liveDir EXCEPT ![target] = "new"]
    /\ Performed
    /\ UNCHANGED <<firstMaster, noWipe, overlayReset, epoch, members, hostVars, satBackup>>

\* Recorded when the clock is in time; otherwise the run goes on without.
ForceTimeSync ==
    /\ At("FORCE_TIME_SYNC")
    /\ \/ Performed
       \/ Goto(step + 1) /\ UNCHANGED <<done, recorded, operVars>>
    /\ UNCHANGED <<bssVars, members, hostVars, satBackup>>

\* Mutant: a delete-ncn that fails does not end the run.
drain_node_unchecked ==
    /\ At("DRAIN_NODE")
    /\ members' \in {members, members \ {target}}
    /\ Performed
    /\ UNCHANGED <<bssVars, hostVars, satBackup>>

\* check_sls_health, then csi removes the node from Kubernetes and from etcd.
drain_node ==
    /\ At("DRAIN_NODE")
    /\ members' = members \ {target}
    /\ Performed
    /\ UNCHANGED <<bssVars, hostVars, satBackup>>

SetLiveDir ==
    /\ At("SET_rd_live_dir")
    /\ liveDir' = [liveDir EXCEPT ![target] = "new"]
    /\ overlayReset' = overlayReset \cup {target}
    /\ Performed
    /\ UNCHANGED <<firstMaster, noWipe, epoch, members, hostVars, satBackup>>

\* standdown.sh removes the bootloader and the boot entries of the disks.
ShutdownServices ==
    /\ At("SHUTDOWN_SERVICES")
    /\ bootEntries' = bootEntries \ {target}
    /\ Performed
    /\ UNCHANGED <<bssVars, members, prepared, host, release, sat, satBackup>>

ReadLastEpoch ==
    /\ At("bootscript_last_epoch")
    /\ bootscript_last_epoch' = epoch[target]
    /\ step' = step + 1
    /\ UNCHANGED <<recorded, bssVars, members, hostVars, satBackup, target, done, operVars>>

\* The node is reset until it no longer answers.
PowerCycle ==
    /\ At("POWER_CYCLE_NCN")
    /\ host[target] = "up"
    /\ host' = [host EXCEPT ![target] = "booting"]
    /\ Performed
    /\ UNCHANGED <<bssVars, members, prepared, bootEntries, release, sat, satBackup>>

WaitForNcnBoot ==
    /\ At("WAIT_FOR_NCN_BOOT")
    /\ epoch[target] # bootscript_last_epoch
    /\ Performed
    /\ UNCHANGED <<bssVars, members, hostVars, satBackup>>

\* The node has not fetched its bootscript for ten minutes, and never will.
BootTimeout ==
    /\ At("WAIT_FOR_NCN_BOOT")
    /\ epoch[target] = bootscript_last_epoch /\ host[target] # "booting"
    /\ Exit
    /\ UNCHANGED <<recorded, bssVars, members, hostVars, satBackup, operVars>>

WaitForCloudInit ==
    /\ At("WAIT_FOR_CLOUD_INIT")
    /\ host[target] = "up"
    /\ Performed
    /\ UNCHANGED <<bssVars, members, hostVars, satBackup>>

\* Mutant: the run does not wait.
wait_for_kubernetes_not ==
    /\ At("WAIT_FOR_K8S")
    /\ Performed
    /\ UNCHANGED <<bssVars, members, hostVars, satBackup>>

wait_for_kubernetes ==
    /\ At("WAIT_FOR_K8S")
    /\ target \in members
    /\ Performed
    /\ UNCHANGED <<bssVars, members, hostVars, satBackup>>

UnsetOverlayReset ==
    /\ At("UNSET_rd_live_overlay_reset")
    /\ noWipe' = [noWipe EXCEPT ![target] = 1]
    /\ overlayReset' = overlayReset \ {target}
    /\ Performed
    /\ UNCHANGED <<firstMaster, liveDir, epoch, members, hostVars, satBackup>>

RestoreSat ==
    /\ At("RESTORE_SAT_LOCAL_FILES")
    /\ sat' = sat \cup (satBackup \cap {target})
    /\ Performed
    /\ UNCHANGED <<bssVars, members, prepared, host, bootEntries, release, satBackup>>

\* Checks and installations: they succeed here, and fail in Interrupt.
PlainStep ==
    /\ \E s \in Effectless \cup {"run_goss_tests"} : At(s)
    /\ Performed
    /\ UNCHANGED <<bssVars, members, hostVars, satBackup>>

Script ==
    \/ Skip \/ record_state \/ move_state_file
    \/ BackupSat \/ ReconfigureFirstMaster
    \/ SetNoWipe("metal_no_wipe_0", 0) \/ SetNoWipe("metal_no_wipe_1", 1)
    \/ UpdateKernelParameters \/ ForceTimeSync \/ drain_node \/ SetLiveDir
    \/ ShutdownServices \/ ReadLastEpoch \/ PowerCycle
    \/ WaitForNcnBoot \/ BootTimeout \/ WaitForCloudInit \/ wait_for_kubernetes
    \/ UnsetOverlayReset \/ RestoreSat \/ PlainStep

-----------------------------------------------------------------------------
(* External: the node boots.                                               *)

\* Without boot entries on its disks the node boots from the network: it fetches
\* its bootscript and, with metal.no-wipe=0, wipes and reinstalls its disks.
NetBoot(n) ==
    /\ host[n] = "booting" /\ epoch[n] < MaxBoots
    /\ epoch' = [epoch EXCEPT ![n] = @ + 1]
    /\ host' = [host EXCEPT ![n] = "installing"]
    /\ IF noWipe[n] = 0
       THEN /\ prepared' = prepared \ {n} /\ sat' = sat \ {n}
            /\ bootEntries' = bootEntries \cup {n}
            /\ release' = [release EXCEPT ![n] = liveDir[n]]
       ELSE UNCHANGED <<prepared, sat, bootEntries, release>>
    /\ UNCHANGED <<recorded, firstMaster, noWipe, liveDir, overlayReset, members,
                   satBackup, scriptVars, operVars>>

DiskBoot(n) ==
    /\ host[n] = "booting" /\ n \in bootEntries
    /\ host' = [host EXCEPT ![n] = "up"]
    /\ UNCHANGED <<recorded, bssVars, members, prepared, bootEntries, release, sat,
                   satBackup, scriptVars, operVars>>

\* cloud-init ends.  A node that is not the first master joins the cluster; the
\* first master would have initialised another.
CloudInit(n) ==
    /\ host[n] = "installing"
    /\ host' = [host EXCEPT ![n] = "up"]
    /\ UNCHANGED <<recorded, bssVars, members, prepared, bootEntries, release, sat,
                   satBackup, scriptVars, operVars>>

Join(n) ==
    /\ host[n] = "up" /\ n \notin members /\ release[n] = "new" /\ n # firstMaster
    /\ epoch[n] > 0 /\ n \in bootEntries
    /\ members' = members \cup {n}
    /\ UNCHANGED <<recorded, bssVars, hostVars, satBackup, scriptVars, operVars>>

Boot(n) == NetBoot(n) \/ CloudInit(n) \/ Join(n)

Next ==
    \/ \E n \in Node : Start(n) \/ Boot(n) \/ DiskBoot(n)
    \/ Script \/ Interrupt

Spec == Init /\ [][Next]_vars

-----------------------------------------------------------------------------
(* Properties.                                                             *)

\* However often its runs were interrupted, a node on which the script ended
\* well is a member again, runs the new release, has its files back, and keeps
\* its disks when it boots next.
UpgradedNodesServe ==
    \A n \in upgraded :
        /\ host[n] = "up" /\ n \in members /\ n \in sat
        /\ release[n] = "new"
        /\ noWipe[n] = 1 /\ n \notin overlayReset

\* The first master in BSS is always a running member that was prepared for it:
\* nodes that boot take their join command from it, and a node that boots while
\* it is the first master initialises a cluster of its own.
FirstMasterReady ==
    /\ firstMaster \in prepared \cap members
    /\ host[firstMaster] = "up"

\* Never more than one master is down or out of the cluster, or etcd loses its
\* quorum.
QuorumKept ==
    Cardinality({n \in Node : host[n] = "up" /\ n \in members}) >= Cardinality(Node) - 1

\* The disks of a node are wiped only while it is not a member.
WipedOnlyWhenDrained ==
    [][\A n \in Node : (NetBoot(n) /\ noWipe[n] = 0) => n \notin members]_vars
=============================================================================
