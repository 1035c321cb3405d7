# Verification of the CSM administration scripts

`docs-csm` is the documentation of Cray System Management together with the programs that its procedures run on the management nodes (NCNs): about 48,000 lines of shell and Python that administer, upgrade and repair a system whose state lives elsewhere, in etcd and Kubernetes, in the boot script service (BSS), the system layout service (SLS), the hardware state manager (HSM), on the disks of nodes, and in files in which a script remembers what it did.

This directory holds TLA+ models of the programs with the most to get wrong, TLC configurations that check them on small instances, and proofs, checked by TLAPS, of what matters most for instances of every size. A check takes `tlc -config X.cfg M`, a proof `tlapm M.tla`.

## 1. What the repository consists of

The programs share one shape. A script is a *sequence of calls to services that share no transaction*. It may stop between any two calls: a call fails, a timeout passes, the session is lost, the node reboots. The operator then runs it again. Correctness is that what is left behind is harmless and that the next run can finish. Most of these scripts have no tests of that at all (`scripts/spec/encryption_spec.sh` tests the functions of `encryption.sh`, with the commands mocked).

| Component (source) | State it keeps or changes | Operations | Interacts with | What is hard | What makes it correct |
|---|---|---|---|---|---|
| **Secret encryption** `scripts/operations/kubernetes/encryption.sh` | API server manifest and kubeadm files of each master, `current.yaml`; annotations `current` and `goal` | `--enable`, `--disable`, `--status`, `--restart` | etcd, API servers, kubelet, the `cray-k8s-encryption` controller | masters are changed one by one while all of them write secrets; reads of etcd go stale; restarts take effect late | an updated master can read every secret; a success leaves one configuration; a roll-out that began can be finished |
| **Adding and removing NCNs** `scripts/operations/node_management/Add_Remove_Replace_NCNs/{add,remove}_management_ncn.py` | SLS hardware and IP reservations, BSS boot parameters and host records, HSM records | `allocate-ips`, `ncn-data`, removal | SLS, BSS, HSM, Kea, discovery | four services, no transaction, a removal that goes on after errors | no IP or NID is given twice; nothing boots with an IP that SLS may hand out again; a reported removal is complete |
| **Master upgrade and rebuild** `upgrade/scripts/upgrade/ncn-upgrade-master-nodes.sh`, `rebuild/ncn-rebuild-master-nodes.sh`, `common/*.sh` | a state file per node; BSS parameters; the node's disks; cluster membership | 20-odd steps, each done once | Kubernetes, etcd, BSS, the node that is wiped | a run may end between an effect and its record; steps without a record are repeated | quorum is kept; the first master serves; an upgraded node is complete; no member is wiped |
| **NID defragmentation** `scripts/operations/node_management/defragment_nids.py` | NIDs in HSM and SLS, records of nodes in HSM | one run: plan, delete, PUT, PATCH | HSM, SLS | failed or interrupted half-way, then run with other nodes | the block is contiguous, in both services; no duplicates; nodes not included are untouched |
| **SLS upgrade to CSM 1.2, CHN** `upgrade/scripts/sls/sls_updater_csm_1.2.py`, `csm_1_2_upgrade/sls_updates.py`, `sls_utils/*`; `operations/network/customer_accessible_networks/can_to_chn/scripts` | a file with a dump of SLS; networks, subnets, reservations; boot parameters in BSS | 15 functions that take networks to networks; load the file into SLS; add computes, remove the CAN | SLS, BSS, the operator who chooses which file to load | the size of a subnet is guessed (supernet hack); the script runs on its own output; lists are changed while they are iterated | no address twice; preserved addresses stay; a rerun changes nothing; users always have a network |
| **UAN addresses, cabinets** `scripts/operations/node_management/allocate_uan_ip.py`, `scripts/operations/system_layout_service/add_liquid_cooled_cabinet.py` | reservations in CAN and CHN; cabinets, nodes and subnets in a dump of SLS | allocate, deallocate; add a cabinet | SLS, HSM, DHCP | two networks are written one by one; a DHCP range shrinks under its leases | an address in every network or in none; nobody else's; subnets, VLANs and NIDs apart |
| **Export and import of CFS, BOS, IMS** `scripts/operations/configuration` | records of those services, artifacts in S3, the files of an export | export, check, clear, plan, write | CFS, BOS, IMS, S3, users and their sessions | plans are made from copies read before; a clear precedes the writes; requests are repeated | nothing is lost that was not exported; success means that all is there; references stay valid |
| **Clients** `scripts/operations/configuration/python_lib/{api_requests,common}.py`, `ims_import_export/s3_helper.py` | queues shared by threads | requests with retries; parallel transfers | all services, S3 | a request was carried out although it failed; threads and the caller end in any order | all results or an error, once |
| **In-place Kubernetes upgrade** `upgrade/scripts/k8s/upgrade_k8s*.sh` | versions of kubeadm, control plane and kubelet per node; cordons; `.done` files | three versions, over masters, then workers | Kubernetes, zypper | reruns decide by the version of a binary, not of what runs | no minor version is skipped; no node stays cordoned |
| **Worker and storage rebuild driver** `upgrade/scripts/upgrade/ncn-upgrade-worker-storage-nodes.sh`, Argo workflows | the workflow it polls | create, retry, delete, poll | NLS/Argo | retries race with the server | success means that the nodes named were rebuilt; the poll ends |
| **Prerequisites, CSM upgrade** `upgrade/scripts/upgrade/{prerequisites,csm-upgrade}.sh` | the state file, `prereqs.done`, `/root/.ssh/config` | some 40 recorded steps | everything | killed half-way, run again | each step is executed to its end |
| **Others** (VCS, Ceph upgrade, restarts, firmware, HSM clean-up, checks, installation helpers, IUF stages) | | | | mostly one call each, or loops around one program | |

The last four rows are not modelled (section 10 says why).

`PROJECT.json` lists all of these with their files, and under `hazards` the places in the code where they can go wrong in ways that a test would hardly reach.

How components interact: the master scripts and the Kubernetes upgrade regenerate the API server manifest from the kubeadm files that `encryption.sh` edits (hence `kubeadmcfg` in `DoneNodesConsistent`); the NCN scripts write the BSS parameters from which the master scripts' nodes boot; the upgrade to CSM 1.2 writes the networks that the move to the CHN, and then the UAN addresses, start from (`MCSlsChanges` runs them on one SLS); CFS, BOS and IMS are restored by separate programs over one library.

## 2. Modules

| Module | Models | Proofs | Runs |
|---|---|---|---|
| `Encryption` | `encryption.sh` on every master, with the kubelet, API servers, controller and operator | `EncryptionProofs` | `encryption_campaign`, `encryption_progress`, `encryption_key_dropped` |
| `ManageNcn` | the three NCN commands over SLS, BSS and HSM, with discovery and Kea | `ManageNcnProofs` | `ncn`, `ncn_duplicate_ip` |
| `MasterUpgrade` | both master scripts with the operator and the nodes that boot | `MasterUpgradeProofs` | `master_procedures`, `master_rerun` |
| `DefragmentNids` | `defragment_nids.py` over HSM and SLS | `SlsChangesProofs` | `sls_changes`, `nids_removals` |
| `Ipam` | `sls_utils`: blocks, subnets, free addresses (no state) | `SlsChangesProofs` | through the next three |
| `SlsUpgrade` | the upgrade of SLS to CSM 1.2, on `Ipam` | `SlsChangesProofs` | `sls_changes`, `sls_other_network` |
| `CanToChn`, `UanIps` | the move of the users to the CHN, on `SlsUpgrade`; UAN addresses, on `CanToChn` | `SlsChangesProofs` | `sls_changes` |
| `Cabinets` | `add_liquid_cooled_cabinet.py`, on `Ipam` | `SlsChangesProofs` | `sls_changes` |
| `MCSlsChanges` | composition of the scripts that change SLS; their inductive invariants in `SlsChangesInvariants` | `SlsChangesProofs` | `sls_changes` |
| `ApiRequests` | how a request with retries may end (no state) | | through the imports |
| `CfsImport`, `BosImport`, `ImsImport` | the imports, with failing requests and users | `CfsImportProofs`, `BosImportProofs`, `ImsImportProofs` | `config_restore`, `ims_clearing` |
| `ImsExport` | the export of IMS with its artifacts and its disk | `ConfigRestoreProofs` | `config_restore` |
| `S3Transfer` | abstract: what a parallel transfer promises | | as `PoolDelivers` |
| `S3TransferPool` | the threads of `s3_helper.py` | `ConfigRestoreProofs` | `config_restore` |
| `MCConfigRestore` | composition of exports, imports and the pool | `ConfigRestoreProofs` | `config_restore`, `ims_clearing` |

`MCMasterUpgrade` gives the constants of `MasterUpgrade` the values of a rebuild and, in an instance, of an upgrade (section 5); the other `MC*` modules only give constants their values. Definitions have the names of the functions and variables of the code where there is one; `PROJECT.json` maps each to its lines. A definition whose comment begins with "Mutant" is a plausible bug in the definition after it; each checked property is known to fail when its mutant takes the definition's place.

In the two compositions one program runs at a time, as the procedures require, and a variable (`changed`, `restored`) says which. Their properties are conjunctions of those of the modules (`NoAddressTwice`, `ImportsAreComplete`, ...), so that one statement says the same of every program that could break it.

## 3. Encryption

**State and actions.** A cipher is a key or `identity`; a configuration is the cipher that encrypts and the ciphers that decrypt. `etcd` says what each secret is stored with. Per master there are the manifest, the kubeadm files, the configuration that the API server has `running`, whether it is `up`, and `currentYaml`. The script on a master is a process with its own copy of what it has read: `Start` (arguments, `current` annotation), `ListKeys`, `ReadKey` one secret at a time, `Decide` (`usergoalvalid`), `WriteManifest`, `WriteKubeadm`, `WaitBefore`, `DeletePod`, `WaitAfter` (with the `pgrep` for the new file), `Link`. `Abort` ends it between any two of them. Several masters may be at it at the same time.

`subset`, `complement`, `difference`, `isEmpty` and `usergoalvalid` are what the shell functions compute, not what they are named for: `subset lhs rhs` succeeds if `lhs \ rhs` is *not* empty, and the list from the scan always comes with an empty line.

External, modelled from how the script uses them: `KubeletStart` and `ApiDown`, clients that put and delete secrets, the controller that rewrites all secrets when every `current.yaml` agrees, and the operator. In `Spec` the operator follows `operations/kubernetes/encryption/README.md`: the same command on every master, and no other command before `--status` reports the goal. In `FreeSpec` anything is run anywhere.

**Runs.**

- `encryption_campaign`: two masters, two keys, two campaigns, two secrets of which one comes and goes until the last campaign (`OneSecretLast`; 1,331,144 states), so that a second campaign starts from what the first one left (rotation, disabling), with aborts, outages and writes anywhere. `UpdatedNodesReadEverything`: a master where the command succeeded decrypts every secret, also those that masters not yet updated go on writing. `CurrentIsInEtcd`: once the controller reports a rewrite as complete, no other cipher is left.
- `encryption_progress`: failing `etcdctl` calls, and a key of a wrong length beside one good key, under fairness. `DoneNodesConsistent`: the manifest, kubeadm's files, the process and `current.yaml` agree wherever the script succeeded. `CampaignSettles`: a campaign that changed one master ends with every master updated and every secret rewritten. One good key is enough for a node to be refused what another was granted; 143,124 states. There is one secret, which is not deleted: a scan ends when a secret of its list is gone (`dne`), so secrets that are deleted during *every* scan would keep a node from ever being updated, and nothing in the code prevents that.
- `encryption_key_dropped` (violated, a finding): `usergoalvalid` accepts a request that drops a cipher its own scan has found. One master and three secrets are needed, since etcd must hold three ciphers.

**Fairness** (`FairSpec`): a script takes its next step, the operator runs it again where it did not succeed, kubelet and controller work. This is what a sequential program, a procedure ("repeat on each master") and two control loops do. `Quiet` adds, as an assumption of the property, that outages, interruptions and superfluous runs stop.

**Proved** (`EncryptionProofs`, for all sets of nodes, keys and secrets): `TypeCorrect`, `DoneNodesAreConsistent`, and, if the reads of etcd do not fail, `UpdatedNodesRead`. `UpdatedNodesReadEverything` is not inductive: it says nothing of masters that are not done. `IInv` adds that each master is on the old or the new configuration (`NodesBetweenConfigs`), that etcd holds ciphers of those two, and only the old one before the first master is touched (`EtcdBetweenConfigs`), and what a running script has seen and written (`ScriptsFollowCampaign`). The decisive step is `Decide`: `DecideKeepsBase` shows, from `UsergoalvalidMeaning`, that for what a scan can have found *during a documented campaign* the accidents of `usergoalvalid` are harmless: a request that is accepted includes the cipher of the old configuration. Without that assumption on the operator it is false, which `encryption_key_dropped` shows. `EtcdFaults = FALSE` is needed there: an `etcdctl` that fails reads as `identity` (`sutkeyencryption` has the exit status of the end of a pipeline), and then a scan misses a key. `DoneNodesAreConsistent` holds whatever etcd answers; its invariant `CInv` is about the order in which a script writes (`ScriptsInOrder`).

Its second part proves `CurrentIsWhatEtcdHolds` (also for `EtcdFaults = FALSE`): once the controller reports a rewrite as complete, no secret is under another cipher, *and none comes back*. It needs `KInv` beside `IInv`: links and the controller's goal are only those of the campaign (`LinksFollowCampaign`), the goal is the new cipher only when every master has linked it (`GoalFollowsLinks`), and then whatever has been rewritten stays rewritten (`RewrittenStays`), since every API server that could write the old cipher has been replaced.

## 4. ManageNcn

**State and actions.** SLS: the node at each xname, its NID, the BMC's connector, and the IP reservations of NMN and HMN. BSS: the host records of the Global parameters, and the boot parameters of each xname. HSM: Ethernet interfaces with or without a component, NIDs, BMC components, Redfish endpoints. The running script is `pc`, its arguments and its *copies* (`nets`, `global`, `ncn_ips`, `bmc_ip`, `nid`): networks are PUT whole from a copy read at the start.

`AllocateIps`, `NcnData` and `RemoveNcn` are the reads and the planning; then there is one action for each write, in the order of the code. In an addition a request that fails ends the script, in a removal it is passed over ("http" in `Faults`). IPs are chosen as `find_next_available_ip` does (one above the highest, two for a virtual IP of fabric managers), with the checks of the static range; `validate_hsm_inventory` deletes stale interfaces on its way. The `KeyError` for an NCN that is neither a first one nor a fabric manager is there too (`RaisesKeyError`). Kea's leases and discovery are external. The operator runs one script at a time and does not give `ncn-data` an xname whose BMC IP was allocated for another NCN (`NotPromised`), as in the procedures.

**Runs.** Two installed masters (one is the first master); names and slots for one or two more. The constant `Sites` is a set of sites, and `site` the one where the scripts run: what can be full there, what may fail, how many commands are run.

- `ncn` (497,504 states), with two sites. `Roomy`: five commands, interruptions anywhere, all requests succeed; the HMN is small enough to become full. `Tight`: four commands, requests of removals fail, leases appear, the static ranges are full and the NMN may use dynamic addresses; four allow add, remove half-way, add something else, touch the first again. `HostRecordsAreReserved` and `BootsWithReservedIps`: BSS never holds an IP that is not reserved for that host, which depends on the order of writes (SLS before BSS when adding, BSS before SLS when removing). `ReportedMeansRemoved`: when the removal prints success, no service knows the NCN. `ReservationsUnique`, `NidsUnique`, and `FixedIpsKept`: `ncn-[mws]00[1-3]` keep their IPs, also when they are removed and added at another slot.
- `ncn_duplicate_ip` (violated, a finding): the comparison that should detect an IP in two host records compares a string with an object and never finds one.

**Proved** (`ManageNcnProofs`, for any hostnames, slots, addresses, sizes of subnets and number of commands, with interruptions anywhere): `TypeCorrect`, `ReservationsAreUnique`, `NidsAreUnique` and `FirstNcnsKeepTheirIps`, also when requests of removals fail; `HostRecordsStayReserved`, `BootsStayReserved` and `RemovalsAreComplete` where they do not (`Fails`, a part of the properties themselves); and `HostRecordIpsStayUnique`, that no IP is in two host records: `ncn_duplicate_ip` violates it with a request that fails, without one it holds although the comparison in the code never finds anything.

The invariant `IInv` has these parts, none of which can be left out:

- `SlotsFollowScript`, `CopiesAreCurrent`: a network is PUT whole, so a reservation is lost unless the script's copy is what SLS holds but for what the script itself has added or dropped. This is where "one script at a time" is used.
- `IpsDistinct`: in each network, no IP is reserved twice, and none that the script has planned is reserved for another name. `find_next_available_ip` counts upwards from the highest IP, so its result is new without a search; the check of the static range, and the broadcast address above everything, keep it a usable one.
- `NidsUnique`, `NidIsNew`: a NID that is allocated stays unused until SLS holds it.
- `FixedInv`: the first nine NCNs have the IPs of the installation wherever they appear: in SLS, in the host records, in the boot parameters and in the plan. A removal drops a reservation before the host record of the next network; an addition finds it again.
- `ServicesAgree`, if no request fails: what BSS says is a reservation of SLS *or* of the run's plan, and then not of anybody else (`PlanKeepsRecords`, `PlanIsNew`). `Written` says which of the plan's writes are behind the script, `RemovedSoFar` which services a removal has cleaned; both are functions of the place of the script (`pc`), so a changed order of writes is no longer provable. `SlotsOwnIps` is there for BMCs: the IP of a BMC belongs to a slot and moves to the hostname with the next addition, which is the one way in which an IP changes its owner without being free in between.

The proofs need three things of the constants that the model had not said before, and that the installation guarantees: addresses of installed NCNs and the virtual IPs are below the broadcast address of their subnet, there is a largest subnet, and there are finitely many slots. They are now `ManageNcnAssumption` and `LastIpAssumption`.

**Limits.** For TLC, four commands are enough for every conflict of two NCNs through one leftover; longer histories differ in the leftovers they add up. NMN and HMN are the networks with everything that is special (BMC IPs, virtual IPs); the others behave like a part of them. Left out: `/etc/hosts` and DNS, `ipmitool`, `ncn_status.py`.

## 5. MasterUpgrade

**State and actions.** `Steps` is the sequence of one of the two scripts (`Variant`) by the names under which `record_state` records them; those in lower case are executed by every run. A run is at `step`; `done` says that the effect took place and the record comes next, so that `Interrupt` may separate the two. `Skip` passes over what the state file has. The external part is the node: reset, it boots from disk if it still has boot entries, else from the network, where it takes `metal.no-wipe` from BSS and is reinstalled or not; then it runs cloud-init and joins.

**Runs**, all with three masters, `ncn-m002` first:

- `master_procedures` (82,576 states): one of two procedures, by the variable `procedure` of `MCMasterUpgrade`. A *rebuild*: runs end anywhere, a node boots up to twice. An *upgrade* (the instance `U`): runs end anywhere but between a reset and the boot that follows. `UpgradedNodesServe` (member, new release, files restored, disks kept at the next boot), `FirstMasterReady` and `QuorumKept` for both; `UpgradeWipesDrained`, and `UpgradeCompletes` under fairness, for the upgrade: whatever was interrupted, running the script again completes the node.
- `master_rerun` (violated, a finding): the interruptions of the rebuild; a rerun resets and wipes a node that has rejoined, as `DRAIN_NODE` is recorded (`WipedOnlyWhenDrained`). The restriction of the upgrade in `master_procedures` is exactly this window. The window also breaks completion: a rerun reads `bootscript_last_epoch` again, after the boot it is to wait for, and waits for another.

`MaxBoots` bounds the boots of a node: 1 is what an upgrade takes, and 2 allows the repetition. **Fairness** (in the upgrade): the script's next step, the operator starting it again, and the boot of a node; the disk boot needs none, since no run may rely on it. The scripts differ in few steps, so each is run with the questions that its differences do not touch; the theorems are for both.

**Proved** (`MasterUpgradeProofs`, any number of masters, both scripts, interruptions anywhere, any `MaxBoots`): `FirstMasterIsReady` and `QuorumIsKept`. The invariant `IInv` is the conjunction of the shape of the state, `FirstMasterReady`, "all masters but the chosen one serve", "the chosen one is not the first master once its `RECONFIGURE_FIRST_MASTER` is behind the run", "records come in the order of the steps", and "what the run has waited for is so". `QuorumKept` by itself is not inductive: that the next node is not begun early rests on the record of `WAIT_FOR_K8S` being written after the wait, in every run. The proof treats the step list by a few lemmas (`StepOrder`, `NamedStep`, `BeforeNext`), so that most steps are one case.

Its second part adds `UpgradedNodesDoServe` and `TypeCorrect`. The invariant `ServeInv` has five parts: the records of a node come in the order of the steps (`AllInOrder`); what a recorded step did lasts until the node is wiped, and a wipe comes before the steps that it would undo (`EffectsStay`); a node is reset with `metal.no-wipe=0` only where files were saved first (`WipesArePrepared`); once `metal.no-wipe` is 1 again it remains so for a node that is done (`DisksKept`); and a node that is being worked on is not among the upgraded (`ChosenIsNotUpgraded`). The hazard is in the second: `metal.no-wipe=0` is set by every run, so a rerun of a node that needs no wipe arms one; the proof shows that a run which *ends well* has always disarmed it.

## 6. DefragmentNids

**State and actions.** NID, endpoint, model and Ethernet records of each node in HSM, NID in SLS, and the slots whose Redfish endpoints are disabled. `Start` is the plan of `main()`: the allowed nodes, those that remain after the inventory of each slot (`nodeList`: of different models in a slot that of `b0n0`, else `b1n0`, counts), the check of the block, the lists of deletions. Then come the calls, one action each and in their order; a deletion that fails is a warning, a write that fails ends the run. A later run may name other nodes or another start.

**Runs.** Three nodes, two of them in one slot; three NIDs, so that every block collides with something; the initial numbering is arbitrary in HSM and SLS independently (the script exists because they diverge).

- `sls_changes` (with `changed = "NIDs"`): two runs with interruptions and failing writes. `Defragmented` (contiguous and ordered in both services after a run that ends well, whatever the run before left), `HsmNidsUnique` at every moment, `OthersKeepTheirNids` although the inventory is read per slot.
- `nids_removals` (violated, a finding): components are deleted that are not of another model than their slot, and SLS entries of nodes that HSM has.

Deletions that fail are not among the faults of the first run: then `HsmNidsUnique` is false (the component keeps a NID that is PATCHed to another), which the script reports as a warning and promises nothing about. NIDs of SLS may also be duplicate, for the entries of the leftovers are kept (section 10).

**Proved** (`SlsChangesProofs`, any nodes, slots, inventories, NIDs and number of runs): `TypeCorrect`, `RunsDefragment` and `OthersAreKept` with all faults, failing deletions included; `NidsStayUnique` if deletions do not fail. Two invariants are needed. `IInv` says that what the plan checked still holds when the calls are made (`PlanHolds`: the block is in range, and no node that was not included has a NID of it, since a run changes NIDs of included nodes only), and which entries have been written (`Written`). `UInv` adds to `HsmNidsUnique` that leftovers have lost their NIDs before the writing begins (`LeftoversRemoved`), which rests on the component being the first record that is deleted; this is the step that fails with a deletion. The arithmetic is in `NewNIDs` and `NewNIDsFillTheBlock`: counting the earlier nodes of a finite, strictly ordered set is a bijection onto the block.

## 7. Changes of SLS

**State and actions.** `Ipam` has the classes of `sls_utils` as functions: blocks are aligned ranges of addresses, a subnet a record of block, gateway, DHCP range and reservations; dicts and lists are sequences, since addresses are handed out in their order. `is_supernet_hacked` guesses the block that a subnet really has, as the code does, and `free_ipv4_subnets` cuts those guesses out of the network.

- `SlsUpgrade`: one action per function that `main()` of `sls_updater_csm_1.2.py` calls, and one per subnet that `clone_subnet_and_pivot` gives addresses to. An exception or an exit ends the run with the file as it was. A further run starts from the file that the one before wrote, with any command line of `UpgradeOptions`: each run has its own (`LoadSls`), and `slsCommands` remembers them in their order for the properties, which have to tell what the first run was asked for from what the last one was.
- `CanToChn`: the dump, `sls_can_to_chn.py`, `add_computes_to_chn.py`, `sls_del_can.py` (on whichever file the operator loads, also the wrong one), `bss_remove_can.py`.
- `UanIps`: allocation and deallocation with the HSM check and one PUT per network; runs fail or are interrupted anywhere and are repeated; aliases move; DHCP gives out addresses at any moment, also while a run is between its look at HSM and its PUT (`InterfaceSeen`). The comparison of addresses at `allocate_uan_ip.py:195` is between objects of two libraries and is modelled as what it is, never true.
- `Cabinets`: one action, for the script is one program over one file.

**Runs.** `sls_changes` (418,041 states, with section 6): dumps with CANs of two sizes, 4 to 6 devices with a hole among their addresses, with and without UAIs; all user networks, overrides, preserved addresses and edge switches, a network that is too small, VLANs that clash; two runs of the upgrade, the second with any of the command lines; three UAN runs; two cabinets. `NoAddressTwice`: no reservation, gateway, MetalLB pool or DHCP range shares an address, in the networks of CSM 1.2, in the CHN, for a UAN or a cabinet. `PreservedIpsKept` (of the first run, kept by reruns whatever they are asked for), `RerunIsSafe` (a rerun with the command line of the first run writes the same file; with another it leaves the switches, the CMN, BICAN and a CAN that it keeps as they are; switches are renamed once), `UsersHaveANetwork` (BICAN routes to a network that SLS has at every moment), `FreeBlocksPartition` (blocks in use and free blocks are a partition of the network, after every step of a clone), `VlansApart`, `UanInAllNetworks`, `ChnMoveIsExact`.

`sls_other_network` (violated, a finding): the script removes "unused" user networks (`OnlyUnusedRemoved`). Which one is unused is decided by the `--bican-user-network-name` of this run, while a BICAN that is already there keeps its route: after a run for the CAN and a rerun for the CHN the CAN is gone and BICAN routes to it. `UsersHaveANetwork` therefore leaves out the files of which some run took the user network of the first one for unused (`RouteRemoved`), and only those: other reruns, with other VLANs, blocks, preserved subnets or with the unused network retained, are in it.

**What the properties exclude, as the code promises nothing there:** with `--preserve-existing-subnet-for-cmn ncns` and a `bootstrap_dhcp` that has the prefix of its network, the other subnets are laid out around a block smaller than the addresses kept in it (`Sound`); where a run warns that it has no new DHCP range (`slsStale`), the old one stays; a UAN after its DHCP range is used up; an interface that gets the address of a UAN after the run had looked for it in HSM and before the PUT (`uanLate`: a check-then-use race, which the code has and nothing in it closes); a CHN whose lower half is full; a cabinet subnet smaller than a /22, whose rest is given away; two adjacent entries in `bss_remove_can.py`; the network of the users after a rerun for another one (`RouteRemoved`, the finding above). Each exclusion is a condition written in the property, so it says where the guarantee ends.

**Proved** (`SlsChangesProofs`, for the composition, any dumps, sequences of command lines, edge switches, cabinets and number of runs):

- `UsersAlwaysHaveANetwork`. `UsersHaveANetwork` speaks of the file and of SLS; what keeps it true is the order of the functions of `main()` and of the scripts of the move. `UpgradeRoutes` says which networks a run has when it is before each of its functions (`NetsReady`), and that the file that is written, and a rerun starts from, has those that BICAN may route to (`FileReady`). Both speak of all command lines so far: BICAN routes to what the *first* one asked for, and that network is there unless one of them made it unused. `MoveRoutes` says it of SLS and of every file that the operator of the move may load, so that the order of loading does not matter. `UanRoutes` says that a UAN run PUTs only networks that its copy has, so it takes none away from SLS.
- `FreeBlocksAlwaysPartition`. Its invariant `UpgradeInBlocks` says that the subnets of the CAN and HMN, and the ones that a clone has made so far, are aligned blocks. The size of a subnet may be a guess; `is_supernet_hacked` is shown to guess aligned blocks. `FreeBlocksPartitionNetwork` then goes through the subnets one by one: a cut-out takes a block that is free, out of one that contains it, and `ExcludePartitions` says that `address_exclude` leaves the rest; a block that is not in a free one raises an exception, so overlapping subnets cannot spoil it.
- `VlansStayApart`. A run copies the subnets of the CAN to the CMN and the CHN, takes some from the HMN, and then gives the CAN a new VLAN, in place. `UpgradeOnVlans` says, before each function of `main()`, which VLAN each of these networks is on (`RunOnVlans`: the CAN changes over when its own cloning starts, or has done so in an earlier run, with the VLAN that the *first* run was given), the same of the file, from which a rerun starts, and of the subnets that a clone has made so far (`CloneOnVlans`); and that every network that is there has a `bootstrap_dhcp`, for a subnet of the HMN gets the VLAN of the first subnet of the CAN, and a network without subnets has none. The checks of `LoadSls` (`InputError`) are what keeps the two VLANs apart. `Kin` names the functions that leave all of this alone.
- `PreservedIpsStay`. Asked to keep them, the CMN has the addresses of the old CAN although in between they are copied to a dict, renamed word by word, put into a network that is not yet there, stripped of switches and of `kubeapi-vip`, written, and read again by a rerun. `UpgradeKeeps` says where they are: in the CAN until there is a CMN (`NetsKeep`), in what the clone has made or else still in its list of things to do (`CloneKeeps`), and then in the CMN. A reservation is followed by its name, its address and the keys it may have in a dict (`Carries`): that of the CAN until it is written, its new name from then on, for `Without` goes by keys and `Keyed` by names. The lemmas say that renaming words keeps names apart (`InCmnDistinct`, the reason for the assumption that no name of the dump speaks of the CMN: two reservations would become one), that a dict made of a list has each of its names (`KeyedEntries`), and that every function of `main()` other than the cloning leaves the reservations of all subnets but `network_hardware` as they are, apart from `kubeapi-vip` (`Keeps`).
- `UansGetAllNetworks`. A run decides from what it read which networks to write, writes them one by one, and may be repeated by a run with the other command, or after the aliases moved. `UanServed` says that while it is under way every network that SLS has is as the command wants it or still on the run's list (`Underway`), so that none is left out when the list is empty. *One* address rests on the shape of the lists: what a run writes has one subnet with the key or the name `bootstrap_dhcp`, and its reservations are a dict with the aliases as keys (`Tidy`, kept by `LoadTidy`, `RoomTidy` and `WithNodeTidy`). What the upgrade and the move to the CHN leave is not in that shape, for a name may be listed twice there; but it has no reservation of a UAN (`Fresh`), and reading it makes it so. `Formed` carries this through SLS and the files of the move (`ChnStepFormed`), which the composition never enters again once a UAN was served (`uanRuns`).
- `CabinetsStayApart`. `CabinetsInv` adds to `CabinetSubnetsApart` and `CabinetsApart` that subnets are aligned blocks, lists are lists and nodes are finitely many, so that the script's comparison of a candidate block with the subnets it knows (`Covered`) decides whether they overlap at all.

All of these loop over lists. The provers have neither induction over a predicate nor anything about folds; `Induction` is therefore stated for a *set* of numbers, from the well-foundedness of the naturals (`LeastNatural`), and gives `FoldExists` and `FoldValues`: a fold has values, one per element of the list, each made from the one before. To use them, the model writes list comprehensions as one fold (`Those`).

The assumptions: a dump of CSM 1.0 has an HSN but neither CMN, CHN nor BICAN; its CAN, HMN and HSN have subnets with names, VLANs and reservations, those of the CAN and HMN in aligned blocks, those of the CAN on one VLAN, as the code takes for granted when it gives a subnet of the HMN the VLAN of the first one; in the CAN the names of subnets, and of the reservations of a subnet, are distinct, as its dicts take for granted, and none has the word `cmn`; no reservation of the CAN, HMN or HSN is that of a UAN, which get theirs later (`NoUans`, `SlsInputsAssumption`); and so have the options, whose arguments are `IPv4Network`s (`UpgradeOptionsAssumption`); bases of CHN blocks are numbers (`ChnBlocksAssumption`), the reservations of computes in the HSN have a name and an address (`HsnReservationsAssumption`), the xname of a UAN is not empty, as an absent comment is read (`UanNodeAssumption`); a dump for the cabinets has at most two networks of at least a /22, with their subnets apart (`CabinetFilesAssumption`); arguments of a cabinet have their types (`CabinetCommandsAssumption`). TLC evaluates them for the dumps of `sls_changes`.

**Bounds and composition.** The CHN is enabled only after upgrades whose runs have one command line, without further options (`EnablesChn`), and when the dump of SLS has a CAN, which `sls_can_to_chn.py` makes the CHN from, and UANs are served from two of the states on the way (`ServesUans`): the scripts read only what those states differ in. The properties of `SlsUpgrade` are not evaluated again once the move to the CHN has begun, for it does not write what they speak of. An SLS with a handful of addresses per subnet is enough for every boundary of the arithmetic (full, one free, hole, other half), which depends on block sizes only.

## 8. Export and import

**State and actions.** Each import has what the service holds, the files, the copies that a run reads (`cfsLocal`, `bosRun.current`, `imsRun.current`), the export that it takes before it changes anything (`cfsSnap`, `bosSnap`, `imsBackup`), and the run: where it is, its options and its plan. There is one action for each table read and each request sent. A request ends in one of three ways (`ApiRequests`): done; done but the script ends with an exception; not done. The endings are computed from the six attempts of `api_requests.py`: a DELETE that was carried out and answered with 5xx meets 404 in the next attempt, a PUT does not. Users change records, delete configurations (CFS refuses to delete one that a component uses, as it refuses the script's) and start sessions between any two actions; what they changed since a copy was read is remembered (`cfsTouched`, `cfsLate`, ...), only so that the properties can except it.

- `CfsImport`: configurations, components in chunks, options by the versions of the API, sources by the version of CFS; the component with an empty id; layers that CFS exports with branch and commit and refuses in that form.
- `BosImport`: templates of tenants, options, sessions that are listed, deleted and listed again.
- `ImsImport`: the four types of import; the server keeps its state in memory and writes files that the script replaces behind its back, then restarts it; jobs; artifacts in S3.
- `ImsExport`: links of four services, names of files, manifests, the estimate of space, downloads, and the archive that is made beside the files.
- `S3TransferPool`: the worker threads, their three queues and the caller that joins them. It implements `S3Transfer` (three actions: something is transferred, all is returned, an exception is raised) with `stored` as `moved` and `poolOutcome` as `outcome`.

**Runs.** `config_restore` (1,002,687 states): two runs of each import with one change by a user; exports that hold less than the system, a file that contradicts itself, an export without artifacts, one with a missing file; three transfers, two threads, one retry. Two runs are what it takes for one to start from what the other left; one user at one moment is what each plan can be stale against. `ImportsAreComplete`, `NothingUnexportedIsLost`, `ExistingStays`, `ImportedDesiredExists` (at any moment, no component wants a configuration that the import assigned to it and that does not exist, unless a user changed or deleted that configuration after the run had read CFS: the script reads CFS once, plans with what it read and assigns it without another look, and without the exception TLC finds the deletion between the two), `FailsForAReason`, `ClearedBosIsTheImport`, `ActiveSessionsSurvive`, `ArtifactsStay` (what was imported has its artifact, and is not among the deleted records as well, unless an `add` brought it back while it was there: see section 10), `ExportIsWhole`, `PoolEnds`, `PoolDelivers` (the pool implements `S3Transfer`, and each of its steps uses up a request, a retry or a phase of a thread). `ims_clearing` (violated, a finding): an export made without artifacts is refused only after IMS has been cleared.

**Proved**, for any contents of services and files, any number of runs and of changes by users, with requests that fail or not:

- *CFS* (`CfsImportProofs`): `AssignedConfigsExist`, `NothingIsRefused`, `CfsTypeCorrect`. `ImportedDesiredExists` needs that what the run's copy knows still exists or was changed by a user (`KnownExist`), that a planned component has a configuration that is there in that sense or planned (`PlanIsSound`), and that components come last (`AskedLast`). A second invariant gives `RemovedWasExported`, `ExistingDoesStay` and `ImportsAreWhole`: the run's copy and the export before it hold what CFS holds but for what users changed since (`CopyHolds`), and what the import lacks is in the plan until it is sent (`PlanIsComplete`).
- *BOS* (`BosImportProofs`): `ActiveSessionsDoSurvive` (`ActiveIsNew`: after the check only sessions that users started are active), `ClearedIsTheImport` and `NothingIsMissing` (what is left of BOS while it is emptied is on the list of deletions, and what is missing afterwards on the list of creations), `BosTypeCorrect`; and `BosRemovedWasExported`, `BosExistingDoesStay`, from `PlanIsExported` (what is on the list of deletions is in the export, or is a user's) and `PlanIsNew` (what is on the list of creations was not there, or is a user's).
- *IMS* (`ImsImportProofs`): `ImsImportsAreComplete`, `ArtifactsDoStay`, `DeletedWasBackedUp`, `OthersDoStay`, `ImsTypeCorrect`. The run reads IMS three times, and writes files from its last copy while the server keeps its own. The invariant says what each copy is good for: it is current but for later changes by users (`ReadIsCurrent`); what is to be deleted is still found, or a user's (`DeletionsAreFound`); after the deletions the rest is gone (`RestIsGone`); the backup has what was there (`BackedUp`); the artifacts of the records that are about to be written are in S3 (`ArtifactsFollow`); and the files on disk, which the server reads at its restart, are the plan (`FilesAreWritten`).
- *The pool* (`ConfigRestoreProofs`, any requests, threads and retries): `PoolDoesDeliver` from `PoolImplementsTransfer` and `TransfersEnd`, `FailsForErrors`, `PoolTypeCorrect`. The invariant says that results were transferred, every request is in a queue or in the hands of a thread (`Accounted`), threads return without an error only when no work is left, and the caller goes on only when all threads ended; then `Return` of `S3Transfer` is enabled exactly when the caller counts as many results as requests. `TransfersEnd` needs no fairness: `StepsLeft` bounds the steps that a thread may still take, no step raises it for any thread, and each step but the caller's return lowers it for one (`StepUsesUp`).
- *The export of IMS* (`ConfigRestoreProofs`, any links, manifests, sizes and free space). `ExportsCanBeImported`: an export that says it succeeded has the file of every artifact that its import will want, where it looks for it. The names of files are chosen by what is on disk at the time (`generate_artifact_local_path`), so the proof is about two rounds of downloads: in the first all files are manifests, in the second none, and a name that the first round took is extended by the key (`PathsAreApart`). Its hypothesis `NamesApart` says that two artifacts *of one round* do not have one name; see section 10. `SpaceIsEnough`: after the space was verified no step fills the file system, and the total that was estimated is never exceeded, if nobody changes S3 meanwhile (`edited`); its invariant `HasRoom` says how much room each phase leaves for the next ones, and uses that an image is downloaded once (`ImagesOnce`), so that what is on disk is what was listed. The archive is the delicate part: each file is there twice until it is deleted, which is why the estimate adds the *largest* file (`InArchive`). Sums of sizes are treated as cardinalities of sets of bytes (`BytesAreCounted`), so that they need no induction.
- *The composition* (`ConfigRestoreProofs`): `AllImportsAreComplete`, `NothingIsLost`, `WhatExistsStays`, `ExportsAreWhole`, `AllTypesCorrect` state the properties of `config_restore` for the composition. One program runs, the state of the others stays at rest, and there each property holds trivially (`CfsAlone`, `BosAlone`, `ImsAlone`, `ExportAlone`).

The proof of `SpaceIsEnough` found an omission in the model: where S3 changes twice, a manifest may be replaced by a smaller one between its download and the estimate, and then the files on disk are more than was listed. `edited` now counts this as a change (`Outgrown`); the bound of one change in the run had hidden it.

## 9. What is proved, what is checked, what is neither

| Property | Theorem | Assumption beyond the `ASSUME`s of the module |
|---|---|---|
| `UpdatedNodesReadEverything` | `UpdatedNodesRead` | `EtcdFaults = FALSE`, documented campaign (`Spec`) |
| `CurrentIsInEtcd` | `CurrentIsWhatEtcdHolds` | the same |
| `DoneNodesConsistent` | `DoneNodesAreConsistent` | documented campaign |
| `FirstMasterReady`, `QuorumKept` | `FirstMasterIsReady`, `QuorumIsKept` | |
| `UpgradedNodesServe` | `UpgradedNodesDoServe` | |
| `Defragmented`, `OthersKeepTheirNids` | `RunsDefragment`, `OthersAreKept` | |
| `HsmNidsUnique` | `NidsStayUnique` | `"delete" \notin Faults` |
| `ImportedDesiredExists`, `FailsForAReason` | `AssignedConfigsExist`, `NothingIsRefused` | |
| `ActiveSessionsSurvive`, `ClearedBosIsTheImport` | `ActiveSessionsDoSurvive`, `ClearedIsTheImport` | |
| `ImportsAreComplete`, `NothingUnexportedIsLost`, `ExistingStays` | `AllImportsAreComplete`, `NothingIsLost`, `WhatExistsStays` | |
| `ArtifactsStay` | `ArtifactsDoStay` | |
| `ExportIsWhole` | `ExportsAreWhole` | `NamesApart` |
| `ReservationsUnique`, `NidsUnique`, `FixedIpsKept` | `ReservationsAreUnique`, `NidsAreUnique`, `FirstNcnsKeepTheirIps` | |
| `HostRecordsAreReserved`, `BootsWithReservedIps`, `ReportedMeansRemoved` | `HostRecordsStayReserved`, `BootsStayReserved`, `RemovalsAreComplete` | |
| `HostRecordIpsUnique` (violated with failing requests) | `HostRecordIpsStayUnique` | `~Fails` |
| `PoolDelivers`, a part of `PoolEnds` | `PoolDoesDeliver`, `FailsForErrors` | |
| `UsersHaveANetwork`, `FreeBlocksPartition` | `UsersAlwaysHaveANetwork`, `FreeBlocksAlwaysPartition` | |
| `VlansApart` | `VlansStayApart` | |
| `PreservedIpsKept` | `PreservedIpsStay` | |
| `UanInAllNetworks` | `UansGetAllNetworks` | |
| the cabinets' part of `NoAddressTwice` | `CabinetsStayApart` | |

The `ASSUME`s give the constants their sorts, say that names are distinct and bounds are numbers; TLC evaluates them in the runs. Those of the SLS modules also say what a dump is like (section 7). Type correctness is proved for every module of the table except `SlsUpgrade`, `CanToChn`, `UanIps` and `Cabinets`.

Only checked by TLC: of the SLS modules, `NoAddressTwice` for customer networks and UANs, `RerunIsSafe`, `ChnMoveIsExact` and `ChangesTypeOK`. The first depends on which address a search in a list returns and on the arithmetic of the blocks around it, the next two compare whole files, which needs an induction for each function that makes a list. Liveness (`CampaignSettles`, `UpgradeCompletes`) and enabledness (`PoolGoesOn`) are beyond the provers. No recursive operator is used in a module with theorems.

Runs whose property is violated are findings, listed in `PROJECT.json` with the line of the repository that says otherwise.

## 10. Not modelled

Whole components, with the reason (more in `PROJECT.json`):

- **In-place Kubernetes upgrade.** Whether a rerun repeats a step depends on the version of a *binary*. Interrupted between the installation of kubeadm and `kubeadm upgrade apply` (`upgrade_k8s.sh:188`), the rerun passes over the apply; between the installation of the kubelet and `kubectl uncordon` (`:254`) it leaves the node cordoned; and the verification (`:300`) compares the version of kubeadm only. This is where a next module would be worth most; what it needs is a model of kubeadm and of drains, of which this repository has the command lines.
- **Worker and storage rebuild driver, Argo and IUF workflows.** The order of steps and their retries are decided by a server and an engine of other repositories.
- **Prerequisites and CSM upgrade.** The mechanism (record a step when done, skip it in a rerun) is that of `MasterUpgrade`; the effects are those of the programs called.
- **VCS export and import** (`pg_dump`, `psql`, `tar`), **Ceph**, **restarts**, **firmware**, **HSM clean-up**: single calls, or polls of another program.
- **`ncn_add_pre-req.py`, `ncn_status.py`, `add_cdu_switch.py`, `update_ncn_etc_hosts.py`, installation helpers, tests**: they read, ask an administrator, or append a line.

Behaviour of modelled components that no property covers:

- `encryption.sh:412`: an `etcdctl` call of the scan that fails is read as `identity`. It is in the model (`EtcdFaults`), and with it `UpdatedNodesReadEverything` is false; nothing in the repository promises otherwise.
- `add_management_ncn.py:1821`: `ncn-data` interrupted after its first write can be neither rerun nor undone by the scripts. `:1126`: a network is PUT whole from a copy, so two scripts at a time lose a reservation; the model runs one, as the procedure says.
- `ims_import.py:61-73`: an `add` import of a record that is among the deleted ones leaves it there and creates it as a live one: IMS then has it in both tables. The comment of `add_ims_data` (`:64-65`) says "We do this by removing all overlapping entries from the exported data, and then just calling update_ims_data", and `update_ims_data` calls `delete_deleted_resources`, which is there "to prevent them from existing in both the regular resource list and deleted resource list, after the import" (`:296-297`); but `add_ims_data` calls `do_import` directly (`:73`). `ArtifactsStay` and `ArtifactsDoStay` except these records by name (`imsRun.type = "add"` and deleted when the run read IMS) and nothing else; without the exception TLC reaches the state in the run `config_restore`.
- `s3_data.py:290`: the name of a file is the key of its artifact with `/` replaced and other characters dropped, and another is taken only if a file of that name exists *before* the downloads of a round begin. Two artifacts of one round whose keys differ in such characters only would share a file; `NamesApart` excludes it in the theorem, the constants of `config_restore` in the run, and nothing in the code does.
- `ncn-rebuild-common.sh:452`: the time is synchronised twice under one record. `ncn-rebuild-master-nodes.sh:180`: the installation of the documentation is recorded before it is done. A failed goss test exits a subshell of a pipe only; `wait_for_kubernetes` waits for ever.
- `defragment_nids.py:568`: the SLS entry of a leftover outside the block stays, with its NID; SLS may hold duplicates, which the script does not look for. Records of a removed node that a run did not get to delete stay in HSM.

Left out everywhere: text, logging, dry runs, IPv6, aliases and comments, file formats.
