----------------------------- MODULE Encryption -----------------------------
(***************************************************************************)
(* Encryption at rest of Kubernetes secrets, as driven by                  *)
(* scripts/operations/kubernetes/encryption.sh.                            *)
(*                                                                         *)
(* The script is run by an operator on each control plane node.  It reads  *)
(* the `current' annotation, scans etcd for the ciphers in use, decides    *)
(* whether the requested ciphers are acceptable (usergoalvalid), rewrites  *)
(* the kube-apiserver manifest, restarts the API server and, when the new  *)
(* process is seen with the new file, links current.yaml to it.            *)
(*                                                                         *)
(* External to the repository: the kubelet, the API server's reads and     *)
(* writes of secrets and the cray-k8s-encryption controller, which         *)
(* rewrites all secrets once the current.yaml of every node agrees.        *)
(*                                                                         *)
(* Abstractions: a cipher (provider plus key) is a member of Key or        *)
(* "identity"; an encryption configuration is the provider that encrypts   *)
(* (the first one) and the set of providers that can decrypt.              *)
(***************************************************************************)
EXTENDS Integers

CONSTANTS
    Node,           \* control plane nodes
    Key,            \* ciphers an operator may name
    ValidKey,       \* those whose key data is 16, 24 or 32 bytes long
    Secret,         \* names of Kubernetes secrets
    Annotated,      \* the secret kube-system/cray-k8s-encryption
    EtcdFaults,     \* may etcdctl calls of the scan fail?
    MaxRequests     \* bound on the campaigns and --restart commands issued

Identity == "identity"
Blank    == ""          \* what an empty annotation or an empty line reads as
Rewrite  == "rewrite"
Absent   == "absent"    \* a secret that does not exist

ASSUME ConstantsAssumption ==
    /\ Node # {} /\ ValidKey \subseteq Key
    /\ Annotated \in Secret
    /\ Key \cap {Identity, Blank, Rewrite, Absent} = {}
    /\ EtcdFaults \in BOOLEAN
    /\ MaxRequests \in Nat

Cipher == Key \cup {Identity}
Config == [write : Cipher, read : SUBSET Cipher]

\* The configuration of an NCN image: default.yaml.
Default == [write |-> Identity, read |-> {Identity}]

\* What the command line can ask for: --enable puts the ciphers before
\* identity and needs one; --disable puts identity first.
EnableRequest  == {r \in Config : r.write \in Key /\ {r.write, Identity} \subseteq r.read}
DisableRequest == {r \in Config : r.write = Identity /\ Identity \in r.read}
Request == EnableRequest \cup DisableRequest

VARIABLES
    etcd,        \* etcd[s]: cipher that s is stored with, or Absent
    manifest,    \* manifest[n]: configuration named by kube-apiserver.yaml
    kubeadmcfg,  \* kubeadmcfg[n]: configuration named by kubeadm.cfg / kubeadm.yaml
    running,     \* running[n]: configuration loaded by the API server of n
    up,          \* up[n]: the API server pod of n is ready
    currentYaml, \* currentYaml[n]: target of the current.yaml link of n
    current,     \* annotation `current' of the cray-k8s-encryption secret
    goal,        \* annotation `goal'
    rewriting,   \* secrets the controller still has to rewrite
    active,      \* is the controller rewriting secrets?
    pc,          \* pc[n]: where the script on n is
    req,         \* req[n]: its arguments
    curr,        \* curr[n]: the `current' annotation it read
    todo,        \* todo[n]: secrets listed and not yet read by its scan
    seen,        \* seen[n]: ciphers its scan has found
    base,        \* configuration of the nodes before the campaign
    campaign,    \* request that the operator is rolling out
    applied,     \* nodes whose manifest was changed for this campaign
    done,        \* nodes on which the script succeeded for this campaign
    requests     \* requests issued so far

nodeVars   == <<manifest, kubeadmcfg, running, up, currentYaml>>
ctrlVars   == <<current, goal, rewriting, active>>
scriptVars == <<pc, req, curr, todo, seen>>
operVars   == <<base, campaign, applied, done, requests>>
vars == <<etcd, nodeVars, ctrlVars, scriptVars, operVars>>

Present == {s \in Secret : etcd[s] # Absent}
EtcdCiphers == {etcd[s] : s \in Present}
Idle == \A n \in Node : pc[n] = "idle"

TypeOK ==
    /\ etcd \in [Secret -> Cipher \cup {Absent}]
    /\ manifest \in [Node -> Config]
    /\ kubeadmcfg \in [Node -> Config]
    /\ running \in [Node -> Config]
    /\ up \in [Node -> BOOLEAN]
    /\ currentYaml \in [Node -> Config]
    /\ current \in Cipher \cup {Rewrite}
    /\ goal \in Cipher
    /\ rewriting \subseteq Secret
    /\ active \in BOOLEAN
    /\ pc \in [Node -> {"idle", "list", "scan", "write", "kubeadm",
                        "wait", "delete", "ready", "link"}]
    /\ req \in [Node -> Config]
    /\ curr \in [Node -> Cipher \cup {Rewrite, Blank}]
    /\ todo \in [Node -> SUBSET Secret]
    /\ seen \in [Node -> SUBSET Cipher]
    /\ base \in Config
    /\ campaign \in Config
    /\ applied \subseteq Node
    /\ done \subseteq Node
    /\ requests \in 0..MaxRequests

Init ==
    /\ etcd \in [Secret -> {Identity, Absent}] /\ etcd[Annotated] = Identity
    /\ manifest = [n \in Node |-> Default]
    /\ kubeadmcfg = manifest
    /\ running = manifest
    /\ up = [n \in Node |-> TRUE]
    /\ currentYaml = manifest
    /\ current = Identity
    /\ goal = Identity
    /\ rewriting = {}
    /\ active = FALSE
    /\ pc = [n \in Node |-> "idle"]
    /\ req = manifest
    /\ curr = [n \in Node |-> Blank]
    /\ todo = [n \in Node |-> {}]
    /\ seen = [n \in Node |-> {}]
    /\ base = Default
    /\ campaign = Default
    /\ applied = Node
    /\ done = Node
    /\ requests = 0

-----------------------------------------------------------------------------
(* The decision: usergoalvalid and the set operations it is built from.    *)

\* subset(): `comm -23 lhs rhs | grep -q "^"' succeeds when a line is printed.
subset(lhs, rhs) == lhs \ rhs # {}
complement(lhs, rhs) == lhs \ rhs
difference(lhs, rhs) == (lhs \ rhs) \cup (rhs \ lhs)

\* The string $(...) is "" when at most an empty line was printed.
isEmpty(S) == S \subseteq {Blank}

\* Mutants of usergoalvalid: the conflict test is lost; only what is known to be
\* rewritten may be found in etcd.
usergoalvalidNoConflict(lhs, rhs, cur) ==
    subset(rhs, lhs) \/ (subset({cur}, rhs) /\ subset(lhs, rhs)) \/ isEmpty(lhs \ rhs)
usergoalvalidRewrittenOnly(lhs, rhs, cur) ==
    isEmpty(lhs \ rhs) /\ isEmpty(lhs \ {Identity})

usergoalvalid(lhs, rhs, cur) ==
    LET diff == difference(lhs, rhs)
        comp == complement(lhs, rhs)
        nok  == ~isEmpty(diff) /\ ~isEmpty(comp) /\ diff # comp
        both == lhs \cup rhs
        ok   == \/ lhs = rhs
                \/ subset(rhs, lhs)
                \/ subset({cur}, rhs) /\ subset(lhs, rhs)
                \/ subset({cur}, lhs) /\ subset(rhs, lhs)
                \/ /\ isEmpty(diff) \/ isEmpty(comp)
                   /\ both \cup lhs = both \cup rhs
    IN  ok /\ ~nok

\* validateinput(): every key named has a valid length.
validateinput(r) == r.read \ {Identity} \subseteq ValidKey

\* "encrypted" straight to "not encrypted" is refused on its own.
disablesTooEarly(r, cur) == r = Default /\ cur # Identity

-----------------------------------------------------------------------------
(* The script on node n.                                                   *)

\* A step that goes on, and the end of the process with its local variables.
Goto(n, label) ==
    /\ pc' = [pc EXCEPT ![n] = label]
    /\ UNCHANGED <<req, curr, todo, seen>>

Exit(n) ==
    /\ pc'   = [pc EXCEPT ![n] = "idle"]
    /\ req'  = [req EXCEPT ![n] = Default]
    /\ curr' = [curr EXCEPT ![n] = Blank]
    /\ todo' = [todo EXCEPT ![n] = {}]
    /\ seen' = [seen EXCEPT ![n] = {}]

\* main() up to the scan.  A failing kubectl leaves curr empty: stripetcdprefix
\* is what sets the return code.  A refused request ends the script here, which
\* changes nothing.
Start(n, r) ==
    /\ pc[n] = "idle"
    /\ validateinput(r)
    /\ \E cur \in {current, Blank} :
        /\ ~disablesTooEarly(r, cur)
        /\ curr' = [curr EXCEPT ![n] = cur]
    /\ req' = [req EXCEPT ![n] = r]
    /\ pc'  = [pc EXCEPT ![n] = "list"]
    /\ UNCHANGED <<etcd, nodeVars, ctrlVars, todo, seen>>

\* sutallkeys: a failed listing is an empty one.
ListKeys(n) ==
    /\ pc[n] = "list"
    /\ pc' = [pc EXCEPT ![n] = "scan"]
    /\ \/ todo' = [todo EXCEPT ![n] = Present]
       \/ EtcdFaults /\ UNCHANGED todo
    /\ UNCHANGED <<etcd, nodeVars, ctrlVars, req, curr, seen, operVars>>

\* sutkeyencryption on one secret.  The return code is that of the last command
\* of the pipeline, so an etcdctl error is text without `k8s:enc': identity.
ReadKey(n, s) ==
    /\ pc[n] = "scan"
    /\ s \in todo[n]
    /\ todo' = [todo EXCEPT ![n] = @ \ {s}]
    /\ \/ /\ etcd[s] # Absent
          /\ seen' = [seen EXCEPT ![n] = @ \cup {etcd[s]}]
       \/ /\ EtcdFaults
          /\ seen' = [seen EXCEPT ![n] = @ \cup {Identity}]
    /\ UNCHANGED <<etcd, nodeVars, ctrlVars, pc, req, curr, operVars>>

\* A secret deleted since the listing is `dne', which ends the script (set -e).
ReadMissingKey(n, s) ==
    /\ pc[n] = "scan"
    /\ s \in todo[n]
    /\ etcd[s] = Absent
    /\ Exit(n)
    /\ UNCHANGED <<etcd, nodeVars, ctrlVars, operVars>>

\* The scan is over: the found ciphers come with an empty line (the trailing
\* space of the list).
Decide(n) ==
    /\ pc[n] = "scan"
    /\ todo[n] = {}
    /\ IF usergoalvalid(seen[n] \cup {Blank}, req[n].read, curr[n])
       THEN Goto(n, "write") ELSE Exit(n)
    /\ UNCHANGED <<etcd, nodeVars, ctrlVars, operVars>>

\* writeconfig / updatek8sconfig, first sed: the manifest names the new file.
\* What was read from etcd and Kubernetes is not used again.
WriteManifest(n) ==
    /\ pc[n] = "write"
    /\ manifest' = [manifest EXCEPT ![n] = req[n]]
    /\ applied' = applied \cup {n}
    /\ pc'   = [pc EXCEPT ![n] = "kubeadm"]
    /\ curr' = [curr EXCEPT ![n] = Blank]
    /\ seen' = [seen EXCEPT ![n] = {}]
    /\ UNCHANGED <<etcd, kubeadmcfg, running, up, currentYaml, ctrlVars,
                   req, todo, base, campaign, done, requests>>

\* Mutant: kubeadm's files are forgotten.
WriteKubeadmNot(n) ==
    /\ pc[n] = "kubeadm"
    /\ Goto(n, "wait")
    /\ UNCHANGED <<etcd, nodeVars, ctrlVars, operVars>>

\* ... then kubeadm.cfg and kubeadm.yaml.
WriteKubeadm(n) ==
    /\ pc[n] = "kubeadm"
    /\ kubeadmcfg' = [kubeadmcfg EXCEPT ![n] = req[n]]
    /\ Goto(n, "wait")
    /\ UNCHANGED <<etcd, manifest, running, up, currentYaml, ctrlVars, operVars>>

\* restartk8s: wait for the local pod to be ready before touching it.
WaitBefore(n) ==
    /\ pc[n] = "wait"
    /\ up[n]
    /\ Goto(n, "delete")
    /\ UNCHANGED <<etcd, nodeVars, ctrlVars, operVars>>

\* kubectl delete pod: the kubelet restarts the API server, or only the mirror
\* pod is replaced.
DeletePod(n) ==
    /\ pc[n] = "delete"
    /\ up' \in {up, [up EXCEPT ![n] = FALSE]}
    /\ Goto(n, "ready")
    /\ UNCHANGED <<etcd, manifest, kubeadmcfg, running, currentYaml, ctrlVars, operVars>>

\* Mutant: the arguments of the process are not looked at.
WaitAfterNoPgrep(n) ==
    /\ pc[n] = "ready"
    /\ up[n]
    /\ Goto(n, "link")
    /\ UNCHANGED <<etcd, nodeVars, ctrlVars, operVars>>

\* Ready again, and pgrep finds the process with the file in its arguments.
WaitAfter(n) ==
    /\ pc[n] = "ready"
    /\ up[n]
    /\ IF running[n] = req[n] THEN Goto(n, "link") ELSE Exit(n)
    /\ UNCHANGED <<etcd, nodeVars, ctrlVars, operVars>>

\* ln -sf: current.yaml points at the new configuration; the script succeeds.
Link(n) ==
    /\ pc[n] = "link"
    /\ currentYaml' = [currentYaml EXCEPT ![n] = req[n]]
    /\ done' = IF req[n] = campaign THEN done \cup {n} ELSE done
    /\ Exit(n)
    /\ UNCHANGED <<etcd, manifest, kubeadmcfg, running, up, ctrlVars,
                   base, campaign, applied, requests>>

\* A kubectl wait or delete times out, a command fails, or the operator
\* interrupts the script: nothing is undone.
Abort(n) ==
    /\ pc[n] # "idle"
    /\ Exit(n)
    /\ UNCHANGED <<etcd, nodeVars, ctrlVars, operVars>>

Script(n) ==
    \/ ListKeys(n) \/ Decide(n)
    \/ \E s \in Secret : ReadKey(n, s) \/ ReadMissingKey(n, s)
    \/ WriteManifest(n) \/ WriteKubeadm(n) \/ WaitBefore(n) \/ DeletePod(n)
    \/ WaitAfter(n) \/ Link(n)

-----------------------------------------------------------------------------
(* External: kubelet, API server and controller.                           *)

\* The kubelet (re)starts the static pod from the manifest: after a crash, a
\* deletion, a reboot, or because the manifest changed.  An API server given a
\* key of a wrong length does not start.
KubeletStart(n) ==
    /\ ~up[n] \/ running[n] # manifest[n]
    /\ validateinput(manifest[n])
    /\ running' = [running EXCEPT ![n] = manifest[n]]
    /\ up' = [up EXCEPT ![n] = TRUE]
    /\ UNCHANGED <<etcd, manifest, kubeadmcfg, currentYaml, ctrlVars,
                   scriptVars, operVars>>

\* The API server of n stops.
ApiDown(n) ==
    /\ up[n]
    /\ up' = [up EXCEPT ![n] = FALSE]
    /\ UNCHANGED <<etcd, manifest, kubeadmcfg, running, currentYaml, ctrlVars,
                   scriptVars, operVars>>

\* A client creates, updates or deletes a secret through the API server of n.
\* The secret that carries the controller's annotations is always there.
PutSecret(n, s) ==
    /\ up[n]
    /\ etcd' = [etcd EXCEPT ![s] = running[n].write]
    /\ UNCHANGED <<nodeVars, ctrlVars, scriptVars, operVars>>

DeleteSecret(n, s) ==
    /\ up[n]
    /\ etcd[s] # Absent /\ s # Annotated
    /\ etcd' = [etcd EXCEPT ![s] = Absent]
    /\ UNCHANGED <<nodeVars, ctrlVars, scriptVars, operVars>>

\* Every node's current.yaml is the same: its first cipher becomes the goal and
\* the secrets are to be rewritten unless they are known to be.
Agree(c) == \A n \in Node : currentYaml[n] = c

ControllerStart(c) ==
    /\ ~active
    /\ Agree(c)
    /\ goal # c.write \/ current # c.write
    /\ goal' = c.write
    /\ active' = TRUE
    /\ rewriting' = Present
    /\ UNCHANGED <<etcd, nodeVars, current, scriptVars, operVars>>

\* Read a secret and write it back through the API server of n.
RewriteSecret(n, s) ==
    /\ active
    /\ s \in rewriting
    /\ up[n]
    /\ etcd[s] \in running[n].read \cup {Absent}
    /\ rewriting' = rewriting \ {s}
    /\ etcd' = IF etcd[s] = Absent THEN etcd
               ELSE [etcd EXCEPT ![s] = running[n].write]
    /\ UNCHANGED <<nodeVars, current, goal, active, scriptVars, operVars>>

ControllerFinish ==
    /\ active
    /\ rewriting = {}
    /\ current' = goal
    /\ active' = FALSE
    /\ UNCHANGED <<etcd, nodeVars, goal, rewriting, scriptVars, operVars>>

Controller ==
    \/ \E n \in Node : ControllerStart(currentYaml[n])
    \/ \E n \in Node, s \in Secret : RewriteSecret(n, s)
    \/ ControllerFinish

Environment ==
    \/ \E n \in Node : KubeletStart(n) \/ ApiDown(n)
    \/ \E n \in Node, s \in Secret : PutSecret(n, s) \/ DeleteSecret(n, s)
    \/ Controller

-----------------------------------------------------------------------------
(* The operator.                                                           *)

\* encryption.sh --status: in sync when current, goal and etcd are one cipher.
issynced == \E c \in Cipher : {current, goal} \cup EtcdCiphers = {c}

\* encryption.sh --restart: annotate current=rewrite, restart the controller.
Restart ==
    /\ requests < MaxRequests
    /\ requests' = requests + 1
    /\ current' = Rewrite
    /\ active' = FALSE
    /\ rewriting' = {}
    /\ UNCHANGED <<etcd, nodeVars, goal, scriptVars, base, campaign, applied, done>>

\* An operator who runs any request on any node at any time.
FreeStart(n, r) ==
    /\ requests < MaxRequests
    /\ requests' = requests + 1
    /\ Start(n, r)
    /\ UNCHANGED <<base, campaign, applied, done>>

\* An operator who follows operations/kubernetes/encryption/README.md: the same
\* command on every node until each run succeeded, and no new command before
\* --status reports the requested cipher.  A command that was refused before it
\* changed any node may be replaced.
Settled == done = Node /\ issynced /\ current = campaign.write

NewCampaign(r) ==
    /\ requests < MaxRequests
    /\ Idle
    /\ applied = {} \/ Settled
    /\ requests' = requests + 1
    /\ base' = IF applied = {} THEN base ELSE campaign
    /\ campaign' = r
    /\ applied' = {}
    /\ done' = {}
    /\ UNCHANGED <<etcd, nodeVars, ctrlVars, scriptVars>>

RunCampaign(n) ==
    /\ Start(n, campaign)
    /\ UNCHANGED operVars

CarefulRestart == Idle /\ done = Node /\ Restart

-----------------------------------------------------------------------------
System ==
    \/ Environment
    \/ \E n \in Node : Script(n) \/ Abort(n)

\* Outages and deletions are left to Next: FreeNext is for what requests alone do.
FreeNext ==
    \/ \E n \in Node : Script(n) \/ Abort(n) \/ KubeletStart(n)
    \/ \E n \in Node, s \in Secret : PutSecret(n, s)
    \/ Controller
    \/ Restart
    \/ \E n \in Node, r \in Request : FreeStart(n, r)

Next ==
    \/ System
    \/ CarefulRestart
    \/ \E r \in Request : NewCampaign(r)
    \/ \E n \in Node : RunCampaign(n)

FreeSpec == Init /\ [][FreeNext]_vars
Spec     == Init /\ [][Next]_vars

(***************************************************************************)
(* Fairness for progress: a script that runs takes its next step, the      *)
(* operator reruns it on the nodes where it has not succeeded, kubelet and *)
(* controller keep working.                                                *)
(***************************************************************************)
Fairness ==
    /\ \A n \in Node :
        /\ WF_vars(KubeletStart(n))
        /\ WF_vars(Script(n) \/ (n \notin done /\ RunCampaign(n)))
    /\ WF_vars(Controller)

FairSpec == Spec /\ Fairness

-----------------------------------------------------------------------------
(* Properties.                                                             *)

(***************************************************************************)
(* The inductive invariant.  A campaign takes nodes from one common        *)
(* configuration, base, to the campaign's; before it touches a node etcd   *)
(* holds base's cipher only, and after it etcd holds ciphers of the two.   *)
(***************************************************************************)
NodesBetweenConfigs ==
    \A n \in Node :
        /\ manifest[n] \in {base, campaign}
        /\ running[n] \in {base, campaign}
        /\ n \notin applied => manifest[n] = base /\ running[n] = base

EtcdBetweenConfigs ==
    /\ base \in Request /\ campaign \in Request
    /\ etcd[Annotated] # Absent
    /\ \A s \in Secret :
          /\ etcd[s] \in {base.write, campaign.write, Absent}
          /\ applied = {} => etcd[s] \in {base.write, Absent}
    /\ applied # {} => base.write \in campaign.read

ScriptsFollowCampaign ==
    \A n \in Node :
        /\ pc[n] # "idle" => req[n] = campaign
        /\ (pc[n] = "scan" /\ applied = {}) =>
              /\ seen[n] \subseteq {base.write}
              /\ Annotated \in todo[n] \/ base.write \in seen[n]
        /\ pc[n] = "list" => seen[n] = {}
        /\ pc[n] = "idle" => seen[n] = {}
        /\ pc[n] = "write" => base.write \in campaign.read
        /\ pc[n] \in {"kubeadm", "wait", "delete", "ready", "link"} =>
              n \in applied /\ manifest[n] = campaign
        /\ pc[n] \in {"wait", "delete", "ready", "link"} => kubeadmcfg[n] = campaign
        /\ pc[n] = "link" => running[n] = campaign

DoneNodesUpdated ==
    \A n \in done :
        /\ n \in applied
        /\ manifest[n] = campaign
        /\ kubeadmcfg[n] = campaign
        /\ running[n] = campaign
        /\ currentYaml[n] = campaign

IInv ==
    /\ TypeOK
    /\ NodesBetweenConfigs
    /\ EtcdBetweenConfigs
    /\ ScriptsFollowCampaign
    /\ DoneNodesUpdated

\* A node on which the command succeeded can decrypt every secret in etcd, in
\* the state the cluster is in while other nodes are still on the previous
\* configuration, restart, or are interrupted half-way: the configuration that
\* usergoalvalid accepted covers what any API server may have written since.
UpdatedNodesReadEverything ==
    \A n \in done : EtcdCiphers \subseteq running[n].read

\* A node on which the command succeeded has one configuration: the manifest,
\* kubeadm's files (from which an upgrade regenerates the manifest), the
\* running API server and current.yaml agree, whatever failed before.
DoneNodesConsistent ==
    \A n \in done : pc[n] = "idle" =>
        /\ currentYaml[n] = campaign
        /\ manifest[n] = campaign
        /\ kubeadmcfg[n] = campaign
        /\ running[n] = campaign

\* When the controller reports a rewrite as complete (current is the goal of
\* the agreed configuration), no secret is left under another cipher until the
\* next campaign changes a node.
CurrentIsInEtcd ==
    (done = Node /\ current = campaign.write /\ ~active) =>
        EtcdCiphers \subseteq {current}

\* The script's own promise: "Ensure that you include all encryption secrets
\* present in etcd or kubernetes will not be able to read those secrets".  A
\* request that goes on to change the manifest names every cipher the scan found.
AcceptedRequestCoversScan ==
    \A n \in Node : pc[n] = "write" => seen[n] \subseteq req[n].read

\* Timeouts, interruptions and API server outages do not recur for ever, nor
\* does the operator run the command for ever on nodes where it succeeded.
Quiet ==
    <>[][\A n \in Node : /\ ~ApiDown(n)
                         /\ ~(Abort(n) /\ ~Script(n))
                         /\ ~(n \in done /\ RunCampaign(n))]_vars

\* A campaign that changed one node ends with every node updated and every
\* secret under its cipher, as --status then reports: the set logic never
\* refuses on a later node what it accepted on the first, and no failed or
\* interrupted run leaves a state the next run cannot complete.
CampaignSettles ==
    Quiet => (applied # {} ~> Settled \/ current = Rewrite)
=============================================================================
