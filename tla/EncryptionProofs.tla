-------------------------- MODULE EncryptionProofs --------------------------
(***************************************************************************)
(* Proofs about Encryption: what usergoalvalid decides, and that for every *)
(* number of nodes, secrets and keys a careful campaign never leaves an    *)
(* updated node unable to decrypt a secret; and that when the controller   *)
(* reports that the secrets are rewritten, they are, and they stay so      *)
(* while API servers restart and clients write.                            *)
(***************************************************************************)
EXTENDS Encryption, TLAPS

\* usergoalvalid, with the list of ciphers found that main() passes to it (the
\* trailing space adds an empty word): a request is accepted when it names every
\* cipher found, and also when it drops some of them, names no new one and does
\* not name the `current' cipher.
LEMMA UsergoalvalidMeaning ==
    ASSUME NEW S, NEW R, NEW cur, Blank \notin S, Blank \notin R
    PROVE  usergoalvalid(S \cup {Blank}, R, cur) <=>
              \/ S \subseteq R
              \/ R \subseteq S /\ cur \notin R
<1> DEFINE L == S \cup {Blank}
<1>1. isEmpty(complement(L, R)) <=> S \subseteq R
  BY DEF isEmpty, complement
<1>2. isEmpty(difference(L, R)) => S \subseteq R
  BY DEF isEmpty, difference
<1>3. (difference(L, R) # complement(L, R)) <=> ~(R \subseteq S)
  BY DEF difference, complement
<1>4. L # R /\ subset(L, R)
  BY DEF subset
<1>5. subset(R, L) <=> ~(R \subseteq S)
  BY DEF subset
<1>6. subset({cur}, R) <=> cur \notin R
  BY DEF subset
<1>7. isEmpty(complement(L, R)) /\ isEmpty(difference(L, R)) => R \subseteq S
  BY DEF isEmpty, difference, complement
<1>8. (L \cup R) \cup L = (L \cup R) \cup R
  OBVIOUS
<1> QED
  BY <1>1, <1>2, <1>3, <1>4, <1>5, <1>6, <1>8 DEF usergoalvalid

\* The configuration of a cluster that was never encrypted is one that can be
\* asked for.
LEMMA DefaultIsRequest == Default \in Request
  BY DEF Default, Request, DisableRequest, Config, Cipher

\* A configuration that can be asked for reads back what it writes.
LEMMA RequestsReadTheirCipher ==
    ASSUME NEW r \in Request
    PROVE  r \in Config /\ r.write \in r.read /\ Identity \in r.read
  BY DEF Request, EnableRequest, DisableRequest

\* Initially every node has the default configuration.
LEMMA InitIInv == Init => IInv
<1> SUFFICES ASSUME Init PROVE IInv
  OBVIOUS
<1> USE ConstantsAssumption
<1>1. Default \in Config
  BY DEF Default, Config, Cipher
<1>2. TypeOK
  <2>1. etcd \in [Secret -> Cipher \cup {Absent}]
    BY DEF Init, Cipher
  <2>2. current \in Cipher \cup {Rewrite} /\ goal \in Cipher
    BY DEF Init, Cipher
  <2>4. requests \in 0..MaxRequests
    BY DEF Init
  <2>3. /\ manifest \in [Node -> Config] /\ kubeadmcfg \in [Node -> Config]
        /\ running \in [Node -> Config] /\ currentYaml \in [Node -> Config]
        /\ req \in [Node -> Config] /\ base \in Config /\ campaign \in Config
    BY <1>1 DEF Init
  <2> QED
    BY <2>1, <2>2, <2>3, <2>4 DEF Init, TypeOK
<1>3. NodesBetweenConfigs /\ DoneNodesUpdated /\ ScriptsFollowCampaign
  BY DEF Init, NodesBetweenConfigs, DoneNodesUpdated, ScriptsFollowCampaign
<1>4. EtcdBetweenConfigs
  BY DefaultIsRequest DEF Init, EtcdBetweenConfigs, Default, Identity, Absent
<1> QED
  BY <1>2, <1>3, <1>4 DEF IInv

USE DEF nodeVars, ctrlVars, scriptVars, operVars, Goto, Exit

\* Each step of the script (encryption.sh) keeps the types.
LEMMA ExecTypeOK ==
    ASSUME TypeOK, NEW n \in Node, Script(n) \/ Abort(n)
    PROVE  TypeOK'
<1> USE ConstantsAssumption DEF TypeOK
<1>0. Default \in Config
  BY DEF Default, Config, Cipher
<1>1. CASE ListKeys(n)
  BY <1>1 DEF ListKeys, Present
<1>2. CASE \E s \in Secret : ReadKey(n, s) \/ ReadMissingKey(n, s)
  BY <1>2, <1>0 DEF ReadKey, ReadMissingKey, Cipher
<1>3. CASE Decide(n)
  BY <1>3, <1>0 DEF Decide
<1>4. CASE WriteManifest(n)
  BY <1>4 DEF WriteManifest
<1>5. CASE WriteKubeadm(n)
  BY <1>5 DEF WriteKubeadm
<1>6. CASE WaitBefore(n)
  BY <1>6 DEF WaitBefore
<1>7. CASE DeletePod(n)
  BY <1>7 DEF DeletePod
<1>8. CASE WaitAfter(n)
  BY <1>8, <1>0 DEF WaitAfter
<1>9. CASE Link(n)
  BY <1>9, <1>0 DEF Link
<1>10. CASE Abort(n)
  BY <1>10, <1>0 DEF Abort
<1> QED
  BY <1>1, <1>2, <1>3, <1>4, <1>5, <1>6, <1>7, <1>8, <1>9, <1>10 DEF Script

\* So does every step of the system.
LEMMA NextTypeOK == TypeOK /\ [Next]_vars => TypeOK'
<1> SUFFICES ASSUME TypeOK, [Next]_vars PROVE TypeOK'
  OBVIOUS
<1> USE ConstantsAssumption DEF TypeOK
<1>1. CASE \E n \in Node : Script(n) \/ Abort(n)
  BY <1>1, ExecTypeOK
<1>2. CASE \E n \in Node : KubeletStart(n) \/ ApiDown(n)
  BY <1>2 DEF KubeletStart, ApiDown
<1>3. CASE \E n \in Node, s \in Secret : PutSecret(n, s) \/ DeleteSecret(n, s)
  BY <1>3 DEF PutSecret, DeleteSecret, Config
<1>4. CASE \E n \in Node : ControllerStart(currentYaml[n])
  BY <1>4 DEF ControllerStart, Present, Config
<1>5. CASE \E n \in Node, s \in Secret : RewriteSecret(n, s)
  BY <1>5 DEF RewriteSecret, Config
<1>6. CASE ControllerFinish
  BY <1>6 DEF ControllerFinish
<1>7. CASE CarefulRestart
  <2>1. requests' \in 0..MaxRequests
    BY <1>7 DEF CarefulRestart, Restart
  <2> QED
    BY <1>7, <2>1 DEF CarefulRestart, Restart
<1>8. CASE \E r \in Request : NewCampaign(r)
  BY <1>8, RequestsReadTheirCipher DEF NewCampaign
<1>9. CASE \E n \in Node : RunCampaign(n)
  BY <1>9 DEF RunCampaign, Start
<1>10. CASE UNCHANGED vars
  BY <1>10 DEF vars
<1> QED
  BY <1>1, <1>2, <1>3, <1>4, <1>5, <1>6, <1>7, <1>8, <1>9, <1>10
  DEF Next, System, Environment, Controller

\* Type correctness of the script, kubelet, controller and operator together.
THEOREM TypeCorrect == Spec => []TypeOK
<1>1. Init => TypeOK
  BY InitIInv DEF IInv
<1> QED
  BY <1>1, NextTypeOK, PTL DEF Spec

-----------------------------------------------------------------------------
(* The four parts of IInv, by actor.  EtcdFaults = FALSE: the scan reports *)
(* what etcd holds.                                                        *)

Parts == NodesBetweenConfigs /\ EtcdBetweenConfigs
         /\ ScriptsFollowCampaign /\ DoneNodesUpdated

\* The decision, taken on what a scan can have found during a campaign.
LEMMA DecideKeepsBase ==
    ASSUME IInv, NEW n \in Node, pc[n] = "scan", todo[n] = {},
           usergoalvalid(seen[n] \cup {Blank}, req[n].read, curr[n])
    PROVE  base.write \in campaign.read
<1>1. CASE applied # {}
  BY <1>1 DEF IInv, EtcdBetweenConfigs
<1>2. CASE applied = {}
  <2>1. req[n] = campaign /\ seen[n] = {base.write}
    BY <1>2 DEF IInv, ScriptsFollowCampaign
  <2>2. Identity \in campaign.read /\ campaign \in Config
    BY RequestsReadTheirCipher DEF IInv, EtcdBetweenConfigs
  <2>3. Blank \notin Cipher
    BY ConstantsAssumption DEF Cipher, Blank, Identity
  <2>4. Blank \notin seen[n] /\ Blank \notin campaign.read
    BY <2>2, <2>3 DEF IInv, TypeOK, Config
  <2>5. usergoalvalid(seen[n] \cup {Blank}, campaign.read, curr[n])
    BY <2>1
  <2>6. usergoalvalid(seen[n] \cup {Blank}, campaign.read, curr[n]) <=>
           \/ seen[n] \subseteq campaign.read
           \/ campaign.read \subseteq seen[n] /\ curr[n] \notin campaign.read
    <3> HIDE DEF Goto, Exit
    <3> QED BY ONLY <2>4, UsergoalvalidMeaning
  <2>7. seen[n] \subseteq campaign.read \/ campaign.read \subseteq seen[n]
    BY ONLY <2>5, <2>6
  <2> QED
    BY <2>1, <2>2, <2>7
<1> QED
  BY <1>1, <1>2

\* A step of the script preserves each part of the invariant.
LEMMA ScriptParts ==
    ASSUME EtcdFaults = FALSE, IInv, NEW n \in Node, Script(n) \/ Abort(n)
    PROVE  Parts'
<1> USE DEF IInv, Parts, NodesBetweenConfigs, EtcdBetweenConfigs,
            ScriptsFollowCampaign, DoneNodesUpdated
<1>1. CASE ListKeys(n)
  BY <1>1, ConstantsAssumption DEF TypeOK, ListKeys, Present
<1>2. CASE \E s \in Secret : ReadKey(n, s)
  BY <1>2, ConstantsAssumption DEF TypeOK, ReadKey
<1>3. CASE \E s \in Secret : ReadMissingKey(n, s)
  BY <1>3 DEF TypeOK, ReadMissingKey
<1>4. CASE Decide(n)
  BY <1>4, DecideKeepsBase DEF TypeOK, Decide
<1>5. CASE WriteManifest(n)
  BY <1>5 DEF TypeOK, WriteManifest
<1>6. CASE WriteKubeadm(n)
  BY <1>6 DEF TypeOK, WriteKubeadm
<1>7. CASE WaitBefore(n)
  BY <1>7 DEF TypeOK, WaitBefore
<1>8. CASE DeletePod(n)
  BY <1>8 DEF TypeOK, DeletePod
<1>9. CASE WaitAfter(n)
  BY <1>9 DEF TypeOK, WaitAfter
<1>10. CASE Link(n)
  BY <1>10 DEF TypeOK, Link
<1>11. CASE Abort(n)
  BY <1>11 DEF TypeOK, Abort
<1> QED
  BY <1>1, <1>2, <1>3, <1>4, <1>5, <1>6, <1>7, <1>8, <1>9, <1>10, <1>11 DEF Script

\* What an API server encrypts with during a campaign.
LEMMA WritesBetween ==
    ASSUME IInv, NEW n \in Node
    PROVE  /\ running[n].write \in {base.write, campaign.write}
           /\ applied = {} => running[n].write = base.write
           /\ running[n].write # Absent
<1>1. Absent \notin Cipher
  BY ConstantsAssumption DEF Cipher, Absent, Identity
<1> QED
  BY <1>1 DEF IInv, NodesBetweenConfigs, TypeOK, Config

\* So does a step of the kubelet, the API server or the controller.
LEMMA EnvironmentParts ==
    ASSUME IInv, Environment
    PROVE  Parts'
<1> USE DEF IInv, Parts, NodesBetweenConfigs, EtcdBetweenConfigs,
            ScriptsFollowCampaign, DoneNodesUpdated
<1>1. CASE \E n \in Node : KubeletStart(n) \/ ApiDown(n)
  BY <1>1 DEF TypeOK, KubeletStart, ApiDown
<1>2. ASSUME NEW n \in Node, NEW s \in Secret, PutSecret(n, s)
      PROVE  Parts'
  <2>1. etcd' = [etcd EXCEPT ![s] = running[n].write]
    BY <1>2 DEF PutSecret
  <2> QED
    BY <1>2, <2>1, WritesBetween DEF TypeOK, PutSecret
<1>3. CASE \E n \in Node, s \in Secret : DeleteSecret(n, s)
  BY <1>3 DEF TypeOK, DeleteSecret
<1>4. CASE \E n \in Node : ControllerStart(currentYaml[n])
  BY <1>4 DEF ControllerStart
<1>5. ASSUME NEW n \in Node, NEW s \in Secret, RewriteSecret(n, s)
      PROVE  Parts'
  <2>1. etcd' = etcd \/ etcd' = [etcd EXCEPT ![s] = running[n].write]
    BY <1>5 DEF RewriteSecret
  <2> QED
    BY <1>5, <2>1, WritesBetween DEF TypeOK, RewriteSecret
<1>6. CASE ControllerFinish
  BY <1>6 DEF ControllerFinish
<1> QED
  BY <1>1, <1>2, <1>3, <1>4, <1>5, <1>6 DEF Environment, Controller

\* And so does what the operator does: asking, interrupting and starting again.
LEMMA OperatorParts ==
    ASSUME IInv,
           CarefulRestart \/ (\E r \in Request : NewCampaign(r))
           \/ (\E n \in Node : RunCampaign(n))
    PROVE  Parts'
<1> USE DEF IInv, Parts, NodesBetweenConfigs, EtcdBetweenConfigs,
            ScriptsFollowCampaign, DoneNodesUpdated
<1>1. CASE CarefulRestart
  BY <1>1 DEF CarefulRestart, Restart
<1>2. ASSUME NEW r \in Request, NewCampaign(r)
      PROVE  Parts'
  <2>1. CASE applied = {}
    BY <1>2, <2>1 DEF NewCampaign, Idle, TypeOK
  <2>2. CASE applied # {}
    <3>1. done = Node /\ issynced /\ current = campaign.write
      BY <1>2, <2>2 DEF NewCampaign, Settled
    <3>2. \A s \in Secret : etcd[s] \in {campaign.write, Absent}
      BY <3>1 DEF issynced, EtcdCiphers, Present
    <3> QED
      BY <1>2, <2>2, <3>1, <3>2 DEF NewCampaign, Idle, TypeOK
  <2> QED
    BY <2>1, <2>2
<1>3. CASE \E n \in Node : RunCampaign(n)
  BY <1>3 DEF TypeOK, RunCampaign, Start
<1> QED
  BY <1>1, <1>2, <1>3

\* Together: without failures of etcd, every step preserves the invariant.
LEMMA NextIInv == EtcdFaults = FALSE /\ IInv /\ [Next]_vars => IInv'
<1> SUFFICES ASSUME EtcdFaults = FALSE, IInv, [Next]_vars PROVE IInv'
  OBVIOUS
<1>1. TypeOK'
  BY NextTypeOK DEF IInv
<1>2. CASE Next
  BY <1>1, <1>2, ScriptParts, EnvironmentParts, OperatorParts
  DEF Next, System, Parts, IInv
<1>3. CASE UNCHANGED vars
  BY <1>1, <1>3 DEF vars, IInv, NodesBetweenConfigs, EtcdBetweenConfigs,
                    ScriptsFollowCampaign, DoneNodesUpdated
<1> QED
  BY <1>2, <1>3

\* The invariant contains what is to be proved.
LEMMA IInvImplies == IInv => UpdatedNodesReadEverything
<1> SUFFICES ASSUME IInv PROVE UpdatedNodesReadEverything
  OBVIOUS
<1>1. ASSUME NEW n \in done PROVE EtcdCiphers \subseteq running[n].read
  <2>1. running[n] = campaign /\ applied # {}
    BY <1>1 DEF IInv, DoneNodesUpdated
  <2>2. base.write \in campaign.read /\ campaign.write \in campaign.read
    BY <2>1, RequestsReadTheirCipher DEF IInv, EtcdBetweenConfigs
  <2> QED
    BY <2>1, <2>2 DEF IInv, EtcdBetweenConfigs, EtcdCiphers, Present
<1> QED
  BY <1>1 DEF UpdatedNodesReadEverything

\* For any number of nodes, secrets and keys: while an operator rolls a request
\* out as documented, and etcd answers, every node on which encryption.sh
\* succeeded decrypts every secret, whichever configuration wrote it and
\* wherever other runs of the script were interrupted.
THEOREM UpdatedNodesRead ==
    ASSUME EtcdFaults = FALSE
    PROVE  Spec => []UpdatedNodesReadEverything
<1>1. IInv /\ [Next]_vars => IInv'
  BY NextIInv
<1> QED
  BY <1>1, InitIInv, IInvImplies, PTL DEF Spec

-----------------------------------------------------------------------------
(* A node that is done is consistent, also when the scan of etcd fails:    *)
(* what usergoalvalid is told does not matter for it.                      *)

\* What a script that changes a node has done so far.
ScriptsInOrder ==
    \A n \in Node :
        /\ pc[n] # "idle" => req[n] = campaign
        /\ pc[n] \in {"kubeadm", "wait", "delete", "ready", "link"} =>
              n \in applied /\ manifest[n] = campaign
        /\ pc[n] \in {"wait", "delete", "ready", "link"} => kubeadmcfg[n] = campaign
        /\ pc[n] = "link" => running[n] = campaign

CInv == TypeOK /\ ScriptsInOrder /\ DoneNodesUpdated

\* Every step preserves it.
LEMMA NextCInv == CInv /\ [Next]_vars => CInv'
<1> SUFFICES ASSUME CInv, [Next]_vars PROVE CInv'
  OBVIOUS
<1> USE DEF CInv, ScriptsInOrder, DoneNodesUpdated
<1>0. TypeOK'
  BY NextTypeOK
<1>1. ASSUME NEW n \in Node, Script(n) \/ Abort(n) PROVE ScriptsInOrder' /\ DoneNodesUpdated'
  <2>1. CASE ListKeys(n) \/ Decide(n) \/ WaitBefore(n) \/ DeletePod(n) \/ WaitAfter(n)
    BY <2>1 DEF TypeOK, ListKeys, Decide, WaitBefore, DeletePod, WaitAfter
  <2>2. CASE \E s \in Secret : ReadKey(n, s) \/ ReadMissingKey(n, s)
    BY <2>2 DEF TypeOK, ReadKey, ReadMissingKey
  <2>3. CASE WriteManifest(n)
    BY <2>3 DEF TypeOK, WriteManifest
  <2>4. CASE WriteKubeadm(n)
    BY <2>4 DEF TypeOK, WriteKubeadm
  <2>5. CASE Link(n)
    BY <2>5 DEF TypeOK, Link
  <2>6. CASE Abort(n)
    BY <2>6 DEF TypeOK, Abort
  <2> QED
    BY <1>1, <2>1, <2>2, <2>3, <2>4, <2>5, <2>6 DEF Script
<1>2. CASE Environment
  <2>1. UNCHANGED <<pc, req, manifest, kubeadmcfg, currentYaml, campaign, applied, done>>
    BY <1>2 DEF Environment, Controller, KubeletStart, ApiDown, PutSecret, DeleteSecret,
                ControllerStart, RewriteSecret, ControllerFinish
  <2>2. \A n \in Node : running'[n] \in {running[n], manifest[n]}
    BY <1>2 DEF Environment, Controller, KubeletStart, ApiDown, PutSecret, DeleteSecret,
                ControllerStart, RewriteSecret, ControllerFinish, TypeOK
  <2>3. done \subseteq Node
    BY DEF TypeOK
  <2>4. \A n \in Node : running[n] = campaign /\ manifest[n] = campaign => running'[n] = campaign
    BY <2>2
  <2>5. \A n \in Node : pc[n] = "link" => running'[n] = campaign
    BY <2>4
  <2>6. ScriptsInOrder'
    <3> HIDE DEF DoneNodesUpdated
    <3> QED BY <2>1, <2>5
  <2>7. DoneNodesUpdated'
    <3> HIDE DEF ScriptsInOrder
    <3> QED BY <2>1, <2>3, <2>4
  <2> QED
    BY <1>0, <2>6, <2>7
<1>3. CASE CarefulRestart \/ \E r \in Request : NewCampaign(r)
  <2>1. CASE CarefulRestart
    BY <1>0, <2>1 DEF CarefulRestart, Restart
  <2>2. ASSUME NEW r \in Request, NewCampaign(r) PROVE ScriptsInOrder' /\ DoneNodesUpdated'
    BY <2>2 DEF NewCampaign, Idle
  <2> QED
    BY <1>0, <1>3, <2>1, <2>2
<1>4. CASE \E n \in Node : RunCampaign(n)
  BY <1>0, <1>4 DEF RunCampaign, Start, TypeOK
<1>5. CASE UNCHANGED vars
  BY <1>0, <1>5 DEF vars
<1> QED
  BY <1>0, <1>1, <1>2, <1>3, <1>4, <1>5 DEF Next, System

\* A run that succeeded left one configuration in the manifest, in kubeadm's
\* files, in current.yaml and in the API server, for any number of nodes, also
\* where etcdctl failed and other runs were interrupted.
THEOREM DoneNodesAreConsistent == Spec => []DoneNodesConsistent
<1>1. Init => CInv
  <2> SUFFICES ASSUME Init PROVE CInv
    OBVIOUS
  <2>1. TypeOK
    BY InitIInv DEF IInv
  <2> QED
    BY <2>1 DEF Init, CInv, ScriptsInOrder, DoneNodesUpdated
<1>2. CInv => DoneNodesConsistent
  BY DEF CInv, DoneNodesUpdated, DoneNodesConsistent
<1> QED
  BY <1>1, <1>2, NextCInv, PTL DEF Spec

-----------------------------------------------------------------------------
(* When secrets count as rewritten.                                        *)

-----------------------------------------------------------------------------
(* The invariant.                                                          *)

\* current.yaml is of the configuration before the campaign until the script
\* succeeded on the node, which then has the campaign's throughout.
LinksFollowCampaign ==
    \A n \in Node :
        /\ currentYaml[n] \in {base, campaign}
        /\ n \notin applied => currentYaml[n] = base
        /\ currentYaml[n] # base => manifest[n] = campaign /\ running[n] = campaign

\* The goal moves on to the campaign's cipher when all nodes agree on it.
GoalFollowsLinks ==
    /\ goal \in {base.write, campaign.write}
    /\ applied = {} => goal = base.write
    /\ goal # base.write => \A n \in Node : currentYaml[n] = campaign
    /\ ~active => current \in {goal, Rewrite}

\* What the controller does not have on its list is under the goal's cipher.
RewrittenStays ==
    goal # base.write /\ (active \/ current = goal) =>
        \A s \in Secret : etcd[s] \in {goal, Absent} \/ (active /\ s \in rewriting)

KInv == LinksFollowCampaign /\ GoalFollowsLinks /\ RewrittenStays

-----------------------------------------------------------------------------
(* The invariant is inductive.                                             *)

USE DEF nodeVars, ctrlVars, scriptVars, operVars, Goto, Exit

\* Initially all nodes have the default configuration, which is the goal.
LEMMA InitKInv == Init => KInv
  BY DEF Init, KInv, LinksFollowCampaign, GoalFollowsLinks, RewrittenStays, Default

\* Steps of the script: the last one links current.yaml, to what is running.
LEMMA ScriptKInv ==
    ASSUME IInv, KInv, NEW n \in Node, Script(n) \/ Abort(n) PROVE KInv'
<1> USE DEF KInv
<1>1. CASE Link(n)
  <2>1. /\ n \in applied /\ manifest[n] = campaign /\ running[n] = campaign
        /\ req[n] = campaign
    BY <1>1 DEF IInv, ScriptsFollowCampaign, Link
  <2>2. /\ UNCHANGED <<base, campaign, applied, manifest, running, etcd, ctrlVars>>
        /\ \A m \in Node : currentYaml'[m] = IF m = n THEN campaign ELSE currentYaml[m]
    BY <1>1, <2>1 DEF Link, IInv, TypeOK
  <2>3. LinksFollowCampaign'
    BY <2>1, <2>2 DEF LinksFollowCampaign
  <2>4. GoalFollowsLinks' /\ RewrittenStays'
    BY <2>2 DEF GoalFollowsLinks, RewrittenStays
  <2> QED BY <2>3, <2>4
<1>2. CASE WriteManifest(n)
  <2>1. req[n] = campaign
    BY <1>2 DEF IInv, ScriptsFollowCampaign, WriteManifest
  <2>2. /\ UNCHANGED <<base, campaign, currentYaml, running, etcd, ctrlVars>>
        /\ applied' = applied \cup {n}
        /\ \A m \in Node : manifest'[m] = IF m = n THEN campaign ELSE manifest[m]
    BY <1>2, <2>1 DEF WriteManifest, IInv, TypeOK
  <2>3. LinksFollowCampaign'
    BY <2>2 DEF LinksFollowCampaign
  <2>4. GoalFollowsLinks' /\ RewrittenStays'
    BY <2>2 DEF GoalFollowsLinks, RewrittenStays
  <2> QED BY <2>3, <2>4
<1>3. CASE UNCHANGED <<base, campaign, currentYaml, running, manifest, applied, etcd, ctrlVars>>
  BY <1>3 DEF LinksFollowCampaign, GoalFollowsLinks, RewrittenStays
<1>4. ASSUME ~Link(n), ~WriteManifest(n)
      PROVE  UNCHANGED <<base, campaign, currentYaml, running, manifest, applied, etcd, ctrlVars>>
  BY <1>4 DEF Script, ListKeys, Decide, ReadKey, ReadMissingKey, WriteKubeadm, WaitBefore,
              DeletePod, WaitAfter, Abort
<1> QED BY <1>1, <1>2, <1>3, <1>4

\* Once the goal is the campaign's cipher, every API server writes that cipher.
LEMMA GoalIsWritten ==
    ASSUME IInv, KInv, NEW n \in Node, goal # base.write
    PROVE  running[n].write = goal
<1>1. currentYaml[n] = campaign /\ goal = campaign.write
  BY DEF KInv, GoalFollowsLinks
<1>2. currentYaml[n] # base
  BY <1>1
<1> QED BY <1>1, <1>2 DEF KInv, LinksFollowCampaign

\* Steps of the kubelet, the API servers, clients and the controller.
LEMMA EnvironmentKInv == ASSUME IInv, KInv, Environment PROVE KInv'
<1> USE DEF KInv
<1>1. CASE \E n \in Node : KubeletStart(n) \/ ApiDown(n)
  <2>1. /\ UNCHANGED <<base, campaign, applied, manifest, currentYaml, etcd, ctrlVars>>
        /\ \A m \in Node : running'[m] \in {running[m], manifest[m]}
    BY <1>1 DEF KubeletStart, ApiDown, IInv, TypeOK
  <2>2. LinksFollowCampaign'
    BY <2>1 DEF LinksFollowCampaign
  <2>3. GoalFollowsLinks' /\ RewrittenStays'
    BY <2>1 DEF GoalFollowsLinks, RewrittenStays
  <2> QED BY <2>2, <2>3
<1>2. ASSUME NEW n \in Node, NEW s \in Secret,
             PutSecret(n, s) \/ DeleteSecret(n, s) \/ RewriteSecret(n, s)
      PROVE  KInv'
  <2>1. /\ UNCHANGED <<base, campaign, applied, manifest, running, currentYaml,
                       goal, current, active>>
        /\ rewriting' \subseteq rewriting /\ rewriting \ rewriting' \subseteq {s}
        /\ \A t \in Secret \ {s} : etcd'[t] = etcd[t]
    BY <1>2 DEF PutSecret, DeleteSecret, RewriteSecret, IInv, TypeOK
  <2>2. etcd'[s] \in {running[n].write, Absent}
    BY <1>2 DEF PutSecret, DeleteSecret, RewriteSecret, IInv, TypeOK
  <2>3. LinksFollowCampaign' /\ GoalFollowsLinks'
    BY <2>1 DEF LinksFollowCampaign, GoalFollowsLinks
  <2>4. RewrittenStays'
    BY <2>1, <2>2, GoalIsWritten DEF RewrittenStays
  <2> QED BY <2>3, <2>4
<1>3. ASSUME NEW n \in Node, ControllerStart(currentYaml[n]) PROVE KInv'
  <2>1. /\ UNCHANGED <<base, campaign, applied, manifest, running, currentYaml, etcd>>
        /\ goal' = currentYaml[n].write /\ active' = TRUE /\ rewriting' = Present
        /\ \A m \in Node : currentYaml[m] = currentYaml[n]
    BY <1>3 DEF ControllerStart, Agree
  <2>2. /\ currentYaml[n] \in {base, campaign}
        /\ applied = {} => currentYaml[n] = base
    BY DEF LinksFollowCampaign
  <2>3. LinksFollowCampaign'
    BY <2>1 DEF LinksFollowCampaign
  <2>4. GoalFollowsLinks'
    BY <2>1, <2>2 DEF GoalFollowsLinks
  <2>5. RewrittenStays'
    BY <2>1 DEF RewrittenStays, Present
  <2> QED BY <2>3, <2>4, <2>5
<1>4. CASE ControllerFinish
  BY <1>4 DEF ControllerFinish, LinksFollowCampaign, GoalFollowsLinks, RewrittenStays
<1> QED BY <1>1, <1>2, <1>3, <1>4 DEF Environment, Controller

\* Steps of the operator: a new campaign starts from the goal that was reached.
LEMMA OperatorKInv ==
    ASSUME IInv, KInv,
           CarefulRestart \/ (\E r \in Request : NewCampaign(r))
           \/ (\E n \in Node : RunCampaign(n))
    PROVE  KInv'
<1> USE DEF KInv
<1>1. CASE CarefulRestart
  <2>1. /\ UNCHANGED <<base, campaign, applied, manifest, running, currentYaml, etcd, goal>>
        /\ current' = Rewrite /\ active' = FALSE
    BY <1>1 DEF CarefulRestart, Restart
  <2>2. Rewrite \notin Cipher /\ goal \in Cipher
    BY ConstantsAssumption DEF IInv, TypeOK, Cipher, Rewrite, Identity
  <2> QED BY <2>1, <2>2 DEF LinksFollowCampaign, GoalFollowsLinks, RewrittenStays
<1>2. ASSUME NEW r \in Request, NewCampaign(r) PROVE KInv'
  <2>1. /\ UNCHANGED <<manifest, running, currentYaml, etcd, goal, current, active>>
        /\ campaign' = r /\ applied' = {}
        /\ base' = IF applied = {} THEN base ELSE campaign
    BY <1>2 DEF NewCampaign
  <2>2. /\ \A n \in Node : currentYaml[n] = base'
        /\ goal = base'.write
    <3>1. CASE applied = {}
      BY <2>1, <3>1 DEF LinksFollowCampaign, GoalFollowsLinks
    <3>2. CASE applied # {}
      <4>1. done = Node /\ issynced /\ current = campaign.write
        BY <1>2, <3>2 DEF NewCampaign, Settled
      <4>2. goal = current
        BY <4>1 DEF issynced
      <4> QED BY <2>1, <3>2, <4>1, <4>2 DEF IInv, DoneNodesUpdated
    <3> QED BY <3>1, <3>2
  <2>3. LinksFollowCampaign'
    BY <2>1, <2>2 DEF LinksFollowCampaign
  <2>4. GoalFollowsLinks' /\ RewrittenStays'
    BY <2>1, <2>2 DEF GoalFollowsLinks, RewrittenStays
  <2> QED BY <2>3, <2>4
<1>3. ASSUME NEW n \in Node, RunCampaign(n) PROVE KInv'
  BY <1>3 DEF RunCampaign, Start, LinksFollowCampaign, GoalFollowsLinks, RewrittenStays
<1> QED BY <1>1, <1>2, <1>3

\* Every step preserves the invariant.
LEMMA NextKInv == IInv /\ KInv /\ [Next]_vars => KInv'
<1> SUFFICES ASSUME IInv, KInv, [Next]_vars PROVE KInv'
  OBVIOUS
<1>1. CASE UNCHANGED vars
  BY <1>1 DEF vars, KInv, LinksFollowCampaign, GoalFollowsLinks, RewrittenStays
<1>2. CASE Next
  BY <1>2, ScriptKInv, EnvironmentKInv, OperatorKInv DEF Next, System
<1> QED BY <1>1, <1>2

-----------------------------------------------------------------------------
(* The theorem.                                                            *)

\* When every node is done and the controller has annotated the campaign's cipher
\* as `current', no secret is under another cipher: whatever API servers with the
\* previous configuration wrote was rewritten after the last of them was updated.
\* For any number of nodes, secrets and keys, if etcd answers the scans.
THEOREM CurrentIsWhatEtcdHolds ==
    ASSUME EtcdFaults = FALSE
    PROVE  Spec => []CurrentIsInEtcd
<1>1. IInv /\ [Next]_vars => IInv'
  BY NextIInv
<1>2. IInv /\ KInv => CurrentIsInEtcd
  <2> SUFFICES ASSUME IInv, KInv, done = Node, current = campaign.write, ~active
               PROVE  EtcdCiphers \subseteq {current}
    BY DEF CurrentIsInEtcd
  <2>1. CASE base.write = campaign.write
    BY <2>1 DEF IInv, EtcdBetweenConfigs, EtcdCiphers, Present
  <2>2. CASE base.write # campaign.write
    <3>1. Rewrite \notin Cipher /\ campaign.write \in Cipher
      BY ConstantsAssumption DEF IInv, TypeOK, Config, Cipher, Rewrite, Identity
    <3>2. goal = current
      BY <3>1 DEF KInv, GoalFollowsLinks
    <3> QED BY <2>2, <3>2 DEF KInv, RewrittenStays, EtcdCiphers, Present
  <2> QED BY <2>1, <2>2
<1> QED
  BY <1>1, <1>2, InitIInv, InitKInv, NextKInv, PTL DEF Spec

=============================================================================
