--------------------------- MODULE MCMasterUpgrade ---------------------------
(***************************************************************************)
(* Model-checking instance of MasterUpgrade: three masters, ncn-m002 being *)
(* the first master as after an installation.  The constants are those of  *)
(* a rebuild whose runs may end anywhere; the instance U is an upgrade     *)
(* whose runs may end anywhere but between the reset of a node and the     *)
(* record that it has booted.  One of the two procedures is followed, and  *)
(* procedure says which.                                                   *)
(***************************************************************************)
EXTENDS MasterUpgrade

MCMasters == <<"ncn-m001", "ncn-m002", "ncn-m003">>

VARIABLE procedure

U == INSTANCE MasterUpgrade
        WITH Variant <- "upgrade", MaxBoots <- 1,
             Uninterrupted <- {"POWER_CYCLE_NCN", "WAIT_FOR_NCN_BOOT"}

mcVars == <<procedure, vars>>
Rebuilding(A) == procedure = "rebuild" /\ A /\ UNCHANGED procedure
Upgrading(A)  == procedure = "upgrade" /\ A /\ UNCHANGED procedure

MastersInit == Init /\ procedure \in {"rebuild", "upgrade"}

RebuildInit == Init /\ procedure = "rebuild"
RebuildSpec == RebuildInit /\ [][Rebuilding(Next)]_mcVars

\* In an upgrade the operator runs the script until it ends well, a script that
\* can go on does, and nodes boot.
MastersSpec ==
    /\ MastersInit
    /\ [][Rebuilding(Next) \/ Upgrading(U!Next)]_mcVars
    /\ WF_mcVars(Upgrading(U!Script))
    /\ \A n \in Node : /\ WF_mcVars(Upgrading(U!Start(n)))
                       /\ WF_mcVars(Upgrading(U!Boot(n)))

\* An upgrade wipes the disks of a node only while it is not a member: see
\* WipedOnlyWhenDrained, which fails where runs end after the reset of a node.
UpgradeWipesDrained ==
    [][procedure = "upgrade" =>
        \A n \in Node : (NetBoot(n) /\ noWipe[n] = 0) => n \notin members]_mcVars

\* When runs are no longer interrupted, the upgrade of a node that was begun is
\* completed, by rerunning the script.
UpgradeCompletes ==
    <>[][~U!Interrupt]_mcVars =>
        \A n \in Node : (procedure = "upgrade" /\ chosen = n ~> n \in upgraded)
=============================================================================
