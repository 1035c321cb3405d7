--------------------------- MODULE MCConfigRestore ---------------------------
(* The exports and imports of the configuration services, one at a time:    *)
(* the scripts share api_requests.py and common.py, and no state.           *)
EXTENDS CfsImport, BosImport, ImsImport, ImsExport, S3TransferPool

VARIABLE restored       \* what is restored or exported

vars == <<cfsVars, bosVars, imsVars, exportVars, poolVars, restored>>

Body(t, l) == [text |-> t, layer |-> l]
MCCfsSystem(d, o) ==
    [desired |-> [x \in CfsComponent |-> IF x = "x1" THEN d ELSE Unset],
     configs |-> [c \in CfsConfig |->
                     IF c = "c1" THEN Body("system", {"commit"}) ELSE NoConfig],
     options |-> o,
     sources |-> [s \in CfsSource |-> Absent]]
MCCfsSystems ==
    {MCCfsSystem(d, [o \in CfsOption |-> "old"]) : d \in {Unset, "c1"}}
    \cup {MCCfsSystem(Unset, [o \in CfsOption |-> IF o = "o1" THEN Absent ELSE "old"])}

\* The component x2 wants c2, which the second export does not hold.
MCCfsExports ==
    {[desired |-> [x \in CfsComponent |-> IF x = "x1" THEN "c1" ELSE "c2"],
      configs |-> [c \in CfsConfig |-> IF c \in held THEN Body("imported", Fields) ELSE NoConfig],
      options |-> [o \in CfsOption |-> "new"],
      sources |-> [s \in CfsSource |-> "there"]] : held \in {{"c1", "c2"}, {"c1"}}}
MCCfsVersions == {<<1, 18, 10>>, <<1, 19, 3>>}

Template(n, t, x) == [name |-> n, tenant |-> t, text |-> x]
MCBosSystems ==
    {[templates |-> [i \in TemplateId |-> IF i[1] = "n1" THEN "system" ELSE Nothing],
      options |-> [o \in BosOption |-> IF o = "o1" THEN "old" ELSE Nothing],
      sessions |-> [n \in BosSession |-> s]] : s \in {"complete", "active"}}
MCBosFiles ==
    {<<Template("n1", "blank", "imported"), Template("n2", "t1", "imported"),
       Template("n2", "missing", "imported")>>,
     <<Template("n1", "blank", "imported"), Template("n1", "missing", "imported")>>,
     <<Template("n1", "blank", "imported"), Template("n1", "missing", "system")>>}
MCBosOptionFiles == {[o \in BosOption |-> "new"]}

Records(ids, text) == [i \in ImsId |-> IF i \in ids THEN text ELSE NoRecord]
MCImsSystems ==
    {[live |-> Records({"i1", "i2", "k1", "r1"}, "system"), deleted |-> NoTable,
      jobs |-> {<<"j1", "success">>}, s3 |-> {"i1", "r1"}],
     [live |-> Records({"i2"}, "system"), deleted |-> Records({"i1", "r1"}, "system"),
      jobs |-> {<<"j1", "running">>}, s3 |-> {"i2"}]}
\* The file of i2, which BOS links to, is missing in the second export.
MCImsExports ==
    {[live |-> Records({"i1", "k1", "r1"}, "imported"), s3 |-> {"i1", "i2", "r1"}, links |-> {"i2"}],
     [live |-> Records({"i1", "k1"}, "imported"), s3 |-> {"i1"}, links |-> {"i2"}],
     [live |-> Records({"r1", "k1"}, "imported"), s3 |-> NoS3, links |-> {}]}

\* Both manifests name the kernel; the rootfs has the name of its manifest.
MCManifestLinks ==
    [u \in Url |-> CASE u = "m1" -> {"rootfs", "kernel"} [] u = "m2" -> {"kernel"} [] OTHER -> {}]
MCBasename == [u \in Url |-> IF u \in {"m1", "rootfs"} THEN "name" ELSE u]
MCLinkSystems ==
    {[images |-> {"m1"}, recipes |-> {"r1"}, deletedImages |-> {}, deletedRecipes |-> {"r2"},
      bos |-> {"m2"}, bss |-> {"kernel"}, catalog |-> {"r2", "m2"},
      size |-> [u \in Url |-> IF u = "rootfs" THEN 4 ELSE 1]],
     [images |-> {}, recipes |-> {"r1"}, deletedImages |-> {"m2"}, deletedRecipes |-> {},
      bos |-> {"m1"}, bss |-> {}, catalog |-> {},
      size |-> [u \in Url |-> CASE u = "r1" -> 3 [] u = "m1" -> 0 [] OTHER -> 2]]}

CfsAtRest == /\ cfs = Unread /\ cfsData = Unread
             /\ cfsVersion = <<1, 18, 10>> /\ cfsSession = FALSE
             /\ cfsLocal = Unread /\ cfsSnap = Unread
             /\ cfsRun = CfsNewRun /\ cfsAsked = {} /\ cfsTouched = {} /\ cfsLate = {}
             /\ cfsEdits = 0 /\ cfsRuns = 0
BosAtRest == /\ bos = NothingRead /\ bosFiles = <<>>
             /\ bosOptionFile = NothingRead.options
             /\ bosRun = NewRun /\ bosSnap = NothingRead /\ bosTouched = {} /\ bosLate = {}
             /\ bosEdits = 0 /\ bosRuns = 0
ImsAtRest == /\ ims = NothingLoaded /\ imsFile = NoTable /\ s3 = {}
             /\ imsExport = [live |-> NoTable, s3 |-> {}, links |-> {}]
             /\ imsBackup = NothingLoaded /\ imsRun = ImsNewRun /\ imsTouched = {} /\ imsLate = {}
             /\ imsEdits = 0 /\ imsRuns = 0
ExportAtRest == /\ linked \in {[x \in DOMAIN l \ {"size"} |-> {}] : l \in MCLinkSystems} /\ size = [u \in Url |-> 0] /\ export = NewExport
                /\ files = {} /\ archive = {} /\ disk = 0 /\ urlEdits = 0

Services == {"CFS", "BOS", "IMS", "IMS export", "artifacts"}
At(service) == restored = service
Init == /\ restored \in Services
        /\ IF At("CFS") THEN CfsInit ELSE CfsAtRest
        /\ IF At("BOS") THEN BosInit ELSE BosAtRest
        /\ IF At("IMS") THEN ImsInit ELSE ImsAtRest
        /\ IF At("IMS export") THEN ExportInit ELSE ExportAtRest
        /\ PoolInit
Next == /\ UNCHANGED restored
        /\ \/ At("CFS") /\ CfsNext /\ UNCHANGED <<bosVars, imsVars, exportVars, poolVars>>
           \/ At("BOS") /\ BosNext /\ UNCHANGED <<cfsVars, imsVars, exportVars, poolVars>>
           \/ At("IMS") /\ ImsNext /\ UNCHANGED <<cfsVars, bosVars, exportVars, poolVars>>
           \/ At("IMS export") /\ ExportNext /\ UNCHANGED <<cfsVars, bosVars, imsVars, poolVars>>
           \/ At("artifacts") /\ PoolNext /\ UNCHANGED <<cfsVars, bosVars, imsVars, exportVars>>
Spec == Init /\ [][Next]_vars

-----------------------------------------------------------------------------
(* The properties of the modules together.                                    *)

\* All of the scripts keep their state well-formed (see the modules).
ConfigTypeOK == CfsTypeOK /\ BosTypeOK /\ ImsTypeOK /\ ExportTypeOK /\ PoolTypeOK

\* An import that says it succeeded has brought in all of its export, into CFS, BOS
\* and IMS alike, but for what others changed while it ran.
ImportsAreComplete == ImportIsComplete /\ BosImportIsComplete /\ ImsImportIsComplete

\* An export that says it succeeded can be imported, and its files take no more
\* space than was estimated.
ExportIsWhole == ExportCanBeImported /\ SpaceSuffices

\* No import deletes or replaces what it has not exported before, unless users
\* changed it after the export.
NothingUnexportedIsLost == RemovedIsExported /\ BosRemovedIsExported /\ DeletedIsBackedUp

\* Without the option to clear or to overwrite, what was there when a run read it
\* stays as it is.
ExistingStays == ExistingIsKept /\ BosExistingIsKept /\ OthersAreKept

\* The pool of S3 transfers never waits for itself, and fails only for an error.
PoolEnds == PoolGoesOn /\ FailsOnlyForErrors
=============================================================================
