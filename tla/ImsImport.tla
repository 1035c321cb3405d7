------------------------------ MODULE ImsImport ------------------------------
(***************************************************************************)
(* Importing images, public keys and recipes into the Image Management     *)
(* Service (IMS), and their artifacts into S3:                             *)
(* scripts/operations/configuration/import_ims_data.py and                 *)
(* python_lib/ims_import_export.                                           *)
(*                                                                         *)
(* Four types of import differ in what they delete first.  All of them end *)
(* by writing the data files of IMS anew, behind its back, from a copy     *)
(* that was read before the deletions and the uploads, and restarting it.  *)
(*                                                                         *)
(* Abstractions: a record is a text; the artifacts of a record (a manifest *)
(* and what it names) are one artifact, which has the id of the record, as *)
(* IMS names them; S3TransferPool has the threads that upload them.        *)
(***************************************************************************)
EXTENDS Naturals, FiniteSets, ApiRequests

CONSTANTS
    ImsImage, ImsKey, ImsRecipe,    \* ids of records of each kind
    ImsJob,
    ImsSystems,     \* [live, deleted, jobs, s3]: what IMS and S3 may hold at first
    ImsExports,     \* [live, s3, links]: what an export may hold
    ImsFaults,      \* may requests fail?
    MaxImsRuns, MaxImsEdits

ImsId == ImsImage \cup ImsKey \cup ImsRecipe
Kinds == <<"image", "public key", "recipe">>
KindIds == <<ImsImage, ImsKey, ImsRecipe>>
HasArtifact == ImsImage \cup ImsRecipe      \* public keys have none

NoRecord == "no record"
NoS3     == {"no artifacts"}    \* the export was made without artifacts
Table == [ImsId -> {NoRecord, "system", "imported", "user"}]
NoTable == [i \in ImsId |-> NoRecord]
Ids(table) == {i \in ImsId : table[i] # NoRecord}

ASSUME ImsAssumption ==
    /\ ImsImage \cap ImsKey = {} /\ ImsImage \cap ImsRecipe = {} /\ ImsKey \cap ImsRecipe = {}
    /\ \A sys \in ImsSystems :
        /\ sys.live \in Table /\ sys.deleted \in Table
        /\ sys.jobs \subseteq ImsJob \X {"running", "success"} /\ sys.s3 \subseteq HasArtifact
    /\ \A data \in ImsExports :
        /\ data.live \in [ImsId -> {NoRecord, "imported"}]
        /\ data.s3 = NoS3 \/ data.s3 \subseteq HasArtifact
        /\ data.links \subseteq HasArtifact
    /\ MaxImsRuns \in Nat /\ MaxImsEdits \in Nat

VARIABLES
    ims,        \* what the server holds: [live, deleted, jobs]
    imsFile,    \* its data files for live records
    s3,         \* the artifacts in S3
    imsExport,  \* the export that is imported
    imsBackup,  \* the last pre-import backup: [live, deleted]
    imsRun,     \* the run
    imsTouched, \* the ids of records that users changed since the run read them
    imsLate,    \* the same, since the backup
    imsEdits, imsRuns

imsVars == <<ims, imsFile, s3, imsExport, imsBackup, imsRun, imsTouched, imsLate,
             imsEdits, imsRuns>>

ImsPlaces == {"idle", "backup", "verify", "delete", "reload", "refresh", "check",
              "plan", "upload", "write", "restart", "rollout", "done", "failed"}
ImsEnded == {"idle", "done", "failed"}
ImportTypes == {"add", "update", "overwrite", "soft_overwrite"}
NothingLoaded == [live |-> NoTable, deleted |-> NoTable, jobs |-> {}]

\* The run: read counts the lists that were read; current is current_ims_data;
\* live is exported_data.ims_data; why says what a run failed of.
ImsNewRun == [at |-> "idle", read |-> 1, type |-> "add", ignore |-> FALSE,
              current |-> NothingLoaded, live |-> NoTable, todo |-> {}, kind |-> 1,
              deletesDone |-> FALSE, cleared |-> FALSE, why |-> "nothing"]

ImsTypeOK ==
    /\ ims.live \in Table /\ ims.deleted \in Table /\ ims.jobs \subseteq ImsJob \X {"running", "success"}
    /\ imsFile \in Table /\ s3 \subseteq HasArtifact
    /\ imsRun.at \in ImsPlaces /\ imsRun.type \in ImportTypes
    /\ imsRun.read \in 1..5 /\ imsRun.kind \in 1..3
    /\ imsRun.live \in Table
    /\ imsRun.at = "upload" => imsRun.todo \subseteq imsExport.s3
    /\ imsRun.why \in {"nothing", "request", "jobs", "export", "users"}
    /\ imsRun.at = "failed" => imsRun.why # "nothing"
    /\ imsEdits \in 0..MaxImsEdits /\ imsRuns \in 0..MaxImsRuns

ImsInit ==
    /\ \E sys \in ImsSystems :
        /\ ims = [live |-> sys.live, deleted |-> sys.deleted, jobs |-> sys.jobs]
        /\ imsFile = sys.live
        /\ s3 = sys.s3
    /\ imsExport \in ImsExports
    /\ imsBackup = NothingLoaded
    /\ imsRun = ImsNewRun
    /\ imsTouched = {} /\ imsLate = {}
    /\ imsEdits = 0 /\ imsRuns = 0

-----------------------------------------------------------------------------
(* Helpers.                                                                *)

ImsDelete == IF ImsFaults THEN DeleteEndings ELSE {"ok"}

ImsGo(p) == [imsRun EXCEPT !.at = p]
ImsFail(why) == [imsRun EXCEPT !.at = "failed", !.why = why]

\* What a run that is not to be blamed fails of, when it meets a record that it
\* did not expect.
Surprise == IF imsLate # {} THEN "users" ELSE "nothing"

\* all_s3_urls: the artifacts of the images and recipes that are imported, and
\* those that BOS, BSS and the product catalog link to.
all_s3_urls == (Ids(imsRun.live) \cap HasArtifact) \cup imsExport.links

\* The server rewrites the data file of a kind after each change of that kind.
Saved(live, k) == [i \in ImsId |-> IF i \in KindIds[k] THEN live[i] ELSE imsFile[i]]
KindOf(i) == CHOOSE k \in 1..3 : i \in KindIds[k]

RunOnly(next) ==
    /\ imsRun' = next
    /\ UNCHANGED <<ims, imsFile, s3, imsExport, imsBackup, imsTouched, imsLate, imsEdits, imsRuns>>

-----------------------------------------------------------------------------
(* Reading and checking.                                                   *)

ImsStart(type, ignore) ==
    /\ imsRun.at \in ImsEnded /\ imsRuns < MaxImsRuns
    /\ imsRuns' = imsRuns + 1
    /\ imsRun' = [ImsNewRun EXCEPT !.at = "backup", !.type = type, !.ignore = ignore,
                                   !.live = imsExport.live]
    /\ UNCHANGED <<ims, imsFile, s3, imsExport, imsBackup, imsTouched, imsLate, imsEdits>>

\* Is the job running, in a list of jobs?
get_running_jobs(jobs) == {j \in jobs : j[2] = "running"}

\* ImsData.load_from_system: jobs, the three kinds, the deleted records.  What was
\* changed before a list is read is known to the run.
Loaded(k) ==
    CASE k = 1 -> [imsRun.current EXCEPT !.jobs = ims.jobs]
      [] k = 5 -> [imsRun.current EXCEPT !.deleted = ims.deleted]
      [] OTHER -> [imsRun.current EXCEPT !.live = [i \in ImsId |->
                      IF i \in KindIds[k - 1] THEN ims.live[i] ELSE @[i]]]
StillTouched(touched, k) ==
    {t \in touched : CASE k = 1 -> TRUE
                       [] k = 5 -> t[1] # "deleted"
                       [] OTHER -> t[1] # "live" \/ t[2] \notin KindIds[k - 1]}

\* The lists that follow the first: at the end the run goes on with `next'.
ReadLists(next) ==
    /\ imsRun' = IF imsRun.read = 5 THEN [next EXCEPT !.read = 1, !.current = Loaded(5)]
                 ELSE [imsRun EXCEPT !.read = @ + 1, !.current = Loaded(imsRun.read)]
    /\ imsTouched' = StillTouched(imsTouched, imsRun.read)
    /\ UNCHANGED <<ims, imsFile, s3, imsExport, imsEdits, imsRuns>>

\* do_export before the import.  An `add' import drops what is there already.
pre_import_backup ==
    /\ imsRun.at = "backup"
    /\ IF imsRun.read = 1 /\ ~imsRun.ignore /\ get_running_jobs(ims.jobs) # {}
       THEN RunOnly(ImsFail("jobs"))
       ELSE /\ ReadLists(ImsGo("verify"))
            /\ imsBackup' = imsRun'.current
            /\ imsLate' = StillTouched(imsLate, imsRun.read)

remove_ids(table, ids) == [i \in ImsId |-> IF i \in ids THEN NoRecord ELSE table[i]]

ToImport ==
    IF imsRun.type = "add" THEN remove_ids(imsRun.live, Ids(imsRun.current.live))
    ELSE imsRun.live

\* Mutant: `update' leaves the deleted records alone.
UpdateKeepsDeleted ==
    LET live == Ids(imsRun.current.live)
        gone == Ids(imsRun.current.deleted)
        new  == Ids(imsRun.live)
        jobs == {<<"job", j[1]>> : j \in imsRun.current.jobs}
    IN  CASE imsRun.type \in {"add", "update"} -> {}
          [] imsRun.type = "overwrite" ->
                ({"deleted"} \X gone) \cup ({"hard"} \X live) \cup jobs
          [] imsRun.type = "soft_overwrite" ->
                ({"deleted"} \X (gone \cap new)) \cup ({"hard"} \X (live \cap new))
                \cup ({"soft"} \X (live \ new)) \cup jobs

\* What an import of each type deletes, from the copy that was read: <<how, id>>.
Deletions ==
    LET live == Ids(imsRun.current.live)
        gone == Ids(imsRun.current.deleted)
        new  == Ids(imsRun.live)
        jobs == {<<"job", j[1]>> : j \in imsRun.current.jobs}
    IN  CASE imsRun.type = "add" -> {}
          [] imsRun.type = "update" -> {"deleted"} \X (gone \cap new)
          [] imsRun.type = "overwrite" ->
                ({"deleted"} \X gone) \cup ({"hard"} \X live) \cup jobs
          [] imsRun.type = "soft_overwrite" ->
                ({"deleted"} \X (gone \cap new)) \cup ({"hard"} \X (live \cap new))
                \cup ({"soft"} \X (live \ new)) \cup jobs

\* Without artifacts in the export there is "nothing to do".
verify_artifact_files_exist ==
    /\ imsRun.at = "verify"
    /\ LET run == [ImsGo("delete") EXCEPT !.live = ToImport, !.todo = Deletions]
           urls == (Ids(ToImport) \cap HasArtifact) \cup imsExport.links
       IN  RunOnly(IF imsExport.s3 # NoS3 /\ ~ urls \subseteq imsExport.s3
                   THEN ImsFail("export") ELSE run)

-----------------------------------------------------------------------------
(* Deleting, kind after kind: deleted records, then the others, then jobs. *)

Rank(d) ==
    IF d[1] = "job" THEN 7 ELSE 2 * KindOf(d[2]) - (IF d[1] = "deleted" THEN 1 ELSE 0)

\* External: what IMS does.  A hard delete of a record whose artifact is listed
\* removes the artifact; a soft delete renames it.
Deleted(d) ==
    CASE d[1] = "job" -> [ims EXCEPT !.jobs = {j \in @ : j[1] # d[2]}]
      [] d[1] = "deleted" -> [ims EXCEPT !.deleted[d[2]] = NoRecord]
      [] d[1] = "hard" -> [ims EXCEPT !.live[d[2]] = NoRecord]
      [] d[1] = "soft" -> [ims EXCEPT !.live[d[2]] = NoRecord, !.deleted[d[2]] = ims.live[d[2]]]
ArtifactsAfter(d) == IF d[1] \in {"hard", "soft"} THEN s3 \ {d[2]} ELSE s3

\* Another answer than 204 fails the run.
Found(d) ==
    CASE d[1] = "job" -> \E j \in ims.jobs : j[1] = d[2]
      [] d[1] = "deleted" -> ims.deleted[d[2]] # NoRecord
      [] OTHER -> ims.live[d[2]] # NoRecord

\* After the last deletion: `update' reads IMS again if there were deletions of
\* images only (the later kinds reset deletes_done), the overwriting types always.
AfterDeletions ==
    CASE imsRun.type = "add" -> ImsGo("plan")
      [] imsRun.type = "update" -> ImsGo(IF imsRun.deletesDone THEN "refresh" ELSE "plan")
      [] OTHER -> ImsGo("reload")

delete_resources ==
    /\ imsRun.at = "delete"
    /\ IF imsRun.todo = {} THEN RunOnly(AfterDeletions)
       ELSE \E d \in imsRun.todo :
            /\ \A other \in imsRun.todo : Rank(d) <= Rank(other)
            /\ IF ~Found(d) THEN RunOnly(ImsFail(Surprise))
               ELSE \E e \in ImsDelete :
                    /\ IF e = "failed" THEN UNCHANGED <<ims, imsFile, s3>>
                       ELSE /\ ims' = Deleted(d)
                            /\ imsFile' = IF d[1] \in {"hard", "soft"}
                                          THEN Saved(Deleted(d).live, KindOf(d[2])) ELSE imsFile
                            /\ s3' = ArtifactsAfter(d)
                    /\ imsRun' =
                         LET run == [imsRun EXCEPT !.todo = @ \ {d}, !.cleared = TRUE,
                                        !.deletesDone = d[2] \in ImsImage]
                         IN  IF e = "ok" THEN run
                             ELSE [run EXCEPT !.at = "failed", !.why = "request"]
                    /\ UNCHANGED <<imsExport, imsBackup, imsTouched, imsLate, imsEdits, imsRuns>>

reload ==
    /\ imsRun.at \in {"reload", "refresh"}
    /\ ReadLists(ImsGo(IF imsRun.at = "reload" THEN "check" ELSE "plan"))
    /\ UNCHANGED <<imsBackup, imsLate>>

\* "still exist even after deleting them all".
check_cleared ==
    /\ imsRun.at = "check"
    /\ RunOnly(IF \/ Ids(imsRun.current.live) # {} \/ imsRun.current.jobs # {}
                  \/ imsRun.type = "overwrite" /\ Ids(imsRun.current.deleted) # {}
               THEN ImsFail(Surprise) ELSE ImsGo("plan"))

-----------------------------------------------------------------------------
(* do_import.                                                              *)

\* Artifacts to upload, by the listing of the buckets at that time.
MissingArtifacts == all_s3_urls \ s3

\* The properties s3_data and artifacts are looked into for every link to a
\* manifest, and for every artifact that is not in S3.
NeedsS3Data == (all_s3_urls \ ImsRecipe) \cup MissingArtifacts # {}

update_s3 ==
    /\ imsRun.at = "plan"
    /\ RunOnly(IF imsExport.s3 = NoS3 /\ NeedsS3Data THEN ImsFail("export")
               ELSE [ImsGo("upload") EXCEPT !.todo = MissingArtifacts])

\* create_s3_artifacts: see S3TransferPool.
upload ==
    /\ imsRun.at = "upload"
    /\ \/ /\ imsRun.todo = {}
          /\ RunOnly(IF Ids(imsRun.live) = {} THEN ImsGo("done")
                     ELSE [ImsGo("write") EXCEPT !.kind = 1])
       \/ \E a \in imsRun.todo :
            /\ s3' = s3 \cup {a}
            /\ imsRun' = [imsRun EXCEPT !.todo = @ \ {a}]
            /\ UNCHANGED <<ims, imsFile, imsExport, imsBackup, imsTouched, imsLate, imsEdits, imsRuns>>
       \/ ImsFaults /\ imsRun.todo # {} /\ RunOnly(ImsFail("request"))

\* Mutant: the files hold the exported records only.
OnlyExportedData(kind) ==
    [i \in ImsId |-> IF i \notin kind THEN imsFile[i] ELSE imsRun.live[i]]

update_with_exported_data(kind) ==
    [i \in ImsId |-> IF i \notin kind THEN imsFile[i]
                     ELSE IF imsRun.live[i] # NoRecord THEN imsRun.live[i]
                     ELSE imsRun.current.live[i]]

\* update_ims_data_files.py in the pod: one file after another.  When the command
\* fails or takes too long it is executed again, from the first file.
write_data_files ==
    /\ imsRun.at = "write"
    /\ \/ /\ imsFile' = update_with_exported_data(KindIds[imsRun.kind])
          /\ imsRun' = IF imsRun.kind = 3 THEN ImsGo("restart") ELSE [imsRun EXCEPT !.kind = @ + 1]
          /\ UNCHANGED <<ims, s3, imsExport, imsBackup, imsTouched, imsLate, imsEdits, imsRuns>>
       \/ ImsFaults /\ RunOnly([imsRun EXCEPT !.kind = 1])
       \/ ImsFaults /\ RunOnly(ImsFail("request"))

rollout_restart ==
    /\ imsRun.at = "restart"
    /\ \/ RunOnly(ImsGo("rollout"))
       \/ ImsFaults /\ RunOnly(ImsFail("request"))

\* External: a server that starts reads its data files.
ServerStarts ==
    /\ ims' = [ims EXCEPT !.live = imsFile]
    /\ UNCHANGED <<imsFile, s3, imsExport, imsBackup, imsEdits, imsRuns>>

rollout_status ==
    /\ imsRun.at = "rollout"
    /\ imsRun' = ImsGo("done")
    /\ ServerStarts
    /\ UNCHANGED <<imsTouched, imsLate>>

ImsScript ==
    \/ pre_import_backup \/ verify_artifact_files_exist \/ delete_resources \/ reload
    \/ check_cleared \/ update_s3 \/ upload \/ write_data_files
    \/ rollout_restart \/ rollout_status

-----------------------------------------------------------------------------
(* External: users and jobs, and the pod.                                  *)

ImsUser(i) ==
    /\ imsEdits < MaxImsEdits
    /\ imsEdits' = imsEdits + 1
    /\ imsTouched' = imsTouched \cup ({"live", "deleted"} \X {i})
    /\ imsLate' = imsLate \cup ({"live", "deleted"} \X {i})
    /\ imsFile' = Saved(ims'.live, KindOf(i))
    /\ UNCHANGED <<imsExport, imsBackup, imsRun, imsRuns>>

\* A user or a job creates a record.
ImsCreated(i) ==
    /\ ims.live[i] = NoRecord /\ ims.deleted[i] = NoRecord
    /\ ims' = [ims EXCEPT !.live[i] = "user"]
    /\ s3' = s3 \cup ({i} \cap HasArtifact)
    /\ ImsUser(i)

ImsSoftDeleted(i) ==
    /\ ims.live[i] # NoRecord
    /\ ims' = [ims EXCEPT !.live[i] = NoRecord, !.deleted[i] = ims.live[i]]
    /\ s3' = s3 \ {i}
    /\ ImsUser(i)

\* The pod is moved; IMS then holds what an import had written that failed before
\* its restart.
ServerRestarts ==
    LET changed == {"live"} \X {i \in ImsId : imsFile[i] # ims.live[i]}
    IN  /\ changed # {}
        /\ ServerStarts
        /\ imsTouched' = imsTouched \cup changed
        /\ imsLate' = imsLate \cup changed
        /\ UNCHANGED imsRun

ImsUsers == \E i \in ImsId : ImsCreated(i) \/ ImsSoftDeleted(i)

ImsNext ==
    \/ \E type \in ImportTypes, ignore \in BOOLEAN : ImsStart(type, ignore)
    \/ ImsScript
    \/ ImsUsers
    \/ ServerRestarts

ImsSpec == ImsInit /\ [][ImsNext]_imsVars

-----------------------------------------------------------------------------
(* Properties.                                                             *)

\* After an import that reports success, every exported record that was not
\* there before is what was exported, whatever earlier runs left in the files of
\* IMS, unless users changed records of that kind meanwhile.
ImsImportIsComplete ==
    imsRun.at = "done" =>
        \A i \in Ids(imsExport.live) :
            \/ ims.live[i] = "imported"
            \/ imsRun.type = "add" /\ ims.live[i] = imsRun.current.live[i]
            \/ \E t \in imsLate : t[2] \in KindIds[KindOf(i)]

\* ... and its artifact is in S3, also when the deletions of the same run removed it.
ArtifactsAreThere ==
    imsRun.at = "done" =>
        \A i \in Ids(imsRun.live) \cap HasArtifact :
            i \in s3 \/ <<"live", i>> \in imsLate

\* delete_deleted_resources promises "to prevent them from existing in both the
\* regular resource list and deleted resource list, after the import".
InOneListOnly(i) == ims.deleted[i] = NoRecord \/ <<"deleted", i>> \in imsLate

\* After an import no imported record is also in the list of deleted ones.  An `add'
\* does not keep the promise: add_ims_data says that it is "just calling
\* update_ims_data", but calls do_import, so that what was in the list of deleted
\* records when the run read IMS, and only that, stays there.
NotAlsoDeleted ==
    imsRun.at = "done" =>
        \A i \in Ids(imsRun.live) :
            \/ InOneListOnly(i)
            \/ imsRun.type = "add" /\ imsRun.current.deleted[i] # NoRecord

\* What an import of IMS brought in has its artifact in S3; and it is in one of the
\* tables of IMS only, unless an `add' brought back a record that was among the
\* deleted ones: that is in both.
ArtifactsStay == ArtifactsAreThere /\ NotAlsoDeleted

\* What a run deletes or replaces is in the backup it made before, as it was.
DeletedIsBackedUp ==
    [][ImsScript =>
        \A i \in ImsId :
            /\ ims.live[i] # NoRecord /\ ims'.live[i] # ims.live[i] =>
                 imsBackup.live[i] = ims.live[i] \/ <<"live", i>> \in imsLate
            /\ ims.deleted[i] # NoRecord /\ ims'.deleted[i] # ims.deleted[i] =>
                 imsBackup.deleted[i] = ims.deleted[i] \/ <<"deleted", i>> \in imsLate]_imsVars

\* Imports other than `overwrite' lose no record that is not imported: it stays,
\* or is among the deleted ones, unless it came after the run had read IMS.
OthersAreKept ==
    [][ImsScript /\ imsRun.type # "overwrite" =>
        \A i \in ImsId \ Ids(imsExport.live) :
            ims.live[i] # NoRecord =>
                ims.live[i] \in {ims'.live[i], ims'.deleted[i]}
                \/ <<"live", i>> \in imsTouched]_imsVars

\* The comment in import_ims_data.py: checks come up front, "because if it doesn't
\* work, we'd rather know that before we clear anything in IMS/S3".
KnownBeforeClearing == imsRun.why = "export" => ~imsRun.cleared
=============================================================================
