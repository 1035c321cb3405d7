--------------------------- MODULE ImsImportProofs ---------------------------
(***************************************************************************)
(* Proofs about ImsImport: for any records, any contents of IMS, S3 and    *)
(* the export, the four types of import, failing requests and any number   *)
(* of runs, of changes by users and of restarts of the server, an import   *)
(* that succeeds is complete, its artifacts are in S3, what it deletes was *)
(* backed up, and what is not imported is kept.                            *)
(***************************************************************************)
EXTENDS ImsImport, TLAPS

JobRecord == ImsJob \X {"running", "success"}
Data == [live : Table, deleted : Table, jobs : SUBSET JobRecord]
Deletion == ({"job"} \X ImsJob) \cup ({"deleted", "hard", "soft"} \X ImsId)
Why == {"nothing", "request", "jobs", "export", "users"}

ImsRunRecord == [at : ImsPlaces, read : 1..5, type : ImportTypes, ignore : BOOLEAN,
              current : Data, live : Table, todo : SUBSET (Deletion \cup HasArtifact),
              kind : 1..3, deletesDone : BOOLEAN, cleared : BOOLEAN, why : Why]
Entry == {"live", "deleted"} \X ImsId

ImsTyped ==
    /\ ims \in Data /\ imsFile \in Table /\ s3 \subseteq HasArtifact
    /\ imsExport.live \in [ImsId -> {NoRecord, "imported"}]
    /\ imsExport.s3 = NoS3 \/ imsExport.s3 \subseteq HasArtifact
    /\ imsExport.links \subseteq HasArtifact
    /\ imsBackup \in Data /\ imsRun \in ImsRunRecord
    /\ imsTouched \subseteq Entry /\ imsLate \subseteq Entry
    /\ imsEdits \in 0..MaxImsEdits /\ imsRuns \in 0..MaxImsRuns

-----------------------------------------------------------------------------
(* The inductive invariant.                                                *)

\* Who else changed a record, since the backup and since the run read it last.
Late(i) == <<"live", i>> \in imsLate
LateDeleted(i) == <<"deleted", i>> \in imsLate
ImsTouched(i) == <<"live", i>> \in imsTouched
LateKind(i) == \E t \in imsLate : t[2] \in KindIds[KindOf(i)]

RunAt(places) == imsRun.at \in places
Overwrites == imsRun.type \in {"overwrite", "soft_overwrite"}
\* The lists of the kinds are the second to the fourth.
HasRead(i) == KindOf(i) + 1 < imsRun.read

Importing == {"plan", "upload", "write", "restart", "rollout"}
AfterDelete == {"reload", "refresh", "check"} \cup Importing

\* What is taken for changed by others since the last reading, was since the backup.
TouchedIsLate == imsTouched \subseteq imsLate

\* What the run is about to import: its export, without what an `add' found.
LiveIsExport ==
    /\ RunAt({"backup", "verify"}) => imsRun.live = imsExport.live
    /\ RunAt({"delete", "done"} \cup AfterDelete) =>
        \A i \in ImsId : \/ imsRun.live[i] = imsExport.live[i]
                         \/ /\ imsRun.type = "add" /\ imsRun.live[i] = NoRecord
                            /\ imsRun.current.live[i] # NoRecord
    /\ imsRun.type # "add" /\ RunAt({"delete", "done"} \cup AfterDelete) => imsRun.live = imsExport.live

\* An import reads IMS again only in the way of its type, and from the first list.
PlacesOfType ==
    /\ RunAt({"verify", "delete"}) => imsRun.read = 1
    /\ RunAt({"reload", "check"}) => Overwrites
    /\ RunAt({"refresh"}) => imsRun.type = "update"

\* The copy and the backup are what IMS has, but for what others changed, until
\* the deletions begin.
ReadIsCurrent ==
    /\ RunAt({"backup"}) =>
        /\ imsRun.read > 1 => /\ imsRun.current.jobs = ims.jobs /\ imsBackup = imsRun.current
        /\ \A i \in ImsId : HasRead(i) =>
              imsRun.current.live[i] = ims.live[i] \/ ImsTouched(i)
    /\ RunAt({"verify"}) =>
        /\ imsRun.current.jobs = ims.jobs
        /\ \A i \in ImsId : imsRun.current.deleted[i] = ims.deleted[i] \/ LateDeleted(i)
    /\ RunAt({"verify", "delete"}) => imsBackup = imsRun.current
    /\ RunAt({"verify", "check"} \cup Importing) =>
        \A i \in ImsId : imsRun.current.live[i] = ims.live[i] \/ ImsTouched(i)
    /\ RunAt({"reload"}) =>
        \A i \in ImsId : HasRead(i) => imsRun.current.live[i] = ims.live[i] \/ ImsTouched(i)
    /\ RunAt({"delete", "refresh"}) /\ ~Overwrites =>
        \A i \in ImsId : imsRun.current.live[i] = ims.live[i] \/ ImsTouched(i)

\* What is on the list of deletions is there, as it was read, and was backed up.
DeletionsAreFound ==
    RunAt({"delete"}) =>
        /\ imsRun.todo \subseteq Deletion
        /\ \A j \in ImsJob : <<"job", j>> \in imsRun.todo => \E x \in ims.jobs : x[1] = j
        /\ \A i \in ImsId :
            /\ {<<"hard", i>>, <<"soft", i>>} \cap imsRun.todo # {} =>
                 /\ Overwrites /\ imsRun.current.live[i] # NoRecord
                 /\ imsRun.current.live[i] = ims.live[i] \/ Late(i)
            /\ <<"deleted", i>> \in imsRun.todo =>
                 /\ imsRun.current.deleted[i] # NoRecord
                 /\ imsRun.current.deleted[i] = ims.deleted[i] \/ LateDeleted(i)
                 /\ <<"soft", i>> \notin imsRun.todo
            /\ <<"hard", i>> \in imsRun.todo =>
                 /\ <<"soft", i>> \notin imsRun.todo
                 /\ imsRun.type = "overwrite" \/ i \in Ids(imsRun.live)
            /\ <<"soft", i>> \in imsRun.todo =>
                 /\ imsRun.type = "soft_overwrite" /\ i \notin Ids(imsRun.live)
                 /\ imsRun.current.deleted[i] = ims.deleted[i] \/ LateDeleted(i)

\* What is not on the list is gone, where the type of import deletes it; what an
\* `add' did not read as deleted is not deleted.
RestIsGone ==
    RunAt({"delete"} \cup AfterDelete) =>
        LET todo == IF RunAt({"delete"}) THEN imsRun.todo ELSE {}
        IN  /\ Overwrites /\ RunAt({"delete", "reload", "check"}) =>
                 /\ \A x \in ims.jobs : <<"job", x[1]>> \in todo
                 /\ \A i \in ImsId : {<<"hard", i>>, <<"soft", i>>} \cap todo = {} =>
                       ims.live[i] = NoRecord \/ Late(i)
            /\ imsRun.type # "add" =>
                 \A i \in ImsId :
                    /\ imsRun.type = "overwrite" \/ i \in Ids(imsRun.live)
                    /\ <<"deleted", i>> \notin todo
                    => ims.deleted[i] = NoRecord \/ LateDeleted(i)
            /\ imsRun.type = "add" =>
                 \A i \in ImsId : \/ ims.deleted[i] = NoRecord \/ LateDeleted(i)
                                  \/ imsRun.current.deleted[i] # NoRecord

\* While an import that overwrites reads IMS again, it finds what others created.
NothingIsLeft ==
    RunAt({"reload", "check"}) =>
        /\ (imsRun.read > 1 \/ RunAt({"check"})) => imsRun.current.jobs = {}
        /\ \A i \in ImsId : (HasRead(i) \/ RunAt({"check"})) =>
              imsRun.current.live[i] = NoRecord \/ Late(i)
        /\ imsRun.type = "overwrite" /\ RunAt({"check"}) =>
              \A i \in ImsId : imsRun.current.deleted[i] = NoRecord \/ LateDeleted(i)

\* IMS holds nothing but what was backed up, and what others created.
BackedUp ==
    RunAt({"verify", "delete"} \cup AfterDelete) =>
        \A i \in ImsId : ims.live[i] \in {NoRecord, imsBackup.live[i]} \/ Late(i)

\* The artifacts that are needed are in the export, if it has any; they are in S3
\* or still to be uploaded.
ArtifactsFollow ==
    /\ RunAt({"delete"} \cup AfterDelete) =>
         imsExport.s3 = NoS3 \/ all_s3_urls \subseteq imsExport.s3
    /\ RunAt({"upload"}) => /\ imsRun.todo \subseteq HasArtifact
                         /\ imsRun.todo \subseteq imsExport.s3
    /\ RunAt({"upload", "write", "restart", "rollout", "done"}) =>
         \A i \in Ids(imsRun.live) \cap HasArtifact :
            \/ i \in s3 \/ Late(i)
            \/ RunAt({"upload"}) /\ i \in imsRun.todo

\* The data files of the kinds that were written hold the import and what the run
\* read besides, unless others changed records of that kind.
FilesAreWritten ==
    RunAt({"write", "restart", "rollout"}) =>
        \A i \in ImsId : (RunAt({"write"}) => KindOf(i) < imsRun.kind) =>
            /\ imsRun.live[i] # NoRecord => imsFile[i] = imsRun.live[i] \/ LateKind(i)
            /\ imsRun.live[i] = NoRecord =>
                 /\ imsFile[i] = imsRun.current.live[i] \/ LateKind(i)
                 /\ imsFile[i] = ims.live[i] \/ ImsTouched(i)

\* A run that failed did so for a reason.
FailedForAReason == RunAt({"failed"}) => imsRun.why # "nothing"

ImsIInv == /\ ImsTyped /\ TouchedIsLate /\ LiveIsExport /\ PlacesOfType
        /\ ReadIsCurrent /\ DeletionsAreFound /\ RestIsGone /\ NothingIsLeft
        /\ BackedUp /\ ArtifactsFollow /\ FilesAreWritten /\ FailedForAReason
        /\ ImsImportIsComplete /\ NotAlsoDeleted

-----------------------------------------------------------------------------
(* Operators.                                                              *)

LEMMA KindFacts ==
    \A i \in ImsId : /\ KindOf(i) \in 1..3 /\ i \in KindIds[KindOf(i)]
                     /\ \A k \in 1..3 : i \in KindIds[k] <=> k = KindOf(i)
<1>. SUFFICES ASSUME NEW i \in ImsId
              PROVE  /\ KindOf(i) \in 1..3 /\ i \in KindIds[KindOf(i)]
                     /\ \A k \in 1..3 : i \in KindIds[k] <=> k = KindOf(i)
  OBVIOUS
<1>1. KindIds[1] = ImsImage /\ KindIds[2] = ImsKey /\ KindIds[3] = ImsRecipe
  BY DEF KindIds
<1>2. \E k \in 1..3 : i \in KindIds[k]
  BY <1>1 DEF ImsId
<1>3. KindOf(i) \in 1..3 /\ i \in KindIds[KindOf(i)]
  BY <1>2 DEF KindOf
<1>4. \A k, l \in 1..3 : i \in KindIds[k] /\ i \in KindIds[l] => k = l
  BY <1>1, ImsAssumption
<1>. QED BY <1>3, <1>4

LEMMA KindIdsAreIds == \A k \in 1..3 : KindIds[k] \subseteq ImsId
BY DEF KindIds, ImsId

\* The run at another place; what else it knows is as it was.
LEMMA GoFacts ==
    ASSUME imsRun \in ImsRunRecord, NEW p \in ImsPlaces
    PROVE  /\ ImsGo(p) \in ImsRunRecord /\ ImsGo(p).at = p
           /\ ImsGo(p).read = imsRun.read /\ ImsGo(p).type = imsRun.type
           /\ ImsGo(p).current = imsRun.current /\ ImsGo(p).live = imsRun.live
           /\ ImsGo(p).todo = imsRun.todo /\ ImsGo(p).kind = imsRun.kind
           /\ ImsGo(p).cleared = imsRun.cleared /\ ImsGo(p).why = imsRun.why
BY DEF ImsGo, ImsRunRecord

LEMMA FailFacts ==
    ASSUME imsRun \in ImsRunRecord, NEW why \in Why
    PROVE  /\ ImsFail(why) \in ImsRunRecord /\ ImsFail(why).at = "failed" /\ ImsFail(why).why = why
           /\ ImsFail(why).type = imsRun.type
BY DEF ImsFail, ImsRunRecord, ImsPlaces

LEMMA LoadedFacts ==
    ASSUME ImsTyped
    PROVE  LET k == imsRun.read
           IN  /\ Loaded(k) \in Data
               /\ Loaded(k).jobs = IF k = 1 THEN ims.jobs ELSE imsRun.current.jobs
               /\ Loaded(k).deleted = IF k = 5 THEN ims.deleted ELSE imsRun.current.deleted
               /\ \A i \in ImsId : Loaded(k).live[i] = IF KindOf(i) + 1 = k THEN ims.live[i]
                                                       ELSE imsRun.current.live[i]
<1>. DEFINE k == imsRun.read
<1>1. k \in 1..5 /\ imsRun.current \in Data /\ ims \in Data
  BY DEF ImsTyped, ImsRunRecord
<1>2. CASE k = 1
  <2>1. Loaded(k) = [imsRun.current EXCEPT !.jobs = ims.jobs]
    BY <1>2 DEF Loaded
  <2>. QED BY <1>1, <1>2, <2>1, KindFacts DEF Data
<1>3. CASE k = 5
  <2>1. Loaded(k) = [imsRun.current EXCEPT !.deleted = ims.deleted]
    BY <1>3 DEF Loaded
  <2>. QED BY <1>1, <1>3, <2>1, KindFacts DEF Data
<1>4. CASE k \in 2..4
  <2>. DEFINE table == [i \in ImsId |-> IF i \in KindIds[k - 1] THEN ims.live[i]
                                        ELSE imsRun.current.live[i]]
  <2>1. Loaded(k) = [imsRun.current EXCEPT !.live = table]
    BY <1>4 DEF Loaded
  <2>2. table \in Table
    BY <1>1 DEF Data, Table
  <2>3. \A i \in ImsId : table[i] = IF KindOf(i) + 1 = k THEN ims.live[i] ELSE imsRun.current.live[i]
    BY <1>4, KindFacts
  <2>. HIDE DEF table
  <2>. QED BY <1>1, <1>4, <2>1, <2>2, <2>3 DEF Data
<1>. QED BY <1>1, <1>2, <1>3, <1>4

LEMMA StillTouchedFacts ==
    ASSUME NEW touched \in SUBSET Entry, NEW k \in 1..5
    PROVE  /\ StillTouched(touched, k) \subseteq touched
           /\ \A i \in ImsId :
                /\ <<"live", i>> \in StillTouched(touched, k) <=>
                     <<"live", i>> \in touched /\ KindOf(i) + 1 # k
                /\ <<"deleted", i>> \in StillTouched(touched, k) <=>
                     <<"deleted", i>> \in touched /\ k # 5
<1>1. CASE k = 1
  BY <1>1, KindFacts DEF StillTouched
<1>2. CASE k = 5
  BY <1>2, KindFacts DEF StillTouched
<1>3. CASE k \in 2..4
  <2>1. StillTouched(touched, k) = {t \in touched : t[1] # "live" \/ t[2] \notin KindIds[k - 1]}
    BY <1>3 DEF StillTouched
  <2>2. \A i \in ImsId : i \in KindIds[k - 1] <=> KindOf(i) + 1 = k
    BY <1>3, KindFacts
  <2>. QED BY <1>3, <2>1, <2>2
<1>. QED BY <1>1, <1>2, <1>3

\* What others do is done since the last reading only if since the backup.
LEMMA StillTouchedMonotone ==
    ASSUME NEW touched, NEW late, touched \subseteq late, NEW k
    PROVE  StillTouched(touched, k) \subseteq StillTouched(late, k)
BY DEF StillTouched

\* Reading one list.
LEMMA ReadFacts ==
    ASSUME ImsTyped, NEW p \in ImsPlaces, ReadLists(ImsGo(p))
    PROVE  /\ imsRun' \in ImsRunRecord
           /\ imsRun'.type = imsRun.type /\ imsRun'.live = imsRun.live /\ imsRun'.why = imsRun.why
           /\ imsRun.read = 5 => imsRun'.at = p /\ imsRun'.read = 1
           /\ imsRun.read # 5 => imsRun'.at = imsRun.at /\ imsRun'.read = imsRun.read + 1
           /\ imsRun'.current.jobs = IF imsRun.read = 1 THEN ims.jobs ELSE imsRun.current.jobs
           /\ imsRun'.current.deleted = IF imsRun.read = 5 THEN ims.deleted ELSE imsRun.current.deleted
           /\ \A i \in ImsId : imsRun'.current.live[i] =
                 IF KindOf(i) + 1 = imsRun.read THEN ims.live[i] ELSE imsRun.current.live[i]
           /\ imsTouched' \subseteq imsTouched
           /\ \A i \in ImsId : <<"live", i>> \in imsTouched' <=>
                 <<"live", i>> \in imsTouched /\ KindOf(i) + 1 # imsRun.read
           /\ UNCHANGED <<ims, imsFile, s3, imsExport, imsEdits, imsRuns>>
<1>1. imsRun \in ImsRunRecord /\ imsRun.read \in 1..5 /\ imsRun.at \in ImsPlaces
  BY DEF ImsTyped, ImsRunRecord
<1>2. imsRun'.current = Loaded(imsRun.read) /\ imsRun' \in ImsRunRecord
       /\ imsRun'.type = imsRun.type /\ imsRun'.live = imsRun.live /\ imsRun'.why = imsRun.why
       /\ (imsRun.read = 5 => imsRun'.at = p /\ imsRun'.read = 1)
       /\ (imsRun.read # 5 => imsRun'.at = imsRun.at /\ imsRun'.read = imsRun.read + 1)
  <2>1. CASE imsRun.read = 5
    <3>1. imsRun' = [ImsGo(p) EXCEPT !.read = 1, !.current = Loaded(5)]
      BY <2>1 DEF ReadLists
    <3>2. Loaded(imsRun.read) \in Data /\ Loaded(5) = Loaded(imsRun.read)
      BY <2>1, LoadedFacts
    <3>. DEFINE go == ImsGo(p)
    <3>3. go \in ImsRunRecord /\ go.at = p /\ go.type = imsRun.type /\ go.live = imsRun.live
           /\ go.why = imsRun.why
      BY <1>1, GoFacts
    <3>4. imsRun' = [go EXCEPT !.read = 1, !.current = Loaded(imsRun.read)]
      BY <3>1, <3>2
    <3>. HIDE DEF go
    <3>5. 1 \in 1..5
      OBVIOUS
    <3>. QED BY <2>1, <3>2, <3>3, <3>4, <3>5 DEF ImsRunRecord
  <2>2. CASE imsRun.read # 5
    <3>1. imsRun' = [imsRun EXCEPT !.read = imsRun.read + 1, !.current = Loaded(imsRun.read)]
      BY <2>2 DEF ReadLists
    <3>2. imsRun.read + 1 \in 1..5 /\ Loaded(imsRun.read) \in Data
      BY <1>1, <2>2, LoadedFacts
    <3>. QED BY <1>1, <2>2, <3>1, <3>2 DEF ImsRunRecord
  <2>. QED BY <2>1, <2>2
<1>3. imsTouched' = StillTouched(imsTouched, imsRun.read)
       /\ UNCHANGED <<ims, imsFile, s3, imsExport, imsEdits, imsRuns>>
  BY DEF ReadLists
<1>4. imsTouched \in SUBSET Entry
  BY DEF ImsTyped
<1>5. /\ imsTouched' \subseteq imsTouched
      /\ \A i \in ImsId : <<"live", i>> \in imsTouched' <=>
                 <<"live", i>> \in imsTouched /\ KindOf(i) + 1 # imsRun.read
  BY <1>1, <1>3, <1>4, StillTouchedFacts
<1>6. /\ imsRun'.current.jobs = IF imsRun.read = 1 THEN ims.jobs ELSE imsRun.current.jobs
      /\ imsRun'.current.deleted = IF imsRun.read = 5 THEN ims.deleted ELSE imsRun.current.deleted
      /\ \A i \in ImsId : imsRun'.current.live[i] =
            IF KindOf(i) + 1 = imsRun.read THEN ims.live[i] ELSE imsRun.current.live[i]
  BY <1>2, LoadedFacts
<1>. QED BY <1>2, <1>3, <1>5, <1>6

-----------------------------------------------------------------------------
(* Type correctness.                                                       *)

LEMMA NewRunFacts ==
    /\ ImsNewRun \in ImsRunRecord /\ ImsNewRun.at = "idle" /\ ImsNewRun.read = 1
    /\ ImsNewRun.todo = {} /\ ImsNewRun.why = "nothing"
    /\ NothingLoaded \in Data
<1>1. NoTable \in Table
  BY DEF NoTable, Table
<1>2. NothingLoaded \in Data
  BY <1>1 DEF NothingLoaded, Data
<1>. QED BY <1>1, <1>2 DEF ImsNewRun, ImsRunRecord, ImsPlaces, ImportTypes, Why

LEMMA ImsTypedInit == ImsInit => ImsTyped
<1>. SUFFICES ASSUME ImsInit PROVE ImsTyped
  OBVIOUS
<1>1. PICK sys \in ImsSystems :
        /\ ims = [live |-> sys.live, deleted |-> sys.deleted, jobs |-> sys.jobs]
        /\ imsFile = sys.live /\ s3 = sys.s3
  BY DEF ImsInit
<1>2. ims \in Data /\ imsFile \in Table /\ s3 \subseteq HasArtifact
  BY <1>1, ImsAssumption DEF Data, JobRecord
<1>3. imsExport \in ImsExports
  BY DEF ImsInit
<1>. QED BY <1>2, <1>3, ImsAssumption, NewRunFacts DEF ImsInit, ImsTyped

LEMMA StartFacts ==
    ASSUME ImsTyped, NEW type \in ImportTypes, NEW ignore \in BOOLEAN, ImsStart(type, ignore)
    PROVE  /\ imsRun' \in ImsRunRecord /\ imsRun'.at = "backup" /\ imsRun'.read = 1
           /\ imsRun'.live = imsExport.live /\ imsRun'.type = type
           /\ UNCHANGED <<ims, imsFile, s3, imsExport, imsBackup, imsTouched, imsLate, imsEdits>>
           /\ imsRuns < MaxImsRuns /\ imsRuns' = imsRuns + 1
<1>1. imsExport.live \in Table
  BY DEF ImsTyped, Table
<1>. QED BY <1>1, NewRunFacts DEF ImsStart, ImsRunRecord, ImsPlaces

\* The plan of an import: the list of deletions.
LEMMA DeletionsFacts ==
    ASSUME ImsTyped
    PROVE  /\ Deletions \subseteq Deletion
           /\ \A j : <<"job", j>> \in Deletions <=>
                Overwrites /\ \E x \in imsRun.current.jobs : x[1] = j
           /\ \A i : <<"hard", i>> \in Deletions <=>
                /\ Overwrites /\ i \in Ids(imsRun.current.live)
                /\ imsRun.type = "overwrite" \/ i \in Ids(imsRun.live)
           /\ \A i : <<"soft", i>> \in Deletions <=>
                /\ imsRun.type = "soft_overwrite"
                /\ i \in Ids(imsRun.current.live) \ Ids(imsRun.live)
           /\ \A i : <<"deleted", i>> \in Deletions <=>
                /\ imsRun.type # "add" /\ i \in Ids(imsRun.current.deleted)
                /\ imsRun.type = "overwrite" \/ i \in Ids(imsRun.live)
<1>. DEFINE live == Ids(imsRun.current.live)
            gone == Ids(imsRun.current.deleted)
            new  == Ids(imsRun.live)
            jobs == {<<"job", j[1]>> : j \in imsRun.current.jobs}
<1>1. live \subseteq ImsId /\ gone \subseteq ImsId /\ new \subseteq ImsId
  BY DEF Ids
<1>2. \A x \in imsRun.current.jobs : x \in ImsJob \X {"running", "success"} /\ x[1] \in ImsJob
  BY DEF ImsTyped, ImsRunRecord, Data, JobRecord
<1>3. jobs \subseteq {"job"} \X ImsJob
  BY <1>2
<1>4. \A how, i : <<how, i>> \in jobs <=> how = "job" /\ \E x \in imsRun.current.jobs : x[1] = i
  OBVIOUS
<1>5. imsRun.type \in ImportTypes
  BY DEF ImsTyped, ImsRunRecord
<1>6. CASE imsRun.type = "add"
  <2>1. Deletions = {}
    BY <1>6 DEF Deletions
  <2>. QED BY <1>6, <2>1 DEF Overwrites
<1>7. CASE imsRun.type = "update"
  <2>1. Deletions = {"deleted"} \X (gone \cap new)
    BY <1>7 DEF Deletions
  <2>. HIDE DEF live, gone, new, jobs
  <2>2. Deletions \subseteq Deletion
    BY <1>1, <2>1 DEF Deletion
  <2>. QED BY <1>7, <2>1, <2>2 DEF Overwrites, live, gone, new
<1>8. CASE imsRun.type = "overwrite"
  <2>1. Deletions = ({"deleted"} \X gone) \cup ({"hard"} \X live) \cup jobs
    BY <1>8 DEF Deletions
  <2>. HIDE DEF live, gone, new, jobs
  <2>2. Deletions \subseteq Deletion
    BY <1>1, <1>3, <2>1 DEF Deletion
  <2>3. \A how, i : <<how, i>> \in Deletions <=>
            \/ how = "deleted" /\ i \in gone
            \/ how = "hard" /\ i \in live
            \/ <<how, i>> \in jobs
    BY <2>1
  <2>. QED BY <1>4, <1>8, <2>2, <2>3 DEF Overwrites, live, gone, new
<1>9. CASE imsRun.type = "soft_overwrite"
  <2>1. Deletions = ({"deleted"} \X (gone \cap new)) \cup ({"hard"} \X (live \cap new))
                    \cup ({"soft"} \X (live \ new)) \cup jobs
    BY <1>9 DEF Deletions
  <2>. HIDE DEF live, gone, new, jobs
  <2>2. Deletions \subseteq Deletion
    BY <1>1, <1>3, <2>1 DEF Deletion
  <2>3. \A how, i : <<how, i>> \in Deletions <=>
            \/ how = "deleted" /\ i \in gone \cap new
            \/ how = "hard" /\ i \in live \cap new
            \/ how = "soft" /\ i \in live \ new
            \/ <<how, i>> \in jobs
    BY <2>1
  <2>. QED BY <1>4, <1>9, <2>2, <2>3 DEF Overwrites, live, gone, new
<1>. QED BY <1>5, <1>6, <1>7, <1>8, <1>9 DEF ImportTypes

\* What one deletion does.
LEMMA DeletedFacts ==
    ASSUME ImsTyped, NEW d \in Deletion
    PROVE  /\ Deleted(d) \in Data
           /\ \A i \in ImsId :
                /\ Deleted(d).live[i] = IF d = <<"hard", i>> \/ d = <<"soft", i>> THEN NoRecord
                                        ELSE ims.live[i]
                /\ Deleted(d).deleted[i] = IF d = <<"soft", i>> THEN ims.live[i]
                                           ELSE IF d = <<"deleted", i>> THEN NoRecord
                                           ELSE ims.deleted[i]
           /\ Deleted(d).jobs = {x \in ims.jobs : d # <<"job", x[1]>>}
<1>1. ims \in Data /\ \A i \in ImsId : ims.live[i] \in {NoRecord, "system", "imported", "user"}
  BY DEF ImsTyped, Data, Table
<1>2. CASE d \in {"job"} \X ImsJob
  <2>1. d = <<"job", d[2]>>
    BY <1>2
  <2>2. Deleted(d) = [ims EXCEPT !.jobs = {j \in ims.jobs : j[1] # d[2]}]
    BY <2>1 DEF Deleted
  <2>3. {j \in ims.jobs : j[1] # d[2]} = {x \in ims.jobs : d # <<"job", x[1]>>}
    BY <2>1
  <2>. QED BY <1>1, <2>1, <2>2, <2>3 DEF Data
<1>4. ASSUME NEW k \in ImsId, d = <<"deleted", k>>
      PROVE  /\ Deleted(d).live = ims.live /\ Deleted(d).jobs = ims.jobs
             /\ Deleted(d).deleted = [ims.deleted EXCEPT ![k] = NoRecord]
             /\ Deleted(d) \in Data
  <2>1. Deleted(d) = [ims EXCEPT !.deleted[k] = NoRecord]
    BY <1>4 DEF Deleted
  <2>. QED BY <1>1, <2>1 DEF Data, Table
<1>5. ASSUME NEW k \in ImsId, d = <<"hard", k>>
      PROVE  /\ Deleted(d).deleted = ims.deleted /\ Deleted(d).jobs = ims.jobs
             /\ Deleted(d).live = [ims.live EXCEPT ![k] = NoRecord]
             /\ Deleted(d) \in Data
  <2>1. Deleted(d) = [ims EXCEPT !.live[k] = NoRecord]
    BY <1>5 DEF Deleted
  <2>. QED BY <1>1, <2>1 DEF Data, Table
<1>6. ASSUME NEW k \in ImsId, d = <<"soft", k>>
      PROVE  /\ Deleted(d).jobs = ims.jobs
             /\ Deleted(d).live = [ims.live EXCEPT ![k] = NoRecord]
             /\ Deleted(d).deleted = [ims.deleted EXCEPT ![k] = ims.live[k]]
             /\ Deleted(d) \in Data
  <2>1. Deleted(d) = [ims EXCEPT !.live[k] = NoRecord, !.deleted[k] = ims.live[k]]
    BY <1>6 DEF Deleted
  <2>2. /\ Deleted(d).jobs = ims.jobs
        /\ Deleted(d).live = [ims.live EXCEPT ![k] = NoRecord]
        /\ Deleted(d).deleted = [ims.deleted EXCEPT ![k] = ims.live[k]]
        /\ Deleted(d) = [live |-> Deleted(d).live, deleted |-> Deleted(d).deleted,
                         jobs |-> Deleted(d).jobs]
    BY <1>1, <2>1 DEF Data
  <2>3. ims.live \in Table /\ ims.deleted \in Table /\ ims.jobs \in SUBSET JobRecord
    BY <1>1 DEF Data
  <2>4. Deleted(d).live \in Table /\ Deleted(d).deleted \in Table
    BY <2>2, <2>3 DEF Table
  <2>. QED BY <2>2, <2>3, <2>4 DEF Data
<1>7. ims.live \in [ImsId -> {NoRecord, "system", "imported", "user"}]
      /\ ims.deleted \in [ImsId -> {NoRecord, "system", "imported", "user"}]
  BY <1>1 DEF Data, Table
<1>8. CASE d \in {"deleted"} \X ImsId
  <2>1. PICK k \in ImsId : d = <<"deleted", k>>
    BY <1>8
  <2>2. {x \in ims.jobs : d # <<"job", x[1]>>} = ims.jobs
    BY <2>1
  <2>3. \A i \in ImsId : /\ d = <<"hard", i>> <=> ("deleted" = "hard" /\ i = k)
                         /\ d = <<"soft", i>> <=> ("deleted" = "soft" /\ i = k)
                         /\ d = <<"deleted", i>> <=> ("deleted" = "deleted" /\ i = k)
    BY <2>1
  <2>. QED BY <1>4, <1>7, <2>1, <2>2, <2>3
<1>9. CASE d \in {"hard"} \X ImsId
  <2>1. PICK k \in ImsId : d = <<"hard", k>>
    BY <1>9
  <2>2. {x \in ims.jobs : d # <<"job", x[1]>>} = ims.jobs
    BY <2>1
  <2>3. \A i \in ImsId : /\ d = <<"hard", i>> <=> ("hard" = "hard" /\ i = k)
                         /\ d = <<"soft", i>> <=> ("hard" = "soft" /\ i = k)
                         /\ d = <<"deleted", i>> <=> ("hard" = "deleted" /\ i = k)
    BY <2>1
  <2>. QED BY <1>5, <1>7, <2>1, <2>2, <2>3
<1>10. CASE d \in {"soft"} \X ImsId
  <2>1. PICK k \in ImsId : d = <<"soft", k>>
    BY <1>10
  <2>2. {x \in ims.jobs : d # <<"job", x[1]>>} = ims.jobs
    BY <2>1
  <2>3. \A i \in ImsId : /\ d = <<"hard", i>> <=> ("soft" = "hard" /\ i = k)
                         /\ d = <<"soft", i>> <=> ("soft" = "soft" /\ i = k)
                         /\ d = <<"deleted", i>> <=> ("soft" = "deleted" /\ i = k)
    BY <2>1
  <2>. QED BY <1>6, <1>7, <2>1, <2>2, <2>3
<1>. QED BY <1>2, <1>8, <1>9, <1>10 DEF Deletion

LEMMA SavedTyped ==
    ASSUME imsFile \in Table, NEW live \in Table, NEW k
    PROVE  Saved(live, k) \in Table
BY DEF Saved, Table

LEMMA DeleteFacts ==
    ASSUME ImsIInv, delete_resources
    PROVE  /\ imsRun.at = "delete" /\ imsRun' \in ImsRunRecord
           /\ imsRun.todo \subseteq Deletion
           /\ ims' \in Data /\ imsFile' \in Table /\ s3' \subseteq s3
           /\ UNCHANGED <<imsExport, imsBackup, imsTouched, imsLate, imsEdits, imsRuns>>
           /\ \/ /\ imsRun.todo = {} /\ imsRun' = AfterDeletions
                 /\ UNCHANGED <<ims, imsFile, s3>>
              \/ /\ \E d \in imsRun.todo : ~Found(d)
                 /\ RunOnly(ImsFail(Surprise))
              \/ \E d \in imsRun.todo :
                    /\ ims' \in {ims, Deleted(d)}
                    /\ \/ imsRun'.at = "failed" /\ imsRun'.why = "request"
                       \/ /\ ims' = Deleted(d)
                          /\ imsRun'.at = "delete" /\ imsRun'.todo = imsRun.todo \ {d}
                          /\ imsRun'.type = imsRun.type /\ imsRun'.live = imsRun.live
                          /\ imsRun'.current = imsRun.current /\ imsRun'.read = imsRun.read
<1>1. /\ imsRun.at = "delete" /\ imsRun.todo \subseteq Deletion /\ ImsTyped
      /\ imsRun \in ImsRunRecord
  BY DEF delete_resources, ImsIInv, DeletionsAreFound, RunAt, ImsTyped
<1>2. CASE imsRun.todo = {}
  <2>1. RunOnly(AfterDeletions)
    BY <1>2 DEF delete_resources
  <2>2. \A p \in ImsPlaces : ImsGo(p) \in ImsRunRecord
    BY <1>1, GoFacts
  <2>3. {"plan", "refresh", "reload"} \subseteq ImsPlaces
    BY DEF ImsPlaces
  <2>4. AfterDeletions \in ImsRunRecord
    <3>1. imsRun.type \in ImportTypes
      BY <1>1 DEF ImsRunRecord
    <3>2. AfterDeletions \in {ImsGo("plan"), ImsGo("refresh"), ImsGo("reload")}
      BY DEF AfterDeletions
    <3>. QED BY <2>2, <2>3, <3>2
  <2>. QED BY <1>1, <1>2, <2>1, <2>4 DEF RunOnly, ImsTyped
<1>3. CASE imsRun.todo # {}
  <2>1. PICK d \in imsRun.todo :
          IF ~Found(d) THEN RunOnly(ImsFail(Surprise))
          ELSE \E e \in ImsDelete :
               /\ IF e = "failed" THEN UNCHANGED <<ims, imsFile, s3>>
                  ELSE /\ ims' = Deleted(d)
                       /\ imsFile' = IF d[1] \in {"hard", "soft"}
                                     THEN Saved(Deleted(d).live, KindOf(d[2])) ELSE imsFile
                       /\ s3' = ArtifactsAfter(d)
               /\ imsRun' =
                    LET run == [imsRun EXCEPT !.todo = imsRun.todo \ {d}, !.cleared = TRUE,
                                   !.deletesDone = d[2] \in ImsImage]
                    IN  IF e = "ok" THEN run
                        ELSE [run EXCEPT !.at = "failed", !.why = "request"]
               /\ UNCHANGED <<imsExport, imsBackup, imsTouched, imsLate, imsEdits, imsRuns>>
    BY <1>3 DEF delete_resources
  <2>2. CASE ~Found(d)
    <3>1. RunOnly(ImsFail(Surprise)) /\ Surprise \in Why
      BY <2>1, <2>2 DEF Surprise, Why
    <3>2. ImsFail(Surprise) \in ImsRunRecord
      BY <1>1, <3>1, FailFacts
    <3>. QED BY <1>1, <2>2, <3>1, <3>2 DEF RunOnly, ImsTyped
  <2>3. CASE Found(d)
    <3>1. PICK e \in ImsDelete :
               /\ IF e = "failed" THEN UNCHANGED <<ims, imsFile, s3>>
                  ELSE /\ ims' = Deleted(d)
                       /\ imsFile' = IF d[1] \in {"hard", "soft"}
                                     THEN Saved(Deleted(d).live, KindOf(d[2])) ELSE imsFile
                       /\ s3' = ArtifactsAfter(d)
               /\ imsRun' =
                    LET run == [imsRun EXCEPT !.todo = imsRun.todo \ {d}, !.cleared = TRUE,
                                   !.deletesDone = d[2] \in ImsImage]
                    IN  IF e = "ok" THEN run
                        ELSE [run EXCEPT !.at = "failed", !.why = "request"]
               /\ UNCHANGED <<imsExport, imsBackup, imsTouched, imsLate, imsEdits, imsRuns>>
      BY <2>1, <2>3
    <3>. DEFINE run == [imsRun EXCEPT !.todo = imsRun.todo \ {d}, !.cleared = TRUE,
                                      !.deletesDone = d[2] \in ImsImage]
    <3>2. /\ run \in ImsRunRecord /\ run.at = "delete" /\ run.todo = imsRun.todo \ {d}
          /\ run.type = imsRun.type /\ run.live = imsRun.live /\ run.current = imsRun.current
          /\ run.read = imsRun.read
      <4>. DEFINE b == d[2] \in ImsImage
      <4>1. b \in BOOLEAN
        OBVIOUS
      <4>. HIDE DEF b
      <4>2. [imsRun EXCEPT !.todo = imsRun.todo \ {d}, !.cleared = TRUE, !.deletesDone = b]
              \in ImsRunRecord
        BY <1>1, <4>1 DEF ImsRunRecord
      <4>3. run = [imsRun EXCEPT !.todo = imsRun.todo \ {d}, !.cleared = TRUE, !.deletesDone = b]
        BY DEF b
      <4>. QED BY <1>1, <4>2, <4>3 DEF ImsRunRecord
    <3>3. /\ ims' \in {ims, Deleted(d)} /\ ims' \in Data /\ s3' \subseteq s3
      BY <1>1, <3>1, DeletedFacts DEF ArtifactsAfter, ImsTyped
    <3>4. imsFile' \in Table
      <4>1. Deleted(d).live \in Table /\ imsFile \in Table
        BY <1>1, DeletedFacts DEF Data, ImsTyped
      <4>2. Saved(Deleted(d).live, KindOf(d[2])) \in Table
        BY <4>1, SavedTyped
      <4>. QED BY <3>1, <4>1, <4>2
    <3>5. CASE e = "ok"
      <4>1. imsRun' = run /\ ims' = Deleted(d)
        BY <3>1, <3>5
      <4>. HIDE DEF run
      <4>. QED BY <1>1, <3>1, <3>2, <3>3, <3>4, <4>1
    <3>6. CASE e # "ok"
      <4>1. imsRun' = [run EXCEPT !.at = "failed", !.why = "request"]
        BY <3>1, <3>6
      <4>. HIDE DEF run
      <4>2. imsRun' \in ImsRunRecord /\ imsRun'.at = "failed" /\ imsRun'.why = "request"
        BY <3>2, <4>1 DEF ImsRunRecord, ImsPlaces, Why
      <4>. QED BY <1>1, <3>1, <3>3, <3>4, <4>2
    <3>. QED BY <3>5, <3>6
  <2>. QED BY <2>2, <2>3
<1>. QED BY <1>2, <1>3

\* A run that goes on elsewhere, and changes nothing but itself.
LEMMA RunOnlyTyped ==
    ASSUME ImsTyped, NEW next \in ImsRunRecord, RunOnly(next)
    PROVE  ImsTyped'
BY DEF RunOnly, ImsTyped

LEMMA ReadListsTyped ==
    ASSUME ImsTyped, NEW p \in ImsPlaces, ReadLists(ImsGo(p)),
           imsBackup' \in Data, imsLate' \subseteq Entry
    PROVE  ImsTyped'
BY ReadFacts DEF ImsTyped

LEMMA BackupFacts ==
    ASSUME ImsTyped, pre_import_backup
    PROVE  /\ imsRun.at = "backup"
           /\ \/ RunOnly(ImsFail("jobs"))
              \/ /\ ReadLists(ImsGo("verify"))
                 /\ imsBackup' = imsRun'.current
                 /\ imsLate' = StillTouched(imsLate, imsRun.read)
                 /\ imsLate' \subseteq imsLate
                 /\ \A i \in ImsId :
                      /\ <<"live", i>> \in imsLate' <=>
                            <<"live", i>> \in imsLate /\ KindOf(i) + 1 # imsRun.read
                      /\ <<"deleted", i>> \in imsLate' <=>
                            <<"deleted", i>> \in imsLate /\ imsRun.read # 5
<1>1. imsRun.read \in 1..5 /\ imsLate \in SUBSET Entry
  BY DEF ImsTyped, ImsRunRecord
<1>. QED BY <1>1, StillTouchedFacts DEF pre_import_backup

\* What an import brings: an `add' drops what is there.
LEMMA ToImportFacts ==
    ASSUME ImsTyped
    PROVE  /\ ToImport \in Table
           /\ imsRun.type # "add" => ToImport = imsRun.live
           /\ \A i \in ImsId :
                \/ ToImport[i] = imsRun.live[i]
                \/ /\ imsRun.type = "add" /\ ToImport[i] = NoRecord
                   /\ imsRun.current.live[i] # NoRecord
<1>1. imsRun.live \in Table
  BY DEF ImsTyped, ImsRunRecord
<1>2. CASE imsRun.type = "add"
  <2>1. ToImport = [i \in ImsId |-> IF i \in Ids(imsRun.current.live) THEN NoRecord ELSE imsRun.live[i]]
    BY <1>2 DEF ToImport, remove_ids
  <2>. QED BY <1>1, <1>2, <2>1 DEF Table, Ids
<1>3. CASE imsRun.type # "add"
  BY <1>1, <1>3 DEF ToImport
<1>. QED BY <1>2, <1>3

LEMMA VerifyFacts ==
    ASSUME ImsTyped, verify_artifact_files_exist
    PROVE  /\ imsRun.at = "verify"
           /\ \/ RunOnly(ImsFail("export"))
              \/ /\ RunOnly([ImsGo("delete") EXCEPT !.live = ToImport, !.todo = Deletions])
                 /\ imsRun' \in ImsRunRecord /\ imsRun'.at = "delete"
                 /\ imsRun'.live = ToImport /\ imsRun'.todo = Deletions
                 /\ imsRun'.type = imsRun.type /\ imsRun'.current = imsRun.current
                 /\ imsRun'.read = imsRun.read
                 /\ \/ imsExport.s3 = NoS3
                    \/ (Ids(ToImport) \cap HasArtifact) \cup imsExport.links \subseteq imsExport.s3
                 /\ UNCHANGED <<ims, imsFile, s3, imsExport, imsBackup, imsTouched, imsLate>>
<1>. DEFINE run == [ImsGo("delete") EXCEPT !.live = ToImport, !.todo = Deletions]
<1>1. imsRun \in ImsRunRecord /\ "delete" \in ImsPlaces /\ Deletions \subseteq Deletion
      /\ ToImport \in Table
  BY ToImportFacts, DeletionsFacts DEF ImsTyped, ImsPlaces
<1>2. /\ run \in ImsRunRecord /\ run.at = "delete" /\ run.live = ToImport /\ run.todo = Deletions
      /\ run.type = imsRun.type /\ run.current = imsRun.current /\ run.read = imsRun.read
  <2>. DEFINE go == ImsGo("delete")
  <2>1. go \in ImsRunRecord /\ go.at = "delete" /\ go.type = imsRun.type /\ go.current = imsRun.current
        /\ go.read = imsRun.read
    BY <1>1, GoFacts
  <2>2. run = [go EXCEPT !.live = ToImport, !.todo = Deletions]
    OBVIOUS
  <2>. HIDE DEF go, run
  <2>. QED BY <1>1, <2>1, <2>2 DEF ImsRunRecord
<1>3. /\ imsRun.at = "verify"
      /\ RunOnly(IF imsExport.s3 # NoS3
                    /\ ~ (Ids(ToImport) \cap HasArtifact) \cup imsExport.links \subseteq imsExport.s3
                 THEN ImsFail("export") ELSE run)
  BY DEF verify_artifact_files_exist
<1>. HIDE DEF run
<1>4. CASE RunOnly(run)
  <2>1. CASE imsExport.s3 # NoS3
             /\ ~ (Ids(ToImport) \cap HasArtifact) \cup imsExport.links \subseteq imsExport.s3
    BY <1>3, <2>1
  <2>2. CASE ~(imsExport.s3 # NoS3
             /\ ~ (Ids(ToImport) \cap HasArtifact) \cup imsExport.links \subseteq imsExport.s3)
    <3>1. RunOnly([ImsGo("delete") EXCEPT !.live = ToImport, !.todo = Deletions])
      BY <1>4 DEF run
    <3>. QED BY <1>2, <1>3, <1>4, <2>2, <3>1 DEF RunOnly
  <2>. QED BY <2>1, <2>2
<1>. QED BY <1>3, <1>4

LEMMA UpdateFacts ==
    ASSUME ImsIInv, update_s3
    PROVE  /\ imsRun.at = "plan"
           /\ \/ RunOnly(ImsFail("export"))
              \/ /\ imsRun' \in ImsRunRecord /\ imsRun'.at = "upload"
                 /\ imsRun'.todo = MissingArtifacts
                 /\ imsExport.s3 = NoS3 => MissingArtifacts = {}
                 /\ MissingArtifacts \subseteq HasArtifact
                 /\ imsRun'.type = imsRun.type /\ imsRun'.current = imsRun.current
                 /\ imsRun'.live = imsRun.live
                 /\ UNCHANGED <<ims, imsFile, s3, imsExport, imsBackup, imsTouched, imsLate,
                                imsEdits, imsRuns>>
<1>. DEFINE go == ImsGo("upload")
            run == [go EXCEPT !.todo = MissingArtifacts]
<1>1. imsRun \in ImsRunRecord /\ "upload" \in ImsPlaces /\ imsExport.links \subseteq HasArtifact
  BY DEF ImsIInv, ImsTyped, ImsPlaces
<1>2. all_s3_urls \subseteq HasArtifact
  BY <1>1 DEF all_s3_urls
<1>3. MissingArtifacts \subseteq HasArtifact
  BY <1>2 DEF MissingArtifacts
<1>4. /\ go \in ImsRunRecord /\ go.at = "upload" /\ go.type = imsRun.type /\ go.current = imsRun.current
      /\ go.live = imsRun.live
  BY <1>1, GoFacts
<1>5. /\ imsRun.at = "plan"
      /\ RunOnly(IF imsExport.s3 = NoS3 /\ NeedsS3Data THEN ImsFail("export") ELSE run)
  BY DEF update_s3
<1>. HIDE DEF go
<1>6. /\ run \in ImsRunRecord /\ run.at = "upload" /\ run.todo = MissingArtifacts
      /\ run.type = imsRun.type /\ run.current = imsRun.current /\ run.live = imsRun.live
  BY <1>3, <1>4 DEF ImsRunRecord
<1>. HIDE DEF run
<1>7. CASE imsExport.s3 = NoS3 /\ NeedsS3Data
  BY <1>5, <1>7
<1>8. CASE ~(imsExport.s3 = NoS3 /\ NeedsS3Data)
  <2>1. imsExport.s3 = NoS3 => MissingArtifacts = {}
    BY <1>8 DEF NeedsS3Data
  <2>2. imsRun' = run
    BY <1>5, <1>8 DEF RunOnly
  <2>. QED BY <1>3, <1>5, <1>6, <1>8, <2>1, <2>2 DEF RunOnly
<1>. QED BY <1>7, <1>8

LEMMA UploadFacts ==
    ASSUME ImsIInv, upload
    PROVE  /\ imsRun.at = "upload" /\ s3' \subseteq HasArtifact
           /\ \/ RunOnly(ImsFail("request"))
              \/ /\ imsRun' \in ImsRunRecord
                 /\ \/ /\ imsRun.todo = {} /\ s3' = s3
                       /\ \/ Ids(imsRun.live) = {} /\ imsRun'.at = "done"
                          \/ imsRun'.at = "write" /\ imsRun'.kind = 1
                    \/ \E a \in imsRun.todo : /\ s3' = s3 \cup {a} /\ imsRun'.at = "upload"
                                              /\ imsRun'.todo = imsRun.todo \ {a}
                 /\ imsRun'.type = imsRun.type /\ imsRun'.current = imsRun.current
                 /\ imsRun'.live = imsRun.live
                 /\ UNCHANGED <<ims, imsFile, imsExport, imsBackup, imsTouched, imsLate,
                                imsEdits, imsRuns>>
<1>1. imsRun \in ImsRunRecord /\ "done" \in ImsPlaces /\ "write" \in ImsPlaces
      /\ s3 \subseteq HasArtifact /\ imsRun.at = "upload" /\ imsRun.todo \subseteq HasArtifact
  BY DEF ImsIInv, ImsTyped, ImsPlaces, upload, ArtifactsFollow, RunAt
<1>2. CASE imsRun.todo = {} /\ Ids(imsRun.live) = {} /\ RunOnly(ImsGo("done"))
  BY <1>1, <1>2, GoFacts DEF RunOnly
<1>3. CASE imsRun.todo = {} /\ RunOnly([ImsGo("write") EXCEPT !.kind = 1])
  <2>. DEFINE go == ImsGo("write")
  <2>1. /\ go \in ImsRunRecord /\ go.at = "write" /\ go.type = imsRun.type
        /\ go.current = imsRun.current /\ go.live = imsRun.live
    BY <1>1, GoFacts
  <2>2. imsRun' = [go EXCEPT !.kind = 1]
    BY <1>3 DEF RunOnly
  <2>. HIDE DEF go
  <2>3. imsRun' \in ImsRunRecord /\ imsRun'.at = "write" /\ imsRun'.kind = 1 /\ imsRun'.type = imsRun.type
        /\ imsRun'.current = imsRun.current /\ imsRun'.live = imsRun.live
    BY <2>1, <2>2 DEF ImsRunRecord
  <2>. QED BY <1>1, <1>3, <2>3 DEF RunOnly
<1>4. ASSUME NEW a \in imsRun.todo, s3' = s3 \cup {a},
             imsRun' = [imsRun EXCEPT !.todo = imsRun.todo \ {a}],
             UNCHANGED <<ims, imsFile, imsExport, imsBackup, imsTouched, imsLate, imsEdits, imsRuns>>
      PROVE  /\ s3' \subseteq HasArtifact
             /\ imsRun' \in ImsRunRecord
             /\ imsRun'.at = "upload" /\ imsRun'.todo = imsRun.todo \ {a}
             /\ imsRun'.type = imsRun.type /\ imsRun'.current = imsRun.current
             /\ imsRun'.live = imsRun.live
  BY <1>1, <1>4 DEF ImsRunRecord
<1>5. CASE RunOnly(ImsFail("request"))
  BY <1>1, <1>5 DEF RunOnly
<1>6. \/ imsRun.todo = {} /\ Ids(imsRun.live) = {} /\ RunOnly(ImsGo("done"))
      \/ imsRun.todo = {} /\ RunOnly([ImsGo("write") EXCEPT !.kind = 1])
      \/ \E a \in imsRun.todo :
            /\ s3' = s3 \cup {a} /\ imsRun' = [imsRun EXCEPT !.todo = imsRun.todo \ {a}]
            /\ UNCHANGED <<ims, imsFile, imsExport, imsBackup, imsTouched, imsLate, imsEdits, imsRuns>>
      \/ RunOnly(ImsFail("request"))
  BY DEF upload
<1>. QED BY <1>1, <1>2, <1>3, <1>4, <1>5, <1>6

LEMMA WriteFacts ==
    ASSUME ImsTyped, write_data_files
    PROVE  /\ imsRun.at = "write" /\ imsFile' \in Table
           /\ \/ RunOnly(ImsFail("request"))
              \/ /\ imsRun' \in ImsRunRecord
                 /\ imsRun'.type = imsRun.type /\ imsRun'.current = imsRun.current
                 /\ imsRun'.live = imsRun.live
                 /\ UNCHANGED <<ims, s3, imsExport, imsBackup, imsTouched, imsLate, imsEdits, imsRuns>>
                 /\ \/ imsRun'.at = "write" /\ imsRun'.kind = 1 /\ imsFile' = imsFile
                    \/ /\ \/ imsRun.kind = 3 /\ imsRun'.at = "restart"
                          \/ imsRun.kind # 3 /\ imsRun'.at = "write" /\ imsRun'.kind = imsRun.kind + 1
                       /\ \A i \in ImsId : imsFile'[i] =
                             IF KindOf(i) # imsRun.kind THEN imsFile[i]
                             ELSE IF imsRun.live[i] # NoRecord THEN imsRun.live[i]
                             ELSE imsRun.current.live[i]
<1>1. imsRun \in ImsRunRecord /\ imsRun.kind \in 1..3 /\ imsFile \in Table /\ imsRun.at = "write"
      /\ imsRun.live \in Table /\ imsRun.current.live \in Table /\ "restart" \in ImsPlaces
  BY DEF ImsTyped, ImsRunRecord, Data, ImsPlaces, write_data_files
<1>2. CASE RunOnly(ImsFail("request"))
  BY <1>1, <1>2 DEF RunOnly
<1>3. CASE RunOnly([imsRun EXCEPT !.kind = 1])
  <2>1. imsRun' \in ImsRunRecord /\ imsRun'.at = "write" /\ imsRun'.kind = 1
        /\ imsRun'.type = imsRun.type /\ imsRun'.current = imsRun.current /\ imsRun'.live = imsRun.live
    BY <1>1, <1>3 DEF RunOnly, ImsRunRecord
  <2>. QED BY <1>1, <1>3, <2>1 DEF RunOnly
<1>4. CASE /\ imsFile' = update_with_exported_data(KindIds[imsRun.kind])
           /\ imsRun' = IF imsRun.kind = 3 THEN ImsGo("restart") ELSE [imsRun EXCEPT !.kind = @ + 1]
           /\ UNCHANGED <<ims, s3, imsExport, imsBackup, imsTouched, imsLate, imsEdits, imsRuns>>
  <2>1. \A i \in ImsId : imsFile'[i] = IF KindOf(i) # imsRun.kind THEN imsFile[i]
                                       ELSE IF imsRun.live[i] # NoRecord THEN imsRun.live[i]
                                       ELSE imsRun.current.live[i]
    BY <1>1, <1>4, KindFacts DEF update_with_exported_data
  <2>2. imsFile' \in Table
    BY <1>1, <1>4 DEF update_with_exported_data, Table
  <2>3. CASE imsRun.kind = 3
    <3>1. imsRun' = ImsGo("restart")
      BY <1>4, <2>3
    <3>. QED BY <1>1, <1>4, <2>1, <2>2, <2>3, <3>1, GoFacts
  <2>4. CASE imsRun.kind # 3
    <3>1. imsRun' = [imsRun EXCEPT !.kind = imsRun.kind + 1] /\ imsRun.kind + 1 \in 1..3
      BY <1>1, <1>4, <2>4
    <3>2. imsRun' \in ImsRunRecord /\ imsRun'.at = "write" /\ imsRun'.kind = imsRun.kind + 1
          /\ imsRun'.type = imsRun.type /\ imsRun'.current = imsRun.current /\ imsRun'.live = imsRun.live
      BY <1>1, <3>1 DEF ImsRunRecord
    <3>. QED BY <1>1, <1>4, <2>1, <2>2, <2>4, <3>2
  <2>. QED BY <2>3, <2>4
<1>. QED BY <1>2, <1>3, <1>4 DEF write_data_files

\* The server starts with what is in its data files.
LEMMA StartedFacts ==
    ASSUME ImsTyped, ServerStarts
    PROVE  /\ ims' \in Data /\ ims'.live = imsFile
           /\ ims'.deleted = ims.deleted /\ ims'.jobs = ims.jobs
           /\ UNCHANGED <<imsFile, s3, imsExport, imsBackup, imsEdits, imsRuns>>
BY DEF ServerStarts, ImsTyped, Data

LEMMA RestartsFacts ==
    ASSUME ImsTyped, ServerRestarts
    PROVE  /\ ims' \in Data /\ ims'.live = imsFile
           /\ ims'.deleted = ims.deleted /\ ims'.jobs = ims.jobs
           /\ UNCHANGED <<imsFile, s3, imsExport, imsBackup, imsEdits, imsRuns, imsRun>>
           /\ imsTouched \subseteq imsTouched' /\ imsLate \subseteq imsLate'
           /\ imsTouched' \subseteq Entry /\ imsLate' \subseteq Entry
           /\ imsTouched \subseteq imsLate => imsTouched' \subseteq imsLate'
           /\ \A i \in ImsId : imsFile[i] # ims.live[i] =>
                 <<"live", i>> \in imsTouched' /\ <<"live", i>> \in imsLate'
<1>. DEFINE changed == {"live"} \X {i \in ImsId : imsFile[i] # ims.live[i]}
<1>1. /\ ServerStarts /\ imsTouched' = imsTouched \cup changed /\ imsLate' = imsLate \cup changed
      /\ imsRun' = imsRun
  BY DEF ServerRestarts
<1>2. changed \subseteq Entry
  BY DEF Entry
<1>3. \A i \in ImsId : imsFile[i] # ims.live[i] => <<"live", i>> \in changed
  OBVIOUS
<1>. HIDE DEF changed
<1>. QED BY <1>1, <1>2, <1>3, StartedFacts DEF ImsTyped

\* A user creates or deletes a record.
LEMMA UserFacts ==
    ASSUME ImsTyped, NEW i \in ImsId, ImsCreated(i) \/ ImsSoftDeleted(i)
    PROVE  /\ ims' \in Data /\ ims'.jobs = ims.jobs
           /\ \A j \in ImsId \ {i} : ims'.live[j] = ims.live[j] /\ ims'.deleted[j] = ims.deleted[j]
           /\ imsFile' \in Table
           /\ \A j \in ImsId : imsFile'[j] = IF KindOf(j) = KindOf(i) THEN ims'.live[j] ELSE imsFile[j]
           /\ s3' \subseteq HasArtifact /\ s3 \subseteq s3' \cup {i}
           /\ imsTouched' = imsTouched \cup {<<"live", i>>, <<"deleted", i>>}
           /\ imsLate' = imsLate \cup {<<"live", i>>, <<"deleted", i>>}
           /\ imsEdits < MaxImsEdits /\ imsEdits' = imsEdits + 1
           /\ UNCHANGED <<imsExport, imsBackup, imsRun, imsRuns>>
<1>1. ims \in Data /\ imsFile \in Table /\ s3 \subseteq HasArtifact
      /\ ims.live[i] \in {NoRecord, "system", "imported", "user"}
      /\ ims.live \in Table /\ ims.deleted \in Table
  BY DEF ImsTyped, Data, Table
<1>2. /\ ims' \in Data /\ ims'.jobs = ims.jobs
      /\ \A j \in ImsId \ {i} : ims'.live[j] = ims.live[j] /\ ims'.deleted[j] = ims.deleted[j]
      /\ s3' \subseteq HasArtifact /\ s3 \subseteq s3' \cup {i}
  <2>1. CASE ImsCreated(i)
    <3>1. ims' = [ims EXCEPT !.live[i] = "user"] /\ s3' = s3 \cup ({i} \cap HasArtifact)
      BY <2>1 DEF ImsCreated
    <3>2. ims'.live = [ims.live EXCEPT ![i] = "user"] /\ ims'.deleted = ims.deleted
          /\ ims'.jobs = ims.jobs /\ ims' = [live |-> ims'.live, deleted |-> ims'.deleted, jobs |-> ims'.jobs]
      BY <1>1, <3>1 DEF Data
    <3>3. ims'.live \in Table
      BY <1>1, <3>2 DEF Table
    <3>. QED BY <1>1, <3>1, <3>2, <3>3 DEF Data, Table
  <2>2. CASE ImsSoftDeleted(i)
    <3>1. ims' = [ims EXCEPT !.live[i] = NoRecord, !.deleted[i] = ims.live[i]] /\ s3' = s3 \ {i}
      BY <2>2 DEF ImsSoftDeleted
    <3>2. ims'.live = [ims.live EXCEPT ![i] = NoRecord]
          /\ ims'.deleted = [ims.deleted EXCEPT ![i] = ims.live[i]]
          /\ ims'.jobs = ims.jobs /\ ims' = [live |-> ims'.live, deleted |-> ims'.deleted, jobs |-> ims'.jobs]
      BY <1>1, <3>1 DEF Data
    <3>3. ims'.live \in Table /\ ims'.deleted \in Table
      BY <1>1, <3>2 DEF Table
    <3>. QED BY <1>1, <3>1, <3>2, <3>3 DEF Data, Table
  <2>. QED BY <2>1, <2>2
<1>3. /\ imsEdits < MaxImsEdits /\ imsEdits' = imsEdits + 1
      /\ imsTouched' = imsTouched \cup ({"live", "deleted"} \X {i})
      /\ imsLate' = imsLate \cup ({"live", "deleted"} \X {i})
      /\ imsFile' = Saved(ims'.live, KindOf(i))
      /\ UNCHANGED <<imsExport, imsBackup, imsRun, imsRuns>>
  BY DEF ImsCreated, ImsSoftDeleted, ImsUser
<1>4. {"live", "deleted"} \X {i} = {<<"live", i>>, <<"deleted", i>>}
  OBVIOUS
<1>5. imsFile' \in Table
  BY <1>1, <1>2, <1>3, SavedTyped DEF Data
<1>6. \A j \in ImsId : imsFile'[j] = IF KindOf(j) = KindOf(i) THEN ims'.live[j] ELSE imsFile[j]
  BY <1>3, KindFacts DEF Saved
<1>. QED BY <1>2, <1>3, <1>4, <1>5, <1>6

\* Types, and that what is touched is late, in every step.
LEMMA ImsTypedNext ==
    ASSUME ImsIInv, [ImsNext]_imsVars
    PROVE  ImsTyped' /\ TouchedIsLate'
<1>1. ImsTyped /\ imsTouched \subseteq imsLate /\ imsRun \in ImsRunRecord
  BY DEF ImsIInv, TouchedIsLate, ImsTyped
<1>. USE <1>1
<1>2. ASSUME NEW w \in Why, RunOnly(ImsFail(w)) PROVE ImsTyped' /\ TouchedIsLate'
  BY <1>2, FailFacts, RunOnlyTyped DEF TouchedIsLate, RunOnly
<1>3. ASSUME NEW p \in ImsPlaces, RunOnly(ImsGo(p)) PROVE ImsTyped' /\ TouchedIsLate'
  BY <1>3, GoFacts, RunOnlyTyped DEF TouchedIsLate, RunOnly
<1>4. {"nothing", "jobs", "export", "request", "users"} = Why
  BY DEF Why
<1>5. ASSUME NEW type \in ImportTypes, NEW ignore \in BOOLEAN, ImsStart(type, ignore)
      PROVE  ImsTyped' /\ TouchedIsLate'
  BY <1>5, StartFacts, ImsAssumption DEF ImsTyped, TouchedIsLate
<1>6. CASE pre_import_backup
  <2>1. CASE RunOnly(ImsFail("jobs"))
    BY <1>2, <1>4, <2>1
  <2>2. CASE ReadLists(ImsGo("verify")) /\ imsBackup' = imsRun'.current
             /\ imsLate' = StillTouched(imsLate, imsRun.read) /\ imsLate' \subseteq imsLate
    <3>1. "verify" \in ImsPlaces
      BY DEF ImsPlaces
    <3>2. imsBackup' \in Data
      BY <2>2, <3>1, ReadFacts DEF ImsRunRecord
    <3>3. imsTouched' \subseteq imsLate'
      BY <2>2, StillTouchedMonotone DEF ReadLists
    <3>. QED BY <2>2, <3>1, <3>2, <3>3, ReadListsTyped DEF ImsTyped, TouchedIsLate
  <2>. QED BY <1>6, <2>1, <2>2, BackupFacts
<1>7. CASE verify_artifact_files_exist
  <2>1. CASE RunOnly(ImsFail("export"))
    BY <1>2, <1>4, <2>1
  <2>2. CASE RunOnly([ImsGo("delete") EXCEPT !.live = ToImport, !.todo = Deletions])
             /\ imsRun' \in ImsRunRecord
    BY <2>2 DEF RunOnly, ImsTyped, TouchedIsLate
  <2>. QED BY <1>7, <2>1, <2>2, VerifyFacts
<1>8. CASE delete_resources
  <2>1. UNCHANGED <<imsExport, imsBackup, imsTouched, imsLate, imsEdits, imsRuns>>
        /\ imsRun' \in ImsRunRecord /\ ims' \in Data /\ imsFile' \in Table /\ s3' \subseteq s3
    BY <1>8, DeleteFacts
  <2>. QED BY <2>1 DEF ImsTyped, TouchedIsLate
<1>9. CASE reload
  <2>1. PICK p \in {"check", "plan"} : ReadLists(ImsGo(p))
    BY <1>9 DEF reload
  <2>2. p \in ImsPlaces /\ UNCHANGED <<imsBackup, imsLate>>
    BY <1>9 DEF reload, ImsPlaces
  <2>3. imsTouched' \subseteq imsTouched
    BY <2>1, <2>2, ReadFacts
  <2>. QED BY <2>1, <2>2, <2>3, ReadListsTyped DEF ImsTyped, TouchedIsLate
<1>10. CASE check_cleared
  <2>1. Surprise \in Why /\ "plan" \in ImsPlaces
    BY DEF Surprise, Why, ImsPlaces
  <2>2. RunOnly(ImsFail(Surprise)) \/ RunOnly(ImsGo("plan"))
    BY <1>10 DEF check_cleared
  <2>. QED BY <1>2, <1>3, <2>1, <2>2
<1>11. CASE update_s3
  BY <1>2, <1>4, <1>11, UpdateFacts DEF ImsTyped, TouchedIsLate
<1>12. CASE upload
  BY <1>2, <1>4, <1>12, UploadFacts DEF ImsTyped, TouchedIsLate
<1>13. CASE write_data_files
  BY <1>2, <1>4, <1>13, WriteFacts DEF ImsTyped, TouchedIsLate
<1>14. CASE rollout_restart
  <2>1. "rollout" \in ImsPlaces
    BY DEF ImsPlaces
  <2>2. RunOnly(ImsGo("rollout")) \/ RunOnly(ImsFail("request"))
    BY <1>14 DEF rollout_restart
  <2>. QED BY <1>2, <1>3, <1>4, <2>1, <2>2
<1>15. CASE rollout_status
  <2>1. "done" \in ImsPlaces
    BY DEF ImsPlaces
  <2>2. ServerStarts /\ imsRun' = ImsGo("done") /\ UNCHANGED <<imsTouched, imsLate>>
    BY <1>15 DEF rollout_status
  <2>. QED BY <2>1, <2>2, StartedFacts, GoFacts DEF ImsTyped, TouchedIsLate
<1>16. ASSUME NEW i \in ImsId, ImsCreated(i) \/ ImsSoftDeleted(i)
       PROVE  ImsTyped' /\ TouchedIsLate'
  <2>1. <<"live", i>> \in Entry /\ <<"deleted", i>> \in Entry
    BY DEF Entry
  <2>. QED BY <1>16, <2>1, UserFacts, ImsAssumption DEF ImsTyped, TouchedIsLate
<1>17. CASE ServerRestarts
  BY <1>17, RestartsFacts DEF ImsTyped, TouchedIsLate
<1>18. CASE UNCHANGED imsVars
  BY <1>18 DEF imsVars, ImsTyped, TouchedIsLate
<1>. QED BY <1>5, <1>6, <1>7, <1>8, <1>9, <1>10, <1>11, <1>12, <1>13, <1>14, <1>15, <1>16, <1>17, <1>18
     DEF ImsNext, ImsScript, ImsUsers

-----------------------------------------------------------------------------
(* The invariant, action by action.                                        *)

\* What a run that failed leaves behind is not spoken of.
LEMMA FailedInv ==
    ASSUME ImsTyped', TouchedIsLate', imsRun'.at = "failed", imsRun'.why # "nothing"
    PROVE  ImsIInv'
<1>1. \A places \in {{"backup"}, {"verify"}, {"backup", "verify"}, {"delete"}, {"reload", "check"},
                      {"refresh"}, {"reload"}, {"check"}, {"upload"}, {"write"}, {"plan"}} :
         "failed" \notin places
  OBVIOUS
<1>2. "failed" \notin Importing /\ "failed" \notin AfterDelete
  BY DEF Importing, AfterDelete
<1>3. LiveIsExport' /\ PlacesOfType' /\ ReadIsCurrent' /\ NothingIsLeft'
  BY <1>1, <1>2 DEF LiveIsExport, PlacesOfType, ReadIsCurrent, NothingIsLeft, RunAt
<1>4. DeletionsAreFound' /\ RestIsGone'
  BY <1>1, <1>2 DEF DeletionsAreFound, RestIsGone, RunAt
<1>5. BackedUp' /\ ArtifactsFollow' /\ FilesAreWritten'
  BY <1>1, <1>2 DEF BackedUp, ArtifactsFollow, FilesAreWritten, RunAt
<1>6. FailedForAReason' /\ ImsImportIsComplete' /\ NotAlsoDeleted'
  BY DEF FailedForAReason, ImsImportIsComplete, NotAlsoDeleted
<1>. QED BY <1>3, <1>4, <1>5, <1>6 DEF ImsIInv

LEMMA FailStep ==
    ASSUME ImsIInv, [ImsNext]_imsVars, NEW w \in Why \ {"nothing"}, RunOnly(ImsFail(w))
    PROVE  ImsIInv'
<1>1. imsRun'.at = "failed" /\ imsRun'.why # "nothing"
  BY FailFacts DEF RunOnly, ImsIInv, ImsTyped
<1>. QED BY <1>1, ImsTypedNext, FailedInv

LEMMA StartStep ==
    ASSUME ImsIInv, [ImsNext]_imsVars,
           NEW type \in ImportTypes, NEW ignore \in BOOLEAN, ImsStart(type, ignore)
    PROVE  ImsIInv'
<1>1. /\ imsRun'.at = "backup" /\ imsRun'.read = 1 /\ imsRun'.live = imsExport.live
      /\ imsExport' = imsExport
  BY StartFacts DEF ImsIInv
<1>2. \A i \in ImsId : ~HasRead(i)'
  BY <1>1, KindFacts DEF HasRead
<1>3. LiveIsExport' /\ PlacesOfType' /\ NothingIsLeft' /\ DeletionsAreFound' /\ RestIsGone'
  BY <1>1 DEF LiveIsExport, PlacesOfType, NothingIsLeft, DeletionsAreFound, RestIsGone, RunAt,
              AfterDelete, Importing
<1>4. ReadIsCurrent'
  BY <1>1, <1>2 DEF ReadIsCurrent, RunAt, Importing
<1>5. BackedUp' /\ ArtifactsFollow' /\ FilesAreWritten'
  BY <1>1 DEF BackedUp, ArtifactsFollow, FilesAreWritten, RunAt, AfterDelete, Importing
<1>6. FailedForAReason' /\ ImsImportIsComplete' /\ NotAlsoDeleted'
  BY <1>1 DEF FailedForAReason, ImsImportIsComplete, NotAlsoDeleted, RunAt
<1>. QED BY <1>3, <1>4, <1>5, <1>6, ImsTypedNext DEF ImsIInv

LEMMA BackupStep ==
    ASSUME ImsIInv, [ImsNext]_imsVars, pre_import_backup
    PROVE  ImsIInv'
<1>1. CASE RunOnly(ImsFail("jobs"))
  BY <1>1, FailStep DEF Why
<1>2. CASE /\ ReadLists(ImsGo("verify"))
           /\ imsBackup' = imsRun'.current
           /\ imsLate' = StillTouched(imsLate, imsRun.read)
           /\ imsLate' \subseteq imsLate
           /\ \A i \in ImsId :
                /\ <<"live", i>> \in imsLate' <=>
                      <<"live", i>> \in imsLate /\ KindOf(i) + 1 # imsRun.read
                /\ <<"deleted", i>> \in imsLate' <=>
                      <<"deleted", i>> \in imsLate /\ imsRun.read # 5
  <2>0. /\ "verify" \in ImsPlaces /\ ImsTyped /\ imsRun.at = "backup" /\ imsRun.read \in 1..5
    BY BackupFacts DEF ImsPlaces, ImsIInv, ImsTyped, ImsRunRecord
  <2>1. /\ imsRun'.type = imsRun.type /\ imsRun'.live = imsRun.live /\ imsRun'.why = imsRun.why
        /\ imsRun.read = 5 => imsRun'.at = "verify" /\ imsRun'.read = 1
        /\ imsRun.read # 5 => imsRun'.at = "backup" /\ imsRun'.read = imsRun.read + 1
        /\ imsRun'.current.jobs = IF imsRun.read = 1 THEN ims.jobs ELSE imsRun.current.jobs
        /\ imsRun'.current.deleted = IF imsRun.read = 5 THEN ims.deleted ELSE imsRun.current.deleted
        /\ \A i \in ImsId : imsRun'.current.live[i] =
              IF KindOf(i) + 1 = imsRun.read THEN ims.live[i] ELSE imsRun.current.live[i]
        /\ \A i \in ImsId : ImsTouched(i)' <=> ImsTouched(i) /\ KindOf(i) + 1 # imsRun.read
        /\ ims' = ims /\ imsExport' = imsExport
    BY <1>2, <2>0, ReadFacts DEF ImsTouched
  <2>2. imsRun'.at \in {"backup", "verify"}
    BY <2>0, <2>1
  <2>3. imsRun.live = imsExport.live
    BY <2>0 DEF ImsIInv, LiveIsExport, RunAt
  <2>4. LiveIsExport' /\ PlacesOfType' /\ NothingIsLeft' /\ DeletionsAreFound' /\ RestIsGone'
    BY <2>1, <2>2, <2>3 DEF LiveIsExport, PlacesOfType, NothingIsLeft, DeletionsAreFound,
                            RestIsGone, RunAt, AfterDelete, Importing
  <2>5. /\ imsRun.read > 1 => imsRun.current.jobs = ims.jobs
        /\ \A i \in ImsId : HasRead(i) => imsRun.current.live[i] = ims.live[i] \/ ImsTouched(i)
    BY <2>0 DEF ImsIInv, ReadIsCurrent, RunAt
  <2>6. /\ imsRun'.current.jobs = ims'.jobs
        /\ \A i \in ImsId : KindOf(i) + 1 <= imsRun.read =>
              imsRun'.current.live[i] = ims'.live[i] \/ ImsTouched(i)'
    BY <2>0, <2>1, <2>5, KindFacts DEF HasRead
  <2>7. ReadIsCurrent'
    <3>1. CASE imsRun.read # 5
      <4>1. \A i \in ImsId : HasRead(i)' => KindOf(i) + 1 <= imsRun.read
        BY <2>0, <2>1, <3>1, KindFacts DEF HasRead
      <4>. QED BY <1>2, <2>1, <2>6, <3>1, <4>1 DEF ReadIsCurrent, RunAt, Importing
    <3>2. CASE imsRun.read = 5
      <4>1. \A i \in ImsId : KindOf(i) + 1 <= 5
        BY KindFacts
      <4>. QED BY <1>2, <2>1, <2>6, <3>2, <4>1 DEF ReadIsCurrent, RunAt, Importing
    <3>. QED BY <3>1, <3>2
  <2>8. BackedUp'
    <3>1. CASE imsRun.read = 5
      <4>1. \A i \in ImsId : KindOf(i) + 1 <= 5
        BY KindFacts
      <4>2. \A i \in ImsId : ImsTouched(i)' => Late(i)'
        BY ImsTypedNext DEF TouchedIsLate, ImsTouched, Late
      <4>. QED BY <1>2, <2>6, <3>1, <4>1, <4>2 DEF BackedUp
    <3>2. CASE imsRun.read # 5
      BY <2>1, <3>2 DEF BackedUp, RunAt, AfterDelete, Importing
    <3>. QED BY <3>1, <3>2
  <2>9. ArtifactsFollow' /\ FilesAreWritten' /\ FailedForAReason' /\ ImsImportIsComplete' /\ NotAlsoDeleted'
    BY <2>2 DEF ArtifactsFollow, FilesAreWritten, RunAt, AfterDelete, Importing,
                FailedForAReason, ImsImportIsComplete, NotAlsoDeleted
  <2>. QED BY <2>4, <2>7, <2>8, <2>9, ImsTypedNext DEF ImsIInv
<1>. QED BY <1>1, <1>2, BackupFacts DEF ImsIInv

LEMMA VerifyStep ==
    ASSUME ImsIInv, [ImsNext]_imsVars, verify_artifact_files_exist
    PROVE  ImsIInv'
<1>1. CASE RunOnly(ImsFail("export"))
  BY <1>1, FailStep DEF Why
<1>2. CASE /\ imsRun'.at = "delete" /\ imsRun'.live = ToImport /\ imsRun'.todo = Deletions
           /\ imsRun'.type = imsRun.type /\ imsRun'.current = imsRun.current
           /\ imsRun'.read = imsRun.read
           /\ \/ imsExport.s3 = NoS3
              \/ (Ids(ToImport) \cap HasArtifact) \cup imsExport.links \subseteq imsExport.s3
           /\ UNCHANGED <<ims, imsFile, s3, imsExport, imsBackup, imsTouched, imsLate>>
  <2>1. /\ imsRun.at = "verify" /\ ImsTyped /\ imsRun.live = imsExport.live
        /\ imsRun.current.jobs = ims.jobs /\ imsBackup = imsRun.current
        /\ imsTouched \subseteq imsLate /\ imsRun.type \in ImportTypes
    BY VerifyFacts DEF ImsIInv, ReadIsCurrent, LiveIsExport, TouchedIsLate, RunAt, ImsTyped, ImsRunRecord
  <2>11. imsRun.read = 1
    BY <2>1 DEF ImsIInv, PlacesOfType, RunAt
  <2>2. \A i \in ImsId : /\ imsRun.current.deleted[i] = ims.deleted[i] \/ LateDeleted(i)
                         /\ imsRun.current.live[i] = ims.live[i] \/ ImsTouched(i)
                         /\ ims.live[i] \in {NoRecord, imsBackup.live[i]} \/ Late(i)
                         /\ ImsTouched(i) => Late(i)
    BY <2>1 DEF ImsIInv, ReadIsCurrent, BackedUp, RunAt, ImsTouched, Late
  <2>3. \A i \in ImsId : /\ ImsTouched(i)' = ImsTouched(i) /\ Late(i)' = Late(i)
                         /\ LateDeleted(i)' = LateDeleted(i)
    BY <1>2 DEF ImsTouched, Late, LateDeleted
  <2>4. /\ Overwrites' = Overwrites
        /\ imsRun.type # "add" => Ids(imsRun.live)' = Ids(imsRun.live)
    BY <1>2, <2>1, ToImportFacts DEF Overwrites, Ids
  <2>5. LiveIsExport' /\ PlacesOfType' /\ ReadIsCurrent' /\ NothingIsLeft'
    <3>1. LiveIsExport'
      BY <1>2, <2>1, ToImportFacts DEF LiveIsExport, RunAt, AfterDelete, Importing
    <3>2. ReadIsCurrent'
      BY <1>2, <2>1, <2>2, <2>3 DEF ReadIsCurrent, RunAt, Importing
    <3>. QED BY <1>2, <2>11, <3>1, <3>2 DEF PlacesOfType, NothingIsLeft, RunAt
  <2>6. DeletionsAreFound'
    <3>1. imsRun'.todo \subseteq Deletion
      BY <1>2, <2>1, DeletionsFacts
    <3>2. ASSUME NEW j \in ImsJob, <<"job", j>> \in imsRun'.todo
          PROVE  \E x \in ims'.jobs : x[1] = j
      BY <1>2, <2>1, <3>2, DeletionsFacts
    <3>3. ASSUME NEW i \in ImsId
          PROVE  /\ <<"hard", i>> \in imsRun'.todo \/ <<"soft", i>> \in imsRun'.todo =>
                      /\ Overwrites' /\ imsRun'.current.live[i] # NoRecord
                      /\ imsRun'.current.live[i] = ims'.live[i] \/ Late(i)'
      BY <1>2, <2>1, <2>2, <2>3, <2>4, <3>3, DeletionsFacts DEF Ids, Overwrites
    <3>4. ASSUME NEW i \in ImsId, <<"deleted", i>> \in imsRun'.todo
          PROVE  /\ imsRun'.current.deleted[i] # NoRecord
                 /\ imsRun'.current.deleted[i] = ims'.deleted[i] \/ LateDeleted(i)'
                 /\ <<"soft", i>> \notin imsRun'.todo
      BY <1>2, <2>1, <2>2, <2>3, <3>4, DeletionsFacts DEF Ids
    <3>5. ASSUME NEW i \in ImsId, <<"hard", i>> \in imsRun'.todo
          PROVE  /\ <<"soft", i>> \notin imsRun'.todo
                 /\ imsRun'.type = "overwrite" \/ i \in Ids(imsRun.live)'
      BY <1>2, <2>1, <2>4, <3>5, DeletionsFacts DEF Overwrites
    <3>6. ASSUME NEW i \in ImsId, <<"soft", i>> \in imsRun'.todo
          PROVE  /\ imsRun'.type = "soft_overwrite" /\ i \notin Ids(imsRun.live)'
                 /\ imsRun'.current.deleted[i] = ims'.deleted[i] \/ LateDeleted(i)'
      BY <1>2, <2>1, <2>2, <2>3, <2>4, <3>6, DeletionsFacts
    <3>. QED BY <3>1, <3>2, <3>3, <3>4, <3>5, <3>6 DEF DeletionsAreFound
  <2>7. RestIsGone'
    <3>1. RunAt({"delete"})'
      BY <1>2 DEF RunAt
    <3>2. ASSUME Overwrites'
          PROVE  /\ \A x \in ims'.jobs : <<"job", x[1]>> \in imsRun'.todo
                 /\ \A i \in ImsId : {<<"hard", i>>, <<"soft", i>>} \cap imsRun'.todo = {} =>
                       ims'.live[i] = NoRecord \/ Late(i)'
      <4>1. \A x \in ims'.jobs : <<"job", x[1]>> \in imsRun'.todo
        BY <1>2, <2>1, <2>4, <3>2, DeletionsFacts
      <4>2. ASSUME NEW i \in ImsId, <<"hard", i>> \notin imsRun'.todo, <<"soft", i>> \notin imsRun'.todo
            PROVE  imsRun.current.live[i] = NoRecord
        BY <1>2, <2>1, <2>4, <3>2, <4>2, DeletionsFacts DEF Ids, Overwrites
      <4>. QED BY <1>2, <2>2, <2>3, <4>1, <4>2
    <3>3. ASSUME imsRun'.type # "add", NEW i \in ImsId,
                 imsRun'.type = "overwrite" \/ i \in Ids(imsRun.live)',
                 <<"deleted", i>> \notin imsRun'.todo
          PROVE  ims'.deleted[i] = NoRecord \/ LateDeleted(i)'
      <4>1. imsRun.current.deleted[i] = NoRecord
        BY <1>2, <2>1, <2>4, <3>3, DeletionsFacts DEF Ids
      <4>. QED BY <1>2, <2>2, <2>3, <4>1
    <3>4. ASSUME NEW i \in ImsId
          PROVE  \/ ims'.deleted[i] = NoRecord \/ LateDeleted(i)'
                 \/ imsRun'.current.deleted[i] # NoRecord
      BY <1>2, <2>2, <2>3
    <3>. QED BY <3>1, <3>2, <3>3, <3>4 DEF RestIsGone
  <2>8. BackedUp'
    BY <1>2, <2>2, <2>3 DEF BackedUp
  <2>9. ArtifactsFollow'
    BY <1>2 DEF ArtifactsFollow, all_s3_urls, RunAt
  <2>10. FilesAreWritten' /\ FailedForAReason' /\ ImsImportIsComplete' /\ NotAlsoDeleted'
    BY <1>2 DEF FilesAreWritten, RunAt, FailedForAReason, ImsImportIsComplete, NotAlsoDeleted
  <2>. QED BY <2>5, <2>6, <2>7, <2>8, <2>9, <2>10, ImsTypedNext DEF ImsIInv
<1>. QED BY <1>1, <1>2, VerifyFacts DEF ImsIInv

\* A deletion of the plan is found: IMS would refuse another one.
LEMMA FoundUnlessUsers ==
    ASSUME ImsIInv, imsRun.at = "delete", NEW d \in imsRun.todo, imsLate = {}
    PROVE  Found(d)
<1>1. imsRun.todo \subseteq Deletion
  BY DEF ImsIInv, DeletionsAreFound, RunAt
<1>2. \A i \in ImsId : ~Late(i) /\ ~LateDeleted(i)
  BY DEF Late, LateDeleted
<1>3. CASE d \in {"job"} \X ImsJob
  <2>1. PICK j \in ImsJob : d = <<"job", j>>
    BY <1>3
  <2>2. \E x \in ims.jobs : x[1] = j
    BY <2>1 DEF ImsIInv, DeletionsAreFound, RunAt
  <2>. QED BY <2>1, <2>2 DEF Found
<1>4. CASE d \in {"deleted"} \X ImsId
  <2>1. PICK i \in ImsId : d = <<"deleted", i>>
    BY <1>4
  <2>2. ims.deleted[i] # NoRecord
    BY <1>2, <2>1 DEF ImsIInv, DeletionsAreFound, RunAt
  <2>. QED BY <2>1, <2>2 DEF Found
<1>5. CASE d \in {"hard", "soft"} \X ImsId
  <2>1. PICK i \in ImsId : d \in {<<"hard", i>>, <<"soft", i>>}
    BY <1>5
  <2>2. ims.live[i] # NoRecord
    <3>1. {<<"hard", i>>, <<"soft", i>>} \cap imsRun.todo # {}
      BY <2>1
    <3>. QED BY <1>2, <3>1 DEF ImsIInv, DeletionsAreFound, RunAt
  <2>. QED BY <2>1, <2>2 DEF Found
<1>. QED BY <1>1, <1>3, <1>4, <1>5 DEF Deletion

LEMMA DeletionsDone ==
    ASSUME ImsIInv, [ImsNext]_imsVars, imsRun.at = "delete", imsRun.todo = {},
           imsRun' = AfterDeletions,
           UNCHANGED <<ims, imsFile, s3, imsExport, imsBackup, imsTouched, imsLate, imsEdits, imsRuns>>
    PROVE  ImsIInv'
<1>1. /\ imsRun \in ImsRunRecord /\ imsRun.type \in ImportTypes /\ imsRun.read = 1
      /\ {"plan", "refresh", "reload"} \subseteq ImsPlaces
  BY DEF ImsIInv, ImsTyped, ImsRunRecord, PlacesOfType, RunAt, ImsPlaces
<1>2. PICK p \in {"plan", "refresh", "reload"} :
        /\ imsRun' = ImsGo(p)
        /\ p = "plan" => imsRun.type \in {"add", "update"}
        /\ p = "refresh" => imsRun.type = "update"
        /\ p = "reload" => imsRun.type \in {"overwrite", "soft_overwrite"}
  BY <1>1 DEF AfterDeletions, ImportTypes
<1>3. /\ imsRun'.at = p /\ imsRun'.read = 1 /\ imsRun'.type = imsRun.type
      /\ imsRun'.current = imsRun.current /\ imsRun'.live = imsRun.live
  BY <1>1, <1>2, GoFacts
<1>4. \A i \in ImsId : /\ ImsTouched(i)' = ImsTouched(i) /\ Late(i)' = Late(i)
                       /\ LateDeleted(i)' = LateDeleted(i) /\ ~HasRead(i)'
  BY <1>3, KindFacts DEF ImsTouched, Late, LateDeleted, HasRead
<1>5. Overwrites' = Overwrites /\ (p # "reload" => ~Overwrites)
  BY <1>2, <1>3 DEF Overwrites
<1>6. LiveIsExport' /\ PlacesOfType' /\ NothingIsLeft' /\ DeletionsAreFound'
  <2>1. LiveIsExport'
    BY <1>3 DEF ImsIInv, LiveIsExport, RunAt, AfterDelete, Importing
  <2>2. PlacesOfType'
    BY <1>2, <1>3 DEF PlacesOfType, RunAt, Overwrites
  <2>3. NothingIsLeft' /\ DeletionsAreFound'
    BY <1>3, <1>4 DEF NothingIsLeft, DeletionsAreFound, RunAt
  <2>. QED BY <2>1, <2>2, <2>3
<1>7. ReadIsCurrent'
  <2>1. ~Overwrites => \A i \in ImsId : imsRun.current.live[i] = ims.live[i] \/ ImsTouched(i)
    BY DEF ImsIInv, ReadIsCurrent, RunAt
  <2>. QED BY <1>3, <1>4, <1>5, <2>1 DEF ReadIsCurrent, RunAt, Importing
<1>8. RestIsGone'
  <2>1. /\ Overwrites => /\ \A x \in ims.jobs : <<"job", x[1]>> \in {}
                         /\ \A i \in ImsId : {<<"hard", i>>, <<"soft", i>>} \cap {} = {} =>
                               ims.live[i] = NoRecord \/ Late(i)
        /\ imsRun.type # "add" =>
             \A i \in ImsId : imsRun.type = "overwrite" \/ i \in Ids(imsRun.live)
                              => ims.deleted[i] = NoRecord \/ LateDeleted(i)
        /\ imsRun.type = "add" =>
             \A i \in ImsId : \/ ims.deleted[i] = NoRecord \/ LateDeleted(i)
                              \/ imsRun.current.deleted[i] # NoRecord
    BY DEF ImsIInv, RestIsGone, RunAt
  <2>2. ~RunAt({"delete"})'
    BY <1>3 DEF RunAt
  <2>. QED BY <1>3, <1>4, <1>5, <2>1, <2>2 DEF RestIsGone
<1>9. BackedUp'
  BY <1>4 DEF ImsIInv, BackedUp, RunAt
<1>10. ArtifactsFollow' /\ FilesAreWritten'
  BY <1>3 DEF ImsIInv, ArtifactsFollow, FilesAreWritten, RunAt, all_s3_urls
<1>11. FailedForAReason' /\ ImsImportIsComplete' /\ NotAlsoDeleted'
  BY <1>3 DEF FailedForAReason, ImsImportIsComplete, NotAlsoDeleted, RunAt
<1>. QED BY <1>6, <1>7, <1>8, <1>9, <1>10, <1>11, ImsTypedNext DEF ImsIInv

LEMMA OneDeletion ==
    ASSUME ImsIInv, [ImsNext]_imsVars, imsRun.at = "delete", NEW d \in imsRun.todo,
           ims' = Deleted(d), imsRun'.at = "delete", imsRun'.todo = imsRun.todo \ {d},
           imsRun'.type = imsRun.type, imsRun'.live = imsRun.live,
           imsRun'.current = imsRun.current, imsRun'.read = imsRun.read,
           UNCHANGED <<imsExport, imsBackup, imsTouched, imsLate, imsEdits, imsRuns>>
    PROVE  ImsIInv'
<1>1. ImsTyped /\ imsRun.todo \subseteq Deletion /\ d \in Deletion
  BY DEF ImsIInv, DeletionsAreFound, RunAt
<1>2. \A i \in ImsId :
        /\ ims'.live[i] = IF d = <<"hard", i>> \/ d = <<"soft", i>> THEN NoRecord ELSE ims.live[i]
        /\ ims'.deleted[i] = IF d = <<"soft", i>> THEN ims.live[i]
                             ELSE IF d = <<"deleted", i>> THEN NoRecord
                             ELSE ims.deleted[i]
  BY <1>1, DeletedFacts
<1>3. ims'.jobs = {x \in ims.jobs : d # <<"job", x[1]>>}
  BY <1>1, DeletedFacts
<1>4. /\ \A j \in ImsJob : <<"job", j>> \in imsRun.todo => \E x \in ims.jobs : x[1] = j
      /\ \A i \in ImsId :
            /\ <<"hard", i>> \in imsRun.todo \/ <<"soft", i>> \in imsRun.todo =>
                 /\ Overwrites /\ imsRun.current.live[i] # NoRecord
                 /\ imsRun.current.live[i] = ims.live[i] \/ Late(i)
            /\ <<"deleted", i>> \in imsRun.todo =>
                 /\ imsRun.current.deleted[i] # NoRecord
                 /\ imsRun.current.deleted[i] = ims.deleted[i] \/ LateDeleted(i)
                 /\ <<"soft", i>> \notin imsRun.todo
            /\ <<"hard", i>> \in imsRun.todo =>
                 /\ <<"soft", i>> \notin imsRun.todo
                 /\ imsRun.type = "overwrite" \/ i \in Ids(imsRun.live)
            /\ <<"soft", i>> \in imsRun.todo =>
                 /\ imsRun.type = "soft_overwrite" /\ i \notin Ids(imsRun.live)
                 /\ imsRun.current.deleted[i] = ims.deleted[i] \/ LateDeleted(i)
  BY DEF ImsIInv, DeletionsAreFound, RunAt
<1>5. /\ Overwrites' = Overwrites
      /\ \A i \in ImsId : /\ ImsTouched(i)' = ImsTouched(i) /\ Late(i)' = Late(i)
                          /\ LateDeleted(i)' = LateDeleted(i)
  BY DEF ImsTouched, Late, LateDeleted, Overwrites
<1>6. LiveIsExport' /\ PlacesOfType' /\ NothingIsLeft'
  <2>1. LiveIsExport'
    BY DEF ImsIInv, LiveIsExport, RunAt, AfterDelete, Importing
  <2>. QED BY <2>1 DEF ImsIInv, PlacesOfType, NothingIsLeft, RunAt
<1>7. ReadIsCurrent'
  <2>1. ~Overwrites => \A i \in ImsId : imsRun.current.live[i] = ims.live[i] \/ ImsTouched(i)
    BY DEF ImsIInv, ReadIsCurrent, RunAt
  <2>2. ~Overwrites => \A i \in ImsId : ims'.live[i] = ims.live[i]
    BY <1>2, <1>4
  <2>3. imsBackup = imsRun.current
    BY DEF ImsIInv, ReadIsCurrent, RunAt
  <2>. QED BY <1>5, <2>1, <2>2, <2>3 DEF ReadIsCurrent, RunAt, Importing
<1>8. DeletionsAreFound'
  <2>1. ASSUME NEW j \in ImsJob, <<"job", j>> \in imsRun'.todo
        PROVE  \E x \in ims'.jobs : x[1] = j
    BY <1>3, <1>4, <2>1
  <2>2. ASSUME NEW i \in ImsId, <<"hard", i>> \in imsRun'.todo \/ <<"soft", i>> \in imsRun'.todo
        PROVE  /\ Overwrites' /\ imsRun'.current.live[i] # NoRecord
               /\ imsRun'.current.live[i] = ims'.live[i] \/ Late(i)'
    <3>1. d # <<"hard", i>> /\ d # <<"soft", i>>
      BY <1>4, <2>2
    <3>. QED BY <1>2, <1>4, <1>5, <2>2, <3>1
  <2>3. ASSUME NEW i \in ImsId, <<"deleted", i>> \in imsRun'.todo
        PROVE  /\ imsRun'.current.deleted[i] # NoRecord
               /\ imsRun'.current.deleted[i] = ims'.deleted[i] \/ LateDeleted(i)'
               /\ <<"soft", i>> \notin imsRun'.todo
    <3>1. d # <<"soft", i>> /\ d # <<"deleted", i>>
      BY <1>4, <2>3
    <3>. QED BY <1>2, <1>4, <1>5, <2>3, <3>1
  <2>4. ASSUME NEW i \in ImsId, <<"hard", i>> \in imsRun'.todo
        PROVE  /\ <<"soft", i>> \notin imsRun'.todo
               /\ imsRun'.type = "overwrite" \/ i \in Ids(imsRun.live)'
    BY <1>4, <2>4
  <2>5. ASSUME NEW i \in ImsId, <<"soft", i>> \in imsRun'.todo
        PROVE  /\ imsRun'.type = "soft_overwrite" /\ i \notin Ids(imsRun.live)'
               /\ imsRun'.current.deleted[i] = ims'.deleted[i] \/ LateDeleted(i)'
    <3>1. d # <<"soft", i>> /\ d # <<"deleted", i>>
      BY <1>4, <2>5
    <3>. QED BY <1>2, <1>4, <1>5, <2>5, <3>1
  <2>. QED BY <1>1, <2>1, <2>2, <2>3, <2>4, <2>5 DEF DeletionsAreFound
<1>9. RestIsGone'
  <2>1. RunAt({"delete"}) /\ RunAt({"delete"})'
    BY DEF RunAt
  <2>2. /\ Overwrites => /\ \A x \in ims.jobs : <<"job", x[1]>> \in imsRun.todo
                         /\ \A i \in ImsId : {<<"hard", i>>, <<"soft", i>>} \cap imsRun.todo = {} =>
                               ims.live[i] = NoRecord \/ Late(i)
        /\ imsRun.type # "add" =>
             \A i \in ImsId : /\ imsRun.type = "overwrite" \/ i \in Ids(imsRun.live)
                              /\ <<"deleted", i>> \notin imsRun.todo
                              => ims.deleted[i] = NoRecord \/ LateDeleted(i)
        /\ imsRun.type = "add" =>
             \A i \in ImsId : \/ ims.deleted[i] = NoRecord \/ LateDeleted(i)
                              \/ imsRun.current.deleted[i] # NoRecord
    BY <2>1 DEF ImsIInv, RestIsGone, RunAt
  <2>3. ASSUME Overwrites
        PROVE  /\ \A x \in ims'.jobs : <<"job", x[1]>> \in imsRun'.todo
               /\ \A i \in ImsId : {<<"hard", i>>, <<"soft", i>>} \cap imsRun'.todo = {} =>
                     ims'.live[i] = NoRecord \/ Late(i)'
    <3>1. \A x \in ims'.jobs : <<"job", x[1]>> \in imsRun'.todo
      BY <1>3, <2>2, <2>3
    <3>2. ASSUME NEW i \in ImsId, {<<"hard", i>>, <<"soft", i>>} \cap imsRun'.todo = {}
          PROVE  ims'.live[i] = NoRecord \/ Late(i)'
      <4>1. CASE d = <<"hard", i>> \/ d = <<"soft", i>>
        BY <1>2, <4>1
      <4>2. CASE d # <<"hard", i>> /\ d # <<"soft", i>>
        BY <1>2, <1>5, <2>2, <2>3, <3>2, <4>2
      <4>. QED BY <4>1, <4>2
    <3>. QED BY <3>1, <3>2
  <2>4. ASSUME imsRun.type # "add", NEW i \in ImsId,
               imsRun.type = "overwrite" \/ i \in Ids(imsRun.live),
               <<"deleted", i>> \notin imsRun'.todo
        PROVE  ims'.deleted[i] = NoRecord \/ LateDeleted(i)'
    <3>1. d # <<"soft", i>>
      BY <1>4, <2>4
    <3>2. CASE d = <<"deleted", i>>
      BY <1>2, <3>1, <3>2
    <3>3. CASE d # <<"deleted", i>>
      BY <1>2, <1>5, <2>2, <2>4, <3>1, <3>3
    <3>. QED BY <3>2, <3>3
  <2>5. ASSUME imsRun.type = "add", NEW i \in ImsId
        PROVE  \/ ims'.deleted[i] = NoRecord \/ LateDeleted(i)'
               \/ imsRun'.current.deleted[i] # NoRecord
    <3>1. d # <<"soft", i>>
      BY <1>4, <2>5
    <3>. QED BY <1>2, <1>5, <2>2, <2>5, <3>1
  <2>. QED BY <1>5, <2>1, <2>3, <2>4, <2>5 DEF RestIsGone
<1>10. BackedUp'
  BY <1>2, <1>5 DEF ImsIInv, BackedUp, RunAt
<1>11. ArtifactsFollow' /\ FilesAreWritten'
  BY DEF ImsIInv, ArtifactsFollow, FilesAreWritten, RunAt, all_s3_urls
<1>12. FailedForAReason' /\ ImsImportIsComplete' /\ NotAlsoDeleted'
  BY DEF FailedForAReason, ImsImportIsComplete, NotAlsoDeleted, RunAt
<1>. QED BY <1>6, <1>7, <1>8, <1>9, <1>10, <1>11, <1>12, ImsTypedNext DEF ImsIInv

LEMMA DeleteStep ==
    ASSUME ImsIInv, [ImsNext]_imsVars, delete_resources
    PROVE  ImsIInv'
<1>1. imsRun.at = "delete" /\ UNCHANGED <<imsExport, imsBackup, imsTouched, imsLate, imsEdits, imsRuns>>
  BY DeleteFacts
<1>2. CASE imsRun.todo = {} /\ imsRun' = AfterDeletions /\ UNCHANGED <<ims, imsFile, s3>>
  BY <1>1, <1>2, DeletionsDone
<1>3. CASE (\E d \in imsRun.todo : ~Found(d)) /\ RunOnly(ImsFail(Surprise))
  <2>1. imsLate # {}
    BY <1>1, <1>3, FoundUnlessUsers
  <2>. QED BY <1>3, <2>1, FailStep DEF Surprise, Why
<1>4. CASE \E d \in imsRun.todo :
              /\ ims' \in {ims, Deleted(d)}
              /\ \/ imsRun'.at = "failed" /\ imsRun'.why = "request"
                 \/ /\ ims' = Deleted(d)
                    /\ imsRun'.at = "delete" /\ imsRun'.todo = imsRun.todo \ {d}
                    /\ imsRun'.type = imsRun.type /\ imsRun'.live = imsRun.live
                    /\ imsRun'.current = imsRun.current /\ imsRun'.read = imsRun.read
  <2>1. CASE imsRun'.at = "failed" /\ imsRun'.why = "request"
    BY <2>1, ImsTypedNext, FailedInv
  <2>. QED BY <1>1, <1>4, <2>1, OneDeletion
<1>. QED BY <1>2, <1>3, <1>4, DeleteFacts

LEMMA ReloadStep ==
    ASSUME ImsIInv, [ImsNext]_imsVars, reload
    PROVE  ImsIInv'
<1>. DEFINE p == IF imsRun.at = "reload" THEN "check" ELSE "plan"
<1>1. /\ imsRun.at \in {"reload", "refresh"} /\ ReadLists(ImsGo(p))
      /\ UNCHANGED <<imsBackup, imsLate>>
      /\ ImsTyped /\ imsRun.read \in 1..5 /\ p \in ImsPlaces
  BY DEF reload, ImsIInv, ImsTyped, ImsRunRecord, ImsPlaces
<1>2. /\ imsRun'.type = imsRun.type /\ imsRun'.live = imsRun.live
      /\ imsRun.read = 5 => imsRun'.at = p /\ imsRun'.read = 1
      /\ imsRun.read # 5 => imsRun'.at = imsRun.at /\ imsRun'.read = imsRun.read + 1
      /\ imsRun'.current.jobs = IF imsRun.read = 1 THEN ims.jobs ELSE imsRun.current.jobs
      /\ imsRun'.current.deleted = IF imsRun.read = 5 THEN ims.deleted ELSE imsRun.current.deleted
      /\ \A i \in ImsId : imsRun'.current.live[i] =
            IF KindOf(i) + 1 = imsRun.read THEN ims.live[i] ELSE imsRun.current.live[i]
      /\ \A i \in ImsId : ImsTouched(i)' <=> ImsTouched(i) /\ KindOf(i) + 1 # imsRun.read
      /\ ims' = ims /\ imsExport' = imsExport
  BY <1>1, ReadFacts DEF ImsTouched
<1>3. /\ imsRun'.at \in {"reload", "refresh", "check", "plan"}
      /\ imsRun'.at \in {"reload", "check"} <=> imsRun.at = "reload"
      /\ imsRun'.at = "refresh" => imsRun.at = "refresh"
  BY <1>1, <1>2
<1>4. /\ Overwrites' = Overwrites /\ (imsRun.at = "reload" <=> Overwrites)
      /\ imsRun.type # "add" /\ (imsRun.at = "refresh" => imsRun.type = "update")
  BY <1>1, <1>2 DEF ImsIInv, PlacesOfType, RunAt, Overwrites
<1>5. \A i \in ImsId : /\ Late(i)' = Late(i) /\ LateDeleted(i)' = LateDeleted(i)
                       /\ KindOf(i) + 1 \in 2..4
  BY <1>1, KindFacts DEF Late, LateDeleted
<1>6. /\ imsRun'.at = "reload" => /\ imsRun.at = "reload" /\ imsRun.read # 5
                                  /\ \A i \in ImsId : HasRead(i)' <=> HasRead(i) \/ KindOf(i) + 1 = imsRun.read
      /\ imsRun'.at = "check" => imsRun.at = "reload" /\ imsRun.read = 5 /\ \A i \in ImsId : HasRead(i)
  BY <1>1, <1>2, <1>5 DEF HasRead
<1>7. LiveIsExport' /\ PlacesOfType' /\ DeletionsAreFound'
  <2>1. LiveIsExport'
    <3>1. imsRun.live = imsExport.live
      BY <1>1, <1>4 DEF ImsIInv, LiveIsExport, RunAt, AfterDelete
    <3>. QED BY <1>2, <1>3, <3>1 DEF LiveIsExport, RunAt
  <2>. QED BY <1>3, <1>4, <1>2, <2>1 DEF PlacesOfType, DeletionsAreFound, RunAt
<1>8. ReadIsCurrent'
  <2>1. imsRun.at = "reload" =>
          \A i \in ImsId : HasRead(i) => imsRun.current.live[i] = ims.live[i] \/ ImsTouched(i)
    BY DEF ImsIInv, ReadIsCurrent, RunAt
  <2>2. imsRun.at = "refresh" =>
          \A i \in ImsId : imsRun.current.live[i] = ims.live[i] \/ ImsTouched(i)
    BY <1>4 DEF ImsIInv, ReadIsCurrent, RunAt
  <2>3. imsRun'.at \in {"reload"} =>
          \A i \in ImsId : HasRead(i)' => imsRun'.current.live[i] = ims'.live[i] \/ ImsTouched(i)'
    BY <1>2, <1>6, <2>1
  <2>4. imsRun'.at \in {"refresh", "check", "plan"} =>
          \A i \in ImsId : imsRun'.current.live[i] = ims'.live[i] \/ ImsTouched(i)'
    BY <1>1, <1>2, <1>3, <1>6, <2>1, <2>2
  <2>. QED BY <1>3, <2>3, <2>4 DEF ReadIsCurrent, RunAt, Importing
<1>9. RestIsGone'
  <2>1. ~RunAt({"delete"}) /\ ~RunAt({"delete"})'
    BY <1>1, <1>3 DEF RunAt
  <2>2. /\ imsRun.at = "reload" =>
             /\ \A x \in ims.jobs : <<"job", x[1]>> \in {}
             /\ \A i \in ImsId : {<<"hard", i>>, <<"soft", i>>} \cap {} = {} =>
                   ims.live[i] = NoRecord \/ Late(i)
        /\ \A i \in ImsId : /\ imsRun.type = "overwrite" \/ i \in Ids(imsRun.live)
                            /\ <<"deleted", i>> \notin {}
                            => ims.deleted[i] = NoRecord \/ LateDeleted(i)
    BY <1>1, <1>4, <2>1 DEF ImsIInv, RestIsGone, RunAt, AfterDelete
  <2>3. Overwrites' /\ RunAt({"delete", "reload", "check"})' => imsRun.at = "reload"
    BY <1>3 DEF RunAt
  <2>4. imsRun'.type # "add"
    BY <1>2, <1>4
  <2>. QED BY <1>2, <1>5, <2>1, <2>2, <2>3, <2>4 DEF RestIsGone
<1>10. NothingIsLeft'
  <2>1. CASE imsRun.at = "reload"
    <3>1. /\ ims.jobs = {} /\ \A i \in ImsId : ims.live[i] = NoRecord \/ Late(i)
          /\ imsRun.type = "overwrite" => \A i \in ImsId : ims.deleted[i] = NoRecord \/ LateDeleted(i)
      BY <1>4, <2>1 DEF ImsIInv, RestIsGone, RunAt, AfterDelete
    <3>2. /\ imsRun.read > 1 => imsRun.current.jobs = {}
          /\ \A i \in ImsId : HasRead(i) => imsRun.current.live[i] = NoRecord \/ Late(i)
      BY <2>1 DEF ImsIInv, NothingIsLeft, RunAt
    <3>3. imsRun'.current.jobs = {}
      BY <1>1, <1>2, <3>1, <3>2
    <3>4. \A i \in ImsId : HasRead(i)' \/ imsRun'.at = "check" =>
             imsRun'.current.live[i] = NoRecord \/ Late(i)'
      BY <1>2, <1>3, <1>5, <1>6, <2>1, <3>1, <3>2
    <3>5. imsRun'.type = "overwrite" /\ imsRun'.at = "check" =>
             \A i \in ImsId : imsRun'.current.deleted[i] = NoRecord \/ LateDeleted(i)'
      BY <1>2, <1>5, <1>6, <3>1
    <3>. QED BY <3>3, <3>4, <3>5 DEF NothingIsLeft, RunAt
  <2>2. CASE imsRun.at # "reload"
    BY <1>3, <2>2 DEF NothingIsLeft, RunAt
  <2>. QED BY <2>1, <2>2
<1>11. BackedUp'
  BY <1>1, <1>2, <1>5 DEF ImsIInv, BackedUp, RunAt, AfterDelete
<1>12. ArtifactsFollow' /\ FilesAreWritten'
  BY <1>1, <1>2, <1>3 DEF ImsIInv, ArtifactsFollow, FilesAreWritten, RunAt, all_s3_urls, AfterDelete
<1>13. FailedForAReason' /\ ImsImportIsComplete' /\ NotAlsoDeleted'
  BY <1>3 DEF FailedForAReason, ImsImportIsComplete, NotAlsoDeleted, RunAt
<1>. QED BY <1>7, <1>8, <1>9, <1>10, <1>11, <1>12, <1>13, ImsTypedNext DEF ImsIInv

LEMMA ImsCheckStep ==
    ASSUME ImsIInv, [ImsNext]_imsVars, check_cleared
    PROVE  ImsIInv'
<1>1. imsRun.at = "check" /\ ImsTyped /\ "plan" \in ImsPlaces
  BY DEF check_cleared, ImsIInv, ImsPlaces
<1>2. CASE /\ \/ Ids(imsRun.current.live) # {} \/ imsRun.current.jobs # {}
              \/ imsRun.type = "overwrite" /\ Ids(imsRun.current.deleted) # {}
           /\ RunOnly(ImsFail(Surprise))
  <2>1. imsLate # {}
    BY <1>1, <1>2 DEF ImsIInv, NothingIsLeft, RunAt, Late, LateDeleted, Ids
  <2>. QED BY <1>2, <2>1, FailStep DEF Surprise, Why
<1>3. CASE RunOnly(ImsGo("plan"))
  <2>1. /\ imsRun'.at = "plan" /\ imsRun'.type = imsRun.type
        /\ imsRun'.current = imsRun.current /\ imsRun'.live = imsRun.live
        /\ UNCHANGED <<ims, imsFile, s3, imsExport, imsBackup, imsTouched, imsLate>>
    BY <1>1, <1>3, GoFacts DEF RunOnly, ImsTyped
  <2>2. LiveIsExport' /\ PlacesOfType' /\ NothingIsLeft' /\ DeletionsAreFound'
    <3>1. LiveIsExport'
      BY <1>1, <2>1 DEF ImsIInv, LiveIsExport, RunAt, AfterDelete, Importing
    <3>. QED BY <2>1, <3>1 DEF PlacesOfType, DeletionsAreFound, NothingIsLeft, RunAt
  <2>3. ReadIsCurrent'
    BY <1>1, <2>1 DEF ImsIInv, ReadIsCurrent, RunAt, ImsTouched, Importing
  <2>4. RestIsGone'
    BY <1>1, <2>1 DEF ImsIInv, RestIsGone, RunAt, AfterDelete, LateDeleted
  <2>5. BackedUp' /\ ArtifactsFollow' /\ FilesAreWritten'
    BY <1>1, <2>1 DEF ImsIInv, BackedUp, ArtifactsFollow, FilesAreWritten, RunAt, all_s3_urls,
                      AfterDelete, Late
  <2>6. FailedForAReason' /\ ImsImportIsComplete' /\ NotAlsoDeleted'
    BY <2>1 DEF FailedForAReason, ImsImportIsComplete, NotAlsoDeleted, RunAt
  <2>. QED BY <2>2, <2>3, <2>4, <2>5, <2>6, ImsTypedNext DEF ImsIInv
<1>. QED BY <1>2, <1>3 DEF check_cleared

\* While a run imports, what it knows and what IMS holds stay as they are.
LEMMA ImportingFrame ==
    ASSUME ImsIInv, [ImsNext]_imsVars, imsRun.at \in Importing, imsRun'.at \in Importing,
           imsRun'.type = imsRun.type, imsRun'.current = imsRun.current,
           imsRun'.live = imsRun.live, ArtifactsFollow', FilesAreWritten',
           UNCHANGED <<ims, imsExport, imsBackup, imsTouched, imsLate>>
    PROVE  ImsIInv'
<1>1. /\ imsRun.at \in {"plan", "upload", "write", "restart", "rollout"}
      /\ imsRun'.at \in {"plan", "upload", "write", "restart", "rollout"}
  BY DEF Importing
<1>2. LiveIsExport' /\ PlacesOfType' /\ NothingIsLeft' /\ DeletionsAreFound'
  <2>1. LiveIsExport'
    BY <1>1 DEF ImsIInv, LiveIsExport, RunAt, AfterDelete, Importing
  <2>. QED BY <1>1, <2>1 DEF PlacesOfType, DeletionsAreFound, NothingIsLeft, RunAt
<1>3. ReadIsCurrent'
  BY <1>1 DEF ImsIInv, ReadIsCurrent, RunAt, ImsTouched, Importing
<1>4. RestIsGone'
  BY <1>1 DEF ImsIInv, RestIsGone, RunAt, AfterDelete, LateDeleted, Importing
<1>5. BackedUp'
  <2>1. \A i \in ImsId : ims.live[i] \in {NoRecord, imsBackup.live[i]} \/ Late(i)
    BY <1>1 DEF ImsIInv, BackedUp, RunAt, AfterDelete
  <2>2. \A i \in ImsId : Late(i)' = Late(i)
    BY DEF Late
  <2>. QED BY <2>1, <2>2 DEF BackedUp
<1>6. FailedForAReason' /\ ImsImportIsComplete' /\ NotAlsoDeleted'
  BY <1>1 DEF FailedForAReason, ImsImportIsComplete, NotAlsoDeleted, RunAt
<1>. QED BY <1>2, <1>3, <1>4, <1>5, <1>6, ImsTypedNext DEF ImsIInv

\* ... and the artifacts follow if none is forgotten.
LEMMA ArtifactsStep ==
    ASSUME imsRun'.at \in Importing, imsRun'.live = imsRun.live,
           UNCHANGED <<imsExport, imsLate>>,
           imsExport.s3 = NoS3 \/ all_s3_urls \subseteq imsExport.s3,
           imsRun'.at = "upload" => /\ imsRun'.todo \subseteq HasArtifact
                                    /\ imsRun'.todo \subseteq imsExport.s3,
           \A i \in Ids(imsRun.live) \cap HasArtifact :
              \/ i \in s3' \/ Late(i)
              \/ imsRun'.at = "upload" /\ i \in imsRun'.todo
    PROVE  ArtifactsFollow'
<1>1. all_s3_urls' = all_s3_urls /\ Ids(imsRun.live)' = Ids(imsRun.live)
  BY DEF all_s3_urls, Ids
<1>2. \A i : Late(i)' = Late(i)
  BY DEF Late
<1>3. imsRun'.at # "done"
  BY DEF Importing
<1>4. \A i \in Ids(imsRun.live)' \cap HasArtifact :
         \/ i \in s3' \/ Late(i)'
         \/ RunAt({"upload"})' /\ i \in imsRun'.todo
  BY <1>1, <1>2 DEF RunAt
<1>5. RunAt({"upload"})' => imsRun'.at = "upload"
  BY DEF RunAt
<1>. QED BY <1>1, <1>4, <1>5 DEF ArtifactsFollow

LEMMA UpdateStep ==
    ASSUME ImsIInv, [ImsNext]_imsVars, update_s3
    PROVE  ImsIInv'
<1>1. CASE RunOnly(ImsFail("export"))
  BY <1>1, FailStep DEF Why
<1>2. CASE /\ imsRun'.at = "upload" /\ imsRun'.todo = MissingArtifacts
           /\ imsExport.s3 = NoS3 => MissingArtifacts = {}
           /\ MissingArtifacts \subseteq HasArtifact
           /\ imsRun'.type = imsRun.type /\ imsRun'.current = imsRun.current
           /\ imsRun'.live = imsRun.live
           /\ UNCHANGED <<ims, imsFile, s3, imsExport, imsBackup, imsTouched, imsLate>>
  <2>1. imsRun.at = "plan"
    BY UpdateFacts
  <2>2. imsExport.s3 = NoS3 \/ all_s3_urls \subseteq imsExport.s3
    BY <2>1 DEF ImsIInv, ArtifactsFollow, RunAt, AfterDelete, Importing
  <2>3. /\ MissingArtifacts \subseteq imsExport.s3 /\ all_s3_urls' = all_s3_urls
        /\ \A i \in Ids(imsRun.live) \cap HasArtifact : i \in s3 \/ i \in MissingArtifacts
    BY <1>2, <2>2 DEF MissingArtifacts, all_s3_urls
  <2>4. imsRun.at \in Importing /\ imsRun'.at \in Importing
    BY <1>2, <2>1 DEF Importing
  <2>5. ArtifactsFollow'
    BY <1>2, <2>2, <2>3, <2>4, ArtifactsStep
  <2>6. FilesAreWritten'
    BY <1>2 DEF FilesAreWritten, RunAt
  <2>. QED BY <1>2, <2>4, <2>5, <2>6, ImportingFrame
<1>. QED BY <1>1, <1>2, UpdateFacts

\* A run ends when every file is written, or when there is nothing to write.
LEMMA DoneStep ==
    ASSUME ImsIInv, [ImsNext]_imsVars, imsRun.at \in Importing, imsRun'.at = "done",
           imsRun'.type = imsRun.type, imsRun'.current = imsRun.current,
           imsRun'.live = imsRun.live, ims'.deleted = ims.deleted,
           UNCHANGED <<imsExport, imsLate, s3>>,
           \A i \in Ids(imsRun.live) \cap HasArtifact : i \in s3 \/ Late(i),
           \A i \in ImsId :
              \/ imsRun.live[i] # NoRecord /\ ims'.live[i] = imsRun.live[i]
              \/ imsRun.live[i] = NoRecord /\ ims'.live[i] = imsRun.current.live[i]
              \/ LateKind(i)
    PROVE  ImsIInv'
<1>1. imsRun.at \in {"plan", "upload", "write", "restart", "rollout"}
  BY DEF Importing
<1>2. LiveIsExport'
  BY <1>1 DEF ImsIInv, LiveIsExport, RunAt, AfterDelete, Importing
<1>3. PlacesOfType' /\ NothingIsLeft' /\ DeletionsAreFound' /\ RestIsGone' /\ ReadIsCurrent'
  BY DEF PlacesOfType, DeletionsAreFound, NothingIsLeft, RestIsGone, ReadIsCurrent, RunAt,
         AfterDelete, Importing
<1>4. BackedUp' /\ FilesAreWritten' /\ FailedForAReason'
  BY DEF BackedUp, FilesAreWritten, FailedForAReason, RunAt, AfterDelete, Importing
<1>5. ArtifactsFollow'
  <2>1. /\ "done" \notin AfterDelete /\ "done" \notin {"delete"}
        /\ Ids(imsRun.live)' = Ids(imsRun.live) /\ \A i : Late(i)' = Late(i)
    BY DEF AfterDelete, Importing, Late, Ids
  <2>. QED BY <2>1 DEF ArtifactsFollow, RunAt
<1>6. ImsImportIsComplete'
  <2>1. SUFFICES ASSUME NEW i \in ImsId, imsExport.live[i] # NoRecord, ~LateKind(i)
                 PROVE  \/ ims'.live[i] = "imported"
                        \/ imsRun.type = "add" /\ ims'.live[i] = imsRun.current.live[i]
    BY DEF ImsImportIsComplete, Ids, LateKind
  <2>2. imsExport.live[i] = "imported"
    BY <2>1 DEF ImsIInv, ImsTyped
  <2>3. imsRun.live[i] = imsExport.live[i] \/ (imsRun.type = "add" /\ imsRun.live[i] = NoRecord)
    BY <1>1 DEF ImsIInv, LiveIsExport, RunAt, AfterDelete, Importing
  <2>. QED BY <2>1, <2>2, <2>3
<1>7. NotAlsoDeleted'
  <2>1. \A i \in ImsId : i \in Ids(imsRun.live) =>
          \/ ims.deleted[i] = NoRecord \/ LateDeleted(i)
          \/ imsRun.type = "add" /\ imsRun.current.deleted[i] # NoRecord
    BY <1>1 DEF ImsIInv, RestIsGone, RunAt, AfterDelete, Importing
  <2>2. Ids(imsRun.live)' = Ids(imsRun.live) /\ Ids(imsRun.live) \subseteq ImsId
    BY DEF Ids
  <2>3. ASSUME NEW i \in Ids(imsRun.live)'
        PROVE  \/ (ims.deleted[i] = NoRecord \/ <<"deleted", i>> \in imsLate)'
               \/ imsRun'.type = "add" /\ imsRun'.current.deleted[i] # NoRecord
    <3>1. i \in ImsId /\ i \in Ids(imsRun.live)
      BY <2>2, <2>3
    <3>2. \/ ims.deleted[i] = NoRecord \/ LateDeleted(i)
          \/ imsRun.type = "add" /\ imsRun.current.deleted[i] # NoRecord
      BY <2>1, <3>1
    <3>. QED BY <3>2 DEF LateDeleted
  <2>. QED BY <2>3, Zenon DEF NotAlsoDeleted, InOneListOnly
<1>. QED BY <1>2, <1>3, <1>4, <1>5, <1>6, <1>7, ImsTypedNext DEF ImsIInv

LEMMA LateIsLateKind == \A i \in ImsId : Late(i) => LateKind(i)
BY KindFacts DEF Late, LateKind

LEMMA UploadStep ==
    ASSUME ImsIInv, [ImsNext]_imsVars, upload
    PROVE  ImsIInv'
<1>1. CASE RunOnly(ImsFail("request"))
  BY <1>1, FailStep DEF Why
<1>2. CASE /\ \/ /\ imsRun.todo = {} /\ s3' = s3
                 /\ \/ Ids(imsRun.live) = {} /\ imsRun'.at = "done"
                    \/ imsRun'.at = "write" /\ imsRun'.kind = 1
              \/ \E a \in imsRun.todo : /\ s3' = s3 \cup {a} /\ imsRun'.at = "upload"
                                        /\ imsRun'.todo = imsRun.todo \ {a}
           /\ imsRun'.type = imsRun.type /\ imsRun'.current = imsRun.current
           /\ imsRun'.live = imsRun.live
           /\ UNCHANGED <<ims, imsFile, imsExport, imsBackup, imsTouched, imsLate>>
  <2>1. imsRun.at = "upload" /\ imsRun.at \in Importing /\ "write" \in Importing
        /\ "upload" \in Importing
    BY UploadFacts DEF Importing
  <2>2. /\ imsExport.s3 = NoS3 \/ all_s3_urls \subseteq imsExport.s3
        /\ imsRun.todo \subseteq HasArtifact /\ imsRun.todo \subseteq imsExport.s3
        /\ \A i \in Ids(imsRun.live) \cap HasArtifact : i \in s3 \/ Late(i) \/ i \in imsRun.todo
        /\ all_s3_urls' = all_s3_urls
    BY <1>2, <2>1 DEF ImsIInv, ArtifactsFollow, RunAt, AfterDelete, all_s3_urls
  <2>4. CASE imsRun.todo = {} /\ s3' = s3 /\ Ids(imsRun.live) = {} /\ imsRun'.at = "done"
    <3>1. ASSUME NEW i \in ImsId
          PROVE  \/ imsRun.live[i] # NoRecord /\ ims'.live[i] = imsRun.live[i]
                 \/ imsRun.live[i] = NoRecord /\ ims'.live[i] = imsRun.current.live[i]
                 \/ LateKind(i)
      <4>1. imsRun.live[i] = NoRecord
        BY <2>4 DEF Ids
      <4>2. imsRun.current.live[i] = ims.live[i] \/ ImsTouched(i)
        BY <2>1 DEF ImsIInv, ReadIsCurrent, RunAt
      <4>3. ImsTouched(i) => LateKind(i)
        BY LateIsLateKind DEF ImsIInv, TouchedIsLate, ImsTouched, Late
      <4>. QED BY <1>2, <4>1, <4>2, <4>3
    <3>2. \A i \in Ids(imsRun.live) \cap HasArtifact : i \in s3 \/ Late(i)
      BY <2>4
    <3>3. UNCHANGED <<imsExport, imsLate, s3>> /\ ims'.deleted = ims.deleted
      BY <1>2, <2>4
    <3>. QED BY <1>2, <2>1, <2>4, <3>1, <3>2, <3>3, DoneStep
  <2>5. CASE imsRun.todo = {} /\ s3' = s3 /\ imsRun'.at = "write" /\ imsRun'.kind = 1
    <3>1. ArtifactsFollow'
      BY <1>2, <2>1, <2>2, <2>5, ArtifactsStep
    <3>2. FilesAreWritten'
      BY <2>5, KindFacts DEF FilesAreWritten, RunAt
    <3>. QED BY <1>2, <2>1, <2>5, <3>1, <3>2, ImportingFrame
  <2>6. CASE \E a \in imsRun.todo : /\ s3' = s3 \cup {a} /\ imsRun'.at = "upload"
                                    /\ imsRun'.todo = imsRun.todo \ {a}
    <3>1. ArtifactsFollow'
      BY <1>2, <2>1, <2>2, <2>6, ArtifactsStep
    <3>2. FilesAreWritten'
      BY <2>6 DEF FilesAreWritten, RunAt
    <3>. QED BY <1>2, <2>1, <2>6, <3>1, <3>2, ImportingFrame
  <2>. QED BY <1>2, <2>4, <2>5, <2>6
<1>. QED BY <1>1, <1>2, UploadFacts

LEMMA WriteStep ==
    ASSUME ImsIInv, [ImsNext]_imsVars, write_data_files
    PROVE  ImsIInv'
<1>1. CASE RunOnly(ImsFail("request"))
  BY <1>1, FailStep DEF Why
<1>2. CASE /\ imsRun'.type = imsRun.type /\ imsRun'.current = imsRun.current
           /\ imsRun'.live = imsRun.live
           /\ UNCHANGED <<ims, s3, imsExport, imsBackup, imsTouched, imsLate, imsEdits, imsRuns>>
           /\ \/ imsRun'.at = "write" /\ imsRun'.kind = 1 /\ imsFile' = imsFile
              \/ /\ \/ imsRun.kind = 3 /\ imsRun'.at = "restart"
                    \/ imsRun.kind # 3 /\ imsRun'.at = "write" /\ imsRun'.kind = imsRun.kind + 1
                 /\ \A i \in ImsId : imsFile'[i] =
                       IF KindOf(i) # imsRun.kind THEN imsFile[i]
                       ELSE IF imsRun.live[i] # NoRecord THEN imsRun.live[i]
                       ELSE imsRun.current.live[i]
  <2>1. /\ imsRun.at = "write" /\ imsRun.kind \in 1..3
        /\ imsRun'.at \in {"write", "restart"}
    BY <1>2, WriteFacts DEF ImsIInv, ImsTyped, ImsRunRecord
  <2>2. imsRun.at \in Importing /\ imsRun'.at \in Importing /\ imsRun'.at # "upload"
    BY <2>1 DEF Importing
  <2>3. ArtifactsFollow'
    <3>1. /\ imsExport.s3 = NoS3 \/ all_s3_urls \subseteq imsExport.s3
          /\ \A i \in Ids(imsRun.live) \cap HasArtifact : i \in s3 \/ Late(i)
      BY <2>1 DEF ImsIInv, ArtifactsFollow, RunAt, AfterDelete, Importing
    <3>. QED BY <1>2, <2>2, <3>1, ArtifactsStep
  <2>4. \A i \in ImsId : imsRun.current.live[i] = ims.live[i] \/ ImsTouched(i)
    BY <2>2 DEF ImsIInv, ReadIsCurrent, RunAt
  <2>5. \A i \in ImsId : KindOf(i) < imsRun.kind =>
           /\ imsRun.live[i] # NoRecord => imsFile[i] = imsRun.live[i] \/ LateKind(i)
           /\ imsRun.live[i] = NoRecord =>
                /\ imsFile[i] = imsRun.current.live[i] \/ LateKind(i)
                /\ imsFile[i] = ims.live[i] \/ ImsTouched(i)
    BY <2>1 DEF ImsIInv, FilesAreWritten, RunAt
  <2>6. \A i \in ImsId : ImsTouched(i)' = ImsTouched(i) /\ LateKind(i)' = LateKind(i)
    BY <1>2 DEF ImsTouched, LateKind
  <2>7. FilesAreWritten'
    <3>1. CASE imsRun'.at = "write" /\ imsRun'.kind = 1
      BY <3>1, KindFacts DEF FilesAreWritten, RunAt
    <3>2. CASE /\ \/ imsRun.kind = 3 /\ imsRun'.at = "restart"
                  \/ imsRun.kind # 3 /\ imsRun'.at = "write" /\ imsRun'.kind = imsRun.kind + 1
               /\ \A i \in ImsId : imsFile'[i] =
                       IF KindOf(i) # imsRun.kind THEN imsFile[i]
                       ELSE IF imsRun.live[i] # NoRecord THEN imsRun.live[i]
                       ELSE imsRun.current.live[i]
      <4>1. ASSUME NEW i \in ImsId, imsRun'.at = "write" => KindOf(i) < imsRun'.kind
            PROVE  KindOf(i) < imsRun.kind \/ KindOf(i) = imsRun.kind
        <5>1. KindOf(i) \in 1..3
          BY KindFacts
        <5>. QED BY <2>1, <3>2, <4>1, <5>1
      <4>2. ASSUME NEW i \in ImsId, imsRun'.at = "write" => KindOf(i) < imsRun'.kind
            PROVE  /\ imsRun'.live[i] # NoRecord => imsFile'[i] = imsRun'.live[i] \/ LateKind(i)'
                   /\ imsRun'.live[i] = NoRecord =>
                        /\ imsFile'[i] = imsRun'.current.live[i] \/ LateKind(i)'
                        /\ imsFile'[i] = ims'.live[i] \/ ImsTouched(i)'
        <5>1. CASE KindOf(i) = imsRun.kind
          BY <1>2, <2>4, <2>6, <3>2, <5>1
        <5>2. CASE KindOf(i) < imsRun.kind
          <6>1. imsFile'[i] = imsFile[i]
            BY <2>1, <3>2, <5>2, KindFacts
          <6>. QED BY <1>2, <2>5, <2>6, <5>2, <6>1
        <5>. QED BY <4>1, <4>2, <5>1, <5>2
      <4>. QED BY <4>2 DEF FilesAreWritten, RunAt
    <3>. QED BY <1>2, <3>1, <3>2
  <2>. QED BY <1>2, <2>2, <2>3, <2>7, ImportingFrame
<1>. QED BY <1>1, <1>2, WriteFacts DEF ImsIInv

LEMMA RestartStep ==
    ASSUME ImsIInv, [ImsNext]_imsVars, rollout_restart
    PROVE  ImsIInv'
<1>1. CASE RunOnly(ImsFail("request"))
  BY <1>1, FailStep DEF Why
<1>2. CASE RunOnly(ImsGo("rollout"))
  <2>1. /\ imsRun.at = "restart" /\ imsRun'.at = "rollout" /\ imsRun'.type = imsRun.type
        /\ imsRun'.current = imsRun.current /\ imsRun'.live = imsRun.live
        /\ UNCHANGED <<ims, imsFile, s3, imsExport, imsBackup, imsTouched, imsLate>>
    <3>1. "rollout" \in ImsPlaces
      BY DEF ImsPlaces
    <3>. QED BY <1>2, <3>1, GoFacts DEF RunOnly, ImsIInv, ImsTyped, rollout_restart
  <2>2. imsRun.at \in Importing /\ imsRun'.at \in Importing /\ imsRun'.at # "upload"
    BY <2>1 DEF Importing
  <2>3. ArtifactsFollow'
    <3>1. /\ imsExport.s3 = NoS3 \/ all_s3_urls \subseteq imsExport.s3
          /\ \A i \in Ids(imsRun.live) \cap HasArtifact : i \in s3 \/ Late(i)
      BY <2>1 DEF ImsIInv, ArtifactsFollow, RunAt, AfterDelete, Importing
    <3>. QED BY <2>1, <2>2, <3>1, ArtifactsStep
  <2>4. FilesAreWritten'
    BY <2>1 DEF ImsIInv, FilesAreWritten, RunAt, ImsTouched, LateKind
  <2>. QED BY <2>1, <2>2, <2>3, <2>4, ImportingFrame
<1>. QED BY <1>1, <1>2 DEF rollout_restart

LEMMA RolloutStep ==
    ASSUME ImsIInv, [ImsNext]_imsVars, rollout_status
    PROVE  ImsIInv'
<1>1. /\ imsRun.at = "rollout" /\ imsRun.at \in Importing /\ imsRun'.at = "done"
      /\ imsRun'.type = imsRun.type
      /\ imsRun'.current = imsRun.current /\ imsRun'.live = imsRun.live
      /\ ims'.live = imsFile /\ ims'.deleted = ims.deleted
      /\ UNCHANGED <<imsExport, imsLate, s3>>
  <2>1. "done" \in ImsPlaces /\ "rollout" \in Importing
    BY DEF ImsPlaces, Importing
  <2>. QED BY <2>1, GoFacts, StartedFacts DEF rollout_status, ImsIInv, ImsTyped
<1>2. \A i \in Ids(imsRun.live) \cap HasArtifact : i \in s3 \/ Late(i)
  BY <1>1 DEF ImsIInv, ArtifactsFollow, RunAt
<1>3. \A i \in ImsId :
        /\ imsRun.live[i] # NoRecord => imsFile[i] = imsRun.live[i] \/ LateKind(i)
        /\ imsRun.live[i] = NoRecord => imsFile[i] = imsRun.current.live[i] \/ LateKind(i)
  BY <1>1 DEF ImsIInv, FilesAreWritten, RunAt
<1>. QED BY <1>1, <1>2, <1>3, DoneStep

\* What others do is known to the run: users, the pod that is moved, or nobody.
LEMMA OthersStep ==
    ASSUME ImsIInv, [ImsNext]_imsVars, UNCHANGED <<imsRun, imsExport, imsBackup>>,
           ims'.jobs = ims.jobs, imsLate \subseteq imsLate', imsTouched \subseteq imsTouched',
           \A i \in ImsId : ims'.live[i] = ims.live[i] \/ ImsTouched(i)',
           \A i \in ImsId : ims'.deleted[i] = ims.deleted[i] \/ LateDeleted(i)',
           \A i \in ImsId : i \in s3 => i \in s3' \/ Late(i)',
           \A i \in ImsId : imsFile'[i] = imsFile[i] \/ (LateKind(i)' /\ imsFile'[i] = ims'.live[i])
    PROVE  ImsIInv'
<1>1. \A i \in ImsId : /\ ImsTouched(i) => ImsTouched(i)'
                       /\ ImsTouched(i)' => Late(i)'
                       /\ Late(i) => Late(i)'
                       /\ LateDeleted(i) => LateDeleted(i)'
                       /\ LateKind(i) => LateKind(i)'
                       /\ Late(i)' => LateKind(i)'
  <2>1. imsTouched' \subseteq imsLate'
    BY ImsTypedNext DEF TouchedIsLate
  <2>2. \A i \in ImsId : i \in KindIds[KindOf(i)]
    BY KindFacts
  <2>3. ASSUME NEW i \in ImsId
        PROVE  /\ ImsTouched(i) => ImsTouched(i)'
               /\ ImsTouched(i)' => Late(i)'
               /\ Late(i) => Late(i)'
               /\ LateDeleted(i) => LateDeleted(i)'
    BY <2>1 DEF ImsTouched, Late, LateDeleted
  <2>4. ASSUME NEW i \in ImsId
        PROVE  LateKind(i) => LateKind(i)'
    BY DEF LateKind
  <2>5. ASSUME NEW i \in ImsId, Late(i)'
        PROVE  LateKind(i)'
    <3>1. <<"live", i>> \in imsLate' /\ <<"live", i>>[2] \in KindIds[KindOf(i)]
      BY <2>2, <2>5 DEF Late
    <3>. QED BY <3>1 DEF LateKind
  <2>. QED BY <2>3, <2>4, <2>5
<1>2. imsRun' = imsRun /\ imsExport' = imsExport /\ imsBackup' = imsBackup
  OBVIOUS
<1>3. LiveIsExport' /\ PlacesOfType' /\ FailedForAReason'
  BY <1>2 DEF ImsIInv, LiveIsExport, PlacesOfType, FailedForAReason, RunAt, Overwrites
<1>4. ReadIsCurrent'
  BY <1>1, <1>2 DEF ImsIInv, ReadIsCurrent, RunAt, Overwrites, HasRead
<1>5. DeletionsAreFound'
  BY <1>1, <1>2 DEF ImsIInv, DeletionsAreFound, RunAt, Overwrites, Ids
<1>6. RestIsGone'
  BY <1>1, <1>2 DEF ImsIInv, RestIsGone, RunAt, Overwrites, Ids
<1>7. NothingIsLeft'
  BY <1>1, <1>2 DEF ImsIInv, NothingIsLeft, RunAt, HasRead
<1>8. BackedUp'
  BY <1>1, <1>2 DEF ImsIInv, BackedUp, RunAt
<1>9. ArtifactsFollow'
  BY <1>1, <1>2 DEF ImsIInv, ArtifactsFollow, RunAt, Ids, all_s3_urls
<1>10. FilesAreWritten'
  BY <1>1, <1>2 DEF ImsIInv, FilesAreWritten, RunAt
<1>11. ImsImportIsComplete'
  BY <1>1, <1>2 DEF ImsIInv, ImsImportIsComplete, LateKind, Ids
<1>12. NotAlsoDeleted'
  <2>1. Ids(imsRun.live)' = Ids(imsRun.live) /\ Ids(imsRun.live) \subseteq ImsId
    BY <1>2 DEF Ids
  <2>2. imsRun.at = "done" =>
           \A i \in Ids(imsRun.live) :
              \/ ims.deleted[i] = NoRecord \/ LateDeleted(i)
              \/ imsRun.type = "add" /\ imsRun.current.deleted[i] # NoRecord
    BY Zenon DEF ImsIInv, NotAlsoDeleted, InOneListOnly, LateDeleted
  <2>3. imsRun.at = "done" =>
           \A i \in Ids(imsRun.live) :
              \/ ims'.deleted[i] = NoRecord \/ LateDeleted(i)'
              \/ imsRun.type = "add" /\ imsRun.current.deleted[i] # NoRecord
    BY <1>1, <2>1, <2>2
  <2>4. imsRun'.at = "done" =>
           \A i \in Ids(imsRun.live)' :
              \/ ims'.deleted[i] = NoRecord \/ LateDeleted(i)'
              \/ imsRun'.type = "add" /\ imsRun'.current.deleted[i] # NoRecord
    BY <1>2, <2>1, <2>3
  <2>. QED BY <2>4, Zenon DEF NotAlsoDeleted, InOneListOnly, LateDeleted
<1>. QED BY <1>3, <1>4, <1>5, <1>6, <1>7, <1>8, <1>9, <1>10, <1>11, <1>12, ImsTypedNext DEF ImsIInv

LEMMA UserStep ==
    ASSUME ImsIInv, [ImsNext]_imsVars, NEW i \in ImsId, ImsCreated(i) \/ ImsSoftDeleted(i)
    PROVE  ImsIInv'
<1>1. ImsTyped
  BY DEF ImsIInv
<1>2. /\ UNCHANGED <<imsRun, imsExport, imsBackup>> /\ ims'.jobs = ims.jobs
      /\ imsLate \subseteq imsLate' /\ imsTouched \subseteq imsTouched'
      /\ ImsTouched(i)' /\ Late(i)' /\ LateDeleted(i)'
      /\ \A j \in ImsId \ {i} : ims'.live[j] = ims.live[j] /\ ims'.deleted[j] = ims.deleted[j]
      /\ s3 \subseteq s3' \cup {i}
  BY <1>1, UserFacts DEF ImsTouched, Late, LateDeleted
<1>3. \A j \in ImsId : imsFile'[j] = imsFile[j] \/ (LateKind(j)' /\ imsFile'[j] = ims'.live[j])
  <2>1. SUFFICES ASSUME NEW j \in ImsId, KindOf(j) = KindOf(i)
                 PROVE  LateKind(j)' /\ imsFile'[j] = ims'.live[j]
    BY <1>1, UserFacts
  <2>2. <<"live", i>> \in imsLate' /\ <<"live", i>>[2] \in KindIds[KindOf(j)]
    BY <1>2, <2>1, KindFacts DEF Late
  <2>3. LateKind(j)'
    BY <2>2 DEF LateKind
  <2>. QED BY <1>1, <2>1, <2>3, UserFacts
<1>4. /\ \A j \in ImsId : ims'.live[j] = ims.live[j] \/ ImsTouched(j)'
      /\ \A j \in ImsId : ims'.deleted[j] = ims.deleted[j] \/ LateDeleted(j)'
      /\ \A j \in ImsId : j \in s3 => j \in s3' \/ Late(j)'
  BY <1>2
<1>. QED BY <1>2, <1>3, <1>4, OthersStep

LEMMA ServerRestartsStep ==
    ASSUME ImsIInv, [ImsNext]_imsVars, ServerRestarts
    PROVE  ImsIInv'
<1>1. ImsTyped
  BY DEF ImsIInv
<1>2. /\ UNCHANGED <<imsRun, imsExport, imsBackup, imsFile, s3>>
      /\ ims'.jobs = ims.jobs /\ ims'.deleted = ims.deleted
      /\ imsLate \subseteq imsLate' /\ imsTouched \subseteq imsTouched'
      /\ \A i \in ImsId : ims'.live[i] = ims.live[i] \/ ImsTouched(i)'
  BY <1>1, RestartsFacts DEF ImsTouched
<1>. QED BY <1>2, OthersStep

LEMMA InvInit == ImsInit => ImsIInv
<1>. SUFFICES ASSUME ImsInit PROVE ImsIInv
  OBVIOUS
<1>1. imsRun.at = "idle" /\ imsTouched = {}
  BY NewRunFacts DEF ImsInit
<1>2. LiveIsExport /\ PlacesOfType /\ ReadIsCurrent /\ NothingIsLeft
  BY <1>1 DEF LiveIsExport, PlacesOfType, ReadIsCurrent, NothingIsLeft, RunAt, AfterDelete, Importing
<1>3. DeletionsAreFound /\ RestIsGone /\ BackedUp /\ ArtifactsFollow /\ FilesAreWritten
  BY <1>1 DEF DeletionsAreFound, RestIsGone, BackedUp, ArtifactsFollow, FilesAreWritten, RunAt,
              AfterDelete, Importing
<1>4. FailedForAReason /\ ImsImportIsComplete /\ NotAlsoDeleted /\ TouchedIsLate
  BY <1>1 DEF FailedForAReason, ImsImportIsComplete, NotAlsoDeleted, TouchedIsLate, RunAt
<1>. QED BY <1>2, <1>3, <1>4, ImsTypedInit DEF ImsIInv

LEMMA InvNext == ImsIInv /\ [ImsNext]_imsVars => ImsIInv'
<1>. SUFFICES ASSUME ImsIInv, [ImsNext]_imsVars PROVE ImsIInv'
  OBVIOUS
<1>1. CASE \E type \in ImportTypes, ignore \in BOOLEAN : ImsStart(type, ignore)
  BY <1>1, StartStep
<1>2. CASE ImsScript
  BY <1>2, BackupStep, VerifyStep, DeleteStep, ReloadStep, ImsCheckStep, UpdateStep, UploadStep,
     WriteStep, RestartStep, RolloutStep DEF ImsScript
<1>3. CASE ImsUsers
  BY <1>3, UserStep DEF ImsUsers
<1>4. CASE ServerRestarts
  BY <1>4, ServerRestartsStep
<1>5. CASE UNCHANGED imsVars
  BY <1>5, OthersStep DEF imsVars
<1>. QED BY <1>1, <1>2, <1>3, <1>4, <1>5 DEF ImsNext

LEMMA ImsInvariantHolds == ImsSpec => []ImsIInv
BY InvInit, InvNext, PTL DEF ImsSpec

-----------------------------------------------------------------------------
(* The theorems.                                                           *)

\* The variables have their types; in particular a run that uploads looks for
\* no artifact that its export has not, and a failure has a cause.
THEOREM ImsTypeCorrect == ImsSpec => []ImsTypeOK
<1>1. ImsIInv => ImsTypeOK
  <2>. SUFFICES ASSUME ImsIInv PROVE ImsTypeOK
    OBVIOUS
  <2>1. /\ ims.live \in Table /\ ims.deleted \in Table
        /\ ims.jobs \subseteq ImsJob \X {"running", "success"}
        /\ imsFile \in Table /\ s3 \subseteq HasArtifact
        /\ imsRun.at \in ImsPlaces /\ imsRun.type \in ImportTypes
        /\ imsRun.read \in 1..5 /\ imsRun.kind \in 1..3
        /\ imsRun.live \in Table
        /\ imsRun.why \in {"nothing", "request", "jobs", "export", "users"}
        /\ imsEdits \in 0..MaxImsEdits /\ imsRuns \in 0..MaxImsRuns
    BY DEF ImsIInv, ImsTyped, Data, JobRecord, ImsRunRecord, Why
  <2>2. imsRun.at = "upload" => imsRun.todo \subseteq imsExport.s3
    BY DEF ImsIInv, ArtifactsFollow, RunAt
  <2>3. imsRun.at = "failed" => imsRun.why # "nothing"
    BY DEF ImsIInv, FailedForAReason, RunAt
  <2>. QED BY <2>1, <2>2, <2>3 DEF ImsTypeOK
<1>. QED BY <1>1, ImsInvariantHolds, PTL

\* After an import that reports success, the exported records are what was
\* exported, whatever failed runs, users and restarts did between the deletions,
\* the uploads and the writing of the files behind the back of IMS.
THEOREM ImsImportsAreComplete == ImsSpec => []ImsImportIsComplete
<1>1. ImsIInv => ImsImportIsComplete
  BY DEF ImsIInv
<1>. QED BY <1>1, ImsInvariantHolds, PTL

\* What an import brought in has its artifact in S3, though IMS deletes artifacts
\* with their records; and it is not in the list of deleted records as well, unless
\* an `add' brought it back while it was there.
THEOREM ArtifactsDoStay == ImsSpec => []ArtifactsStay
<1>1. ImsIInv => ArtifactsAreThere
  <2>. SUFFICES ASSUME ImsIInv, imsRun.at = "done"
                PROVE  \A i \in Ids(imsRun.live) \cap HasArtifact : i \in s3 \/ Late(i)
    BY Zenon DEF ArtifactsAreThere, Late
  <2>. QED BY DEF ImsIInv, ArtifactsFollow, RunAt
<1>2. ImsIInv => ArtifactsStay
  BY <1>1 DEF ImsIInv, ArtifactsStay
<1>. QED BY <1>2, ImsInvariantHolds, PTL

\* Only deletions and the restart at the end change what IMS holds.
LEMMA ImsScriptChanges ==
    ASSUME ImsIInv, ImsScript
    PROVE  \/ UNCHANGED ims
           \/ /\ imsRun.at = "delete" /\ \E d \in imsRun.todo : ims' = Deleted(d)
              /\ imsRun.todo \subseteq Deletion
           \/ imsRun.at = "rollout" /\ ims'.live = imsFile /\ ims'.deleted = ims.deleted
<1>1. ImsTyped
  BY DEF ImsIInv
<1>2. CASE pre_import_backup \/ verify_artifact_files_exist \/ reload
  BY <1>2 DEF pre_import_backup, verify_artifact_files_exist, reload, ReadLists, RunOnly
<1>3. CASE check_cleared \/ update_s3 \/ upload \/ write_data_files \/ rollout_restart
  BY <1>3 DEF check_cleared, update_s3, upload, write_data_files, rollout_restart, RunOnly
<1>4. CASE delete_resources
  <2>1. CASE UNCHANGED <<ims, imsFile, s3>>
    BY <2>1
  <2>2. CASE RunOnly(ImsFail(Surprise))
    BY <2>2 DEF RunOnly
  <2>3. CASE \E d \in imsRun.todo : ims' \in {ims, Deleted(d)}
    BY <1>4, <2>3, DeleteFacts
  <2>. QED BY <1>4, <2>1, <2>2, <2>3, DeleteFacts
<1>5. CASE rollout_status
  BY <1>1, <1>5, StartedFacts DEF rollout_status
<1>. QED BY <1>2, <1>3, <1>4, <1>5 DEF ImsScript

\* What a run deletes, or replaces by its restart of IMS, is in the backup that it
\* made before, as it was, unless others changed it after the backup.
THEOREM DeletedWasBackedUp == ImsSpec => DeletedIsBackedUp
<1>1. ASSUME ImsIInv, ImsScript, NEW i \in ImsId
      PROVE  /\ ims.live[i] # NoRecord /\ ims'.live[i] # ims.live[i] =>
                  imsBackup.live[i] = ims.live[i] \/ <<"live", i>> \in imsLate
             /\ ims.deleted[i] # NoRecord /\ ims'.deleted[i] # ims.deleted[i] =>
                  imsBackup.deleted[i] = ims.deleted[i] \/ <<"deleted", i>> \in imsLate
  <2>1. CASE UNCHANGED ims
    BY <2>1
  <2>2. ASSUME imsRun.at = "delete", NEW d \in imsRun.todo, ims' = Deleted(d),
               imsRun.todo \subseteq Deletion
        PROVE  /\ ims'.live[i] # ims.live[i] => imsBackup.live[i] = ims.live[i] \/ Late(i)
               /\ ims'.deleted[i] # ims.deleted[i] =>
                     imsBackup.deleted[i] = ims.deleted[i] \/ LateDeleted(i)
    <3>1. imsBackup = imsRun.current
      BY <1>1, <2>2 DEF ImsIInv, ReadIsCurrent, RunAt
    <3>2. /\ ims'.live[i] # ims.live[i] => d = <<"hard", i>> \/ d = <<"soft", i>>
          /\ ims'.deleted[i] # ims.deleted[i] => d = <<"soft", i>> \/ d = <<"deleted", i>>
      <4>1. ImsTyped /\ d \in Deletion
        BY <1>1, <2>2 DEF ImsIInv
      <4>. QED BY <2>2, <4>1, DeletedFacts
    <3>3. /\ <<"hard", i>> \in imsRun.todo \/ <<"soft", i>> \in imsRun.todo =>
                imsRun.current.live[i] = ims.live[i] \/ Late(i)
          /\ <<"soft", i>> \in imsRun.todo \/ <<"deleted", i>> \in imsRun.todo =>
                imsRun.current.deleted[i] = ims.deleted[i] \/ LateDeleted(i)
      BY <1>1, <2>2 DEF ImsIInv, DeletionsAreFound, RunAt
    <3>. QED BY <2>2, <3>1, <3>2, <3>3
  <2>3. CASE imsRun.at = "rollout" /\ ims'.live = imsFile /\ ims'.deleted = ims.deleted
    <3>1. ims.live[i] \in {NoRecord, imsBackup.live[i]} \/ Late(i)
      BY <1>1, <2>3 DEF ImsIInv, BackedUp, RunAt, AfterDelete, Importing
    <3>. QED BY <2>3, <3>1 DEF Late
  <2>4. CASE /\ imsRun.at = "delete" /\ \E d \in imsRun.todo : ims' = Deleted(d)
             /\ imsRun.todo \subseteq Deletion
    BY <2>2, <2>4 DEF Late, LateDeleted
  <2>. QED BY <1>1, <2>1, <2>3, <2>4, ImsScriptChanges
<1>2. ImsIInv =>
        [ImsScript =>
          \A i \in ImsId :
            /\ ims.live[i] # NoRecord /\ ims'.live[i] # ims.live[i] =>
                 imsBackup.live[i] = ims.live[i] \/ <<"live", i>> \in imsLate
            /\ ims.deleted[i] # NoRecord /\ ims'.deleted[i] # ims.deleted[i] =>
                 imsBackup.deleted[i] = ims.deleted[i] \/ <<"deleted", i>> \in imsLate]_imsVars
  BY <1>1
<1>. QED BY <1>2, ImsInvariantHolds, PTL DEF DeletedIsBackedUp

\* An import other than `overwrite' loses no record that it does not import: not by
\* its deletions, and not by the files, which hold what the run had read.
THEOREM OthersDoStay == ImsSpec => OthersAreKept
<1>1. ASSUME ImsIInv, ImsScript, imsRun.type # "overwrite",
             NEW i \in ImsId \ Ids(imsExport.live), ims.live[i] # NoRecord
      PROVE  ims.live[i] \in {ims'.live[i], ims'.deleted[i]} \/ <<"live", i>> \in imsTouched
  <2>1. CASE UNCHANGED ims
    BY <2>1
  <2>2. RunAt({"delete", "rollout"}) => imsRun.live[i] = NoRecord
    <3>1. imsExport.live[i] = NoRecord
      BY DEF Ids
    <3>. QED BY <1>1, <3>1 DEF ImsIInv, LiveIsExport, RunAt, AfterDelete, Importing
  <2>3. ASSUME imsRun.at = "delete", NEW d \in imsRun.todo, ims' = Deleted(d),
               imsRun.todo \subseteq Deletion
        PROVE  ims.live[i] \in {ims'.live[i], ims'.deleted[i]}
    <3>1. d # <<"hard", i>>
      BY <1>1, <2>2, <2>3 DEF ImsIInv, DeletionsAreFound, RunAt, Ids
    <3>2. ImsTyped /\ d \in Deletion
      BY <1>1, <2>3 DEF ImsIInv
    <3>. QED BY <2>3, <3>1, <3>2, DeletedFacts
  <2>4. CASE imsRun.at = "rollout" /\ ims'.live = imsFile /\ ims'.deleted = ims.deleted
    <3>1. imsFile[i] = ims.live[i] \/ ImsTouched(i)
      BY <1>1, <2>2, <2>4 DEF ImsIInv, FilesAreWritten, RunAt
    <3>. QED BY <2>4, <3>1 DEF ImsTouched
  <2>. QED BY <1>1, <2>1, <2>3, <2>4, ImsScriptChanges
<1>2. ImsIInv =>
        [ImsScript /\ imsRun.type # "overwrite" =>
          \A i \in ImsId \ Ids(imsExport.live) :
            ims.live[i] # NoRecord =>
                ims.live[i] \in {ims'.live[i], ims'.deleted[i]}
                \/ <<"live", i>> \in imsTouched]_imsVars
  BY <1>1
<1>. QED BY <1>2, ImsInvariantHolds, PTL DEF OthersAreKept

=============================================================================
