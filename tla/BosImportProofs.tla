--------------------------- MODULE BosImportProofs ---------------------------
(***************************************************************************)
(* Proofs about BosImport: for any names, tenants, options and sessions,   *)
(* any contents of BOS and of the files, failing requests and any number   *)
(* of runs and of changes by users, a cleared BOS holds what was imported, *)
(* nothing of the import is missing after a run that succeeds, active      *)
(* sessions are not deleted, what is removed was exported before, and      *)
(* without the option to clear templates stay.                             *)
(***************************************************************************)
EXTENDS BosImport, TLAPS

BosRunRecord == [at : BosPlaces, read : 0..2, clear : BOOLEAN, ignore : BOOLEAN,
              imported : [TemplateId -> BosText \cup {Nothing}],
              current : SUBSET TemplateId, options : SUBSET BosOption,
              todo : SUBSET (TemplateId \cup BosSession), trouble : BOOLEAN]

\* Where the list of what is still to do holds templates.
OfTemplates == {"clear", "snapshot", "change_options", "create"}

\* The variables and the plan of the run are well-formed; the options to change
\* are in the file and in BOS, and templates are deleted and created under ids.
BosTyped ==
    /\ bos \in BosContents /\ bosSnap \in BosContents
    /\ bosFiles \in Seq(BosTemplate)
    /\ bosOptionFile \in [BosOption -> {"old", "new", Nothing}]
    /\ bosRun \in BosRunRecord
    /\ bosRun.at \in OfTemplates => bosRun.todo \subseteq TemplateId
    /\ \A o \in bosRun.options : bos.options[o] # Nothing /\ bosOptionFile[o] # Nothing
    /\ bosEdits \in 0..MaxBosEdits /\ bosRuns \in 0..MaxBosRuns

-----------------------------------------------------------------------------
(* Type correctness.                                                       *)

LEMMA LoadedTemplates ==
    ASSUME NEW files \in Seq(BosTemplate)
    PROVE  load_templates_from_import_data(files) \in [TemplateId -> BosText \cup {Nothing}]
<1>. SUFFICES ASSUME NEW id \in TemplateId, NEW i \in DOMAIN files, UniqueId(files[i]) = id
              PROVE  (CHOOSE t \in {files[k] : k \in DOMAIN files} : UniqueId(t) = id).text \in BosText
  BY DEF load_templates_from_import_data
<1>1. \A k \in DOMAIN files : files[k] \in BosTemplate
  OBVIOUS
<1>2. \E t \in {files[k] : k \in DOMAIN files} : UniqueId(t) = id
  OBVIOUS
<1>3. (CHOOSE t \in {files[k] : k \in DOMAIN files} : UniqueId(t) = id) \in BosTemplate
  BY <1>1, <1>2
<1>. QED BY <1>3 DEF BosTemplate

\* Where a run is may be changed alone.
LEMMA GotoTyped ==
    ASSUME bosRun \in BosRunRecord, NEW p \in BosPlaces
    PROVE  /\ Goto(p) \in BosRunRecord
           /\ Goto(p).at = p
           /\ \A f \in {"read", "clear", "ignore", "imported", "current", "options", "todo", "trouble"} :
                Goto(p)[f] = bosRun[f]
BY DEF Goto, BosRunRecord

LEMMA GotoWithTodo ==
    ASSUME bosRun \in BosRunRecord, NEW p \in BosPlaces, NEW t
    PROVE  LET next == [Goto(p) EXCEPT !.todo = t]
           IN  /\ next.at = p /\ next.todo = t
               /\ next.imported = bosRun.imported /\ next.options = bosRun.options
               /\ next.current = bosRun.current /\ next.clear = bosRun.clear
BY DEF Goto, BosRunRecord

LEMMA SnapshotTyped ==
    ASSUME BosTyped, NEW from \in BosPlaces, NEW to \in BosPlaces, BosExport(from, to),
           to \in OfTemplates => from \in OfTemplates
    PROVE  BosTyped'
<1>1. bosRun.read \in 0..2
  BY DEF BosTyped, BosRunRecord
<1>2. bosSnap' \in BosContents
  <2>1. CASE bosRun.read = 0
    BY <2>1 DEF BosExport, ExportOrder, BosTyped, BosContents
  <2>2. CASE bosRun.read = 1
    BY <2>2 DEF BosExport, ExportOrder, BosTyped, BosContents
  <2>3. CASE bosRun.read = 2
    BY <2>3 DEF BosExport, ExportOrder, BosTyped, BosContents
  <2>. QED BY <1>1, <2>1, <2>2, <2>3
<1>3. bosRun' \in BosRunRecord /\ bosRun'.at \in {from, to} /\ bosRun'.options = bosRun.options
       /\ bosRun'.todo = bosRun.todo
  <2>1. CASE bosRun.read = 2
    <3>1. bosRun' = [Goto(to) EXCEPT !.read = 0]
      BY <2>1 DEF BosExport
    <3>. QED BY <3>1, GotoTyped DEF BosTyped, BosRunRecord
  <2>2. CASE bosRun.read # 2
    <3>1. bosRun' = [bosRun EXCEPT !.read = bosRun.read + 1] /\ bosRun.at = from
      BY <2>2 DEF BosExport
    <3>2. bosRun.read + 1 \in 0..2
      BY <1>1, <2>2
    <3>. QED BY <3>1, <3>2 DEF BosTyped, BosRunRecord
  <2>. QED BY <2>1, <2>2
<1>. QED BY <1>2, <1>3 DEF BosExport, BosTyped, OfTemplates

LEMMA BosNewRunTyped ==
    /\ NewRun \in BosRunRecord
    /\ NewRun.at = "idle" /\ NewRun.options = {} /\ NewRun.todo = {}
<1>1. NothingRead.templates \in [TemplateId -> BosText \cup {Nothing}]
  BY DEF NothingRead
<1>. HIDE DEF NothingRead
<1>. QED BY <1>1 DEF NewRun, BosRunRecord, BosPlaces

LEMMA BosTypedInit == BosInit => BosTyped
BY BosAssumption DEF BosInit, BosTyped, NewRun, BosRunRecord, BosPlaces, NothingRead, BosContents

LEMMA BosTypedNext == BosTyped /\ [BosNext]_bosVars => BosTyped'
<1>. SUFFICES ASSUME BosTyped, [BosNext]_bosVars PROVE BosTyped'
  OBVIOUS
<1>. USE BosAssumption DEF Goto, BosFail, After, OfTemplates
<1>1. ASSUME NEW clear \in BOOLEAN, NEW ignore \in BOOLEAN, BosStart(clear, ignore)
      PROVE  BosTyped'
  <2>1. bosRun' \in BosRunRecord /\ bosRun'.options = {} /\ bosRun'.at = "files"
    BY <1>1, BosNewRunTyped DEF BosStart, BosRunRecord, BosPlaces
  <2>. QED BY <1>1, <2>1 DEF BosStart, BosTyped
<1>2. CASE read_files
  BY <1>2, LoadedTemplates DEF read_files, Local, BosTyped, BosRunRecord, BosPlaces
<1>3. CASE plan_bos_options
  BY <1>3 DEF plan_bos_options, Local, BosTyped, BosRunRecord, BosPlaces, BosOptionsToChange
<1>4. CASE load_current_templates
  BY <1>4 DEF load_current_templates, BosTyped, BosRunRecord, BosPlaces, Templates
<1>5. CASE bos_check_before_clear
  BY <1>5 DEF bos_check_before_clear, Local, BosTyped, BosRunRecord, BosPlaces
<1>6. CASE snapshot_bos_data
  BY <1>6, SnapshotTyped DEF snapshot_bos_data, BosPlaces, OfTemplates
<1>7. CASE list_all_sessions
  BY <1>7 DEF list_all_sessions, Local, BosTyped, BosRunRecord, BosPlaces, Sessions
<1>8. CASE delete_session
  <2>1. PICK n \in bosRun.todo, e \in BosDelete :
          /\ bos' = IF e = "failed" THEN bos ELSE [bos EXCEPT !.sessions[n] = Nothing]
          /\ LET left == bosRun.todo \ {n}
             IN  bosRun' = After(e, [Goto(IF left = {} THEN "no_sessions" ELSE "sessions")
                                       EXCEPT !.todo = left])
    BY <1>8 DEF delete_session
  <2>2. bos' \in BosContents /\ bos'.options = bos.options
    BY <2>1 DEF BosTyped, BosContents
  <2>3. bosRun' \in BosRunRecord /\ bosRun'.options = bosRun.options /\ bosRun'.at \notin OfTemplates
    BY <2>1 DEF BosTyped, BosRunRecord, BosPlaces
  <2>. QED BY <1>8, <2>2, <2>3 DEF delete_session, BosTyped
<1>9. CASE no_sessions_left
  BY <1>9 DEF no_sessions_left, Local, BosTyped, BosRunRecord, BosPlaces
<1>10. CASE delete_session_template
  <2>1. CASE bosRun.todo = {}
    BY <1>10, <2>1 DEF delete_session_template, BosTyped, BosRunRecord, BosPlaces
  <2>2. CASE bosRun.todo # {}
    <3>1. PICK i \in bosRun.todo, e \in BosDelete :
            /\ bos' = IF e = "failed" THEN bos ELSE [bos EXCEPT !.templates[i] = Nothing]
            /\ bosRun' = After(e, [bosRun EXCEPT !.todo = @ \ {i}])
      BY <1>10, <2>2 DEF delete_session_template
    <3>2. bos' \in BosContents /\ bos'.options = bos.options
      <4>1. i \in TemplateId
        BY <1>10 DEF delete_session_template, BosTyped
      <4>. QED BY <3>1, <4>1 DEF BosTyped, BosContents
    <3>3. bosRun' \in BosRunRecord /\ bosRun'.options = bosRun.options /\ bosRun'.todo \subseteq bosRun.todo
      BY <3>1 DEF BosTyped, BosRunRecord, BosPlaces
    <3>. QED BY <1>10, <3>2, <3>3 DEF delete_session_template, BosTyped
  <2>. QED BY <2>1, <2>2
<1>11. CASE no_templates_left
  BY <1>11 DEF no_templates_left, Local, BosTyped, BosRunRecord, BosPlaces
<1>12. CASE plan_templates
  BY <1>12 DEF plan_templates, get_templates_to_import, Local, BosTyped, BosRunRecord, BosPlaces
<1>13. CASE change_bos_options
  <2>1. CASE bosRun.options = {}
    <3>1. bosRun' \in BosRunRecord /\ bosRun'.options = bosRun.options /\ bosRun'.todo = bosRun.todo
          /\ bosRun.at = "change_options" /\ bos' = bos
      BY <1>13, <2>1 DEF change_bos_options, BosTyped, BosRunRecord, BosPlaces
    <3>. QED BY <1>13, <3>1 DEF change_bos_options, BosTyped
  <2>2. CASE bosRun.options # {}
    <3>1. PICK e \in BosPut :
            /\ bos' = IF e = "failed" THEN bos
                      ELSE [bos EXCEPT !.options = [o \in BosOption |->
                              IF o \in bosRun.options THEN bosOptionFile[o] ELSE @[o]]]
            /\ bosRun' = After(e, Goto("create"))
      BY <1>13, <2>2 DEF change_bos_options
    <3>2. bos' \in BosContents /\ \A o \in bosRun.options : bos'.options[o] # Nothing
      BY <3>1 DEF BosTyped, BosRunRecord, BosContents
    <3>3. bosRun' \in BosRunRecord /\ bosRun'.options = bosRun.options /\ bosRun'.todo = bosRun.todo
      BY <3>1 DEF BosTyped, BosRunRecord, BosPlaces
    <3>4. bosRun.todo \subseteq TemplateId
      BY <1>13 DEF change_bos_options, BosTyped
    <3>. QED BY <1>13, <3>2, <3>3, <3>4 DEF change_bos_options, BosTyped
  <2>. QED BY <2>1, <2>2
<1>14. CASE create_session_template
  <2>1. CASE bosRun.todo = {}
    BY <1>14, <2>1 DEF create_session_template, BosTyped, BosRunRecord, BosPlaces
  <2>2. CASE bosRun.todo # {}
    <3>1. PICK i \in bosRun.todo, e \in BosPut :
            /\ bos' = IF e = "failed" THEN bos
                      ELSE [bos EXCEPT !.templates[i] = bosRun.imported[i]]
            /\ bosRun' = After(e, [bosRun EXCEPT !.todo = @ \ {i}])
      BY <1>14, <2>2 DEF create_session_template
    <3>2. bos' \in BosContents /\ bos'.options = bos.options
      BY <1>14, <3>1 DEF create_session_template, BosTyped, BosRunRecord, BosContents
    <3>3. bosRun' \in BosRunRecord /\ bosRun'.options = bosRun.options /\ bosRun'.todo \subseteq bosRun.todo
      BY <3>1 DEF BosTyped, BosRunRecord, BosPlaces
    <3>. QED BY <1>14, <3>2, <3>3 DEF create_session_template, BosTyped
  <2>. QED BY <2>1, <2>2
<1>15. ASSUME NEW i \in TemplateId, BosUser("templates", i, "user")
       PROVE  BosTyped'
  <2>1. bos' \in BosContents /\ bos'.options = bos.options
    BY <1>15 DEF BosUser, BosTyped, BosContents, BosText
  <2>2. bosEdits' \in 0..MaxBosEdits
    BY <1>15 DEF BosUser, BosTyped
  <2>. QED BY <1>15, <2>1, <2>2 DEF BosUser, BosTyped
<1>16. ASSUME NEW n \in BosSession, NEW s \in {"active", "complete"}, BosUser("sessions", n, s)
       PROVE  BosTyped'
  <2>1. bos' \in BosContents /\ bos'.options = bos.options
    BY <1>16 DEF BosUser, BosTyped, BosContents
  <2>2. bosEdits' \in 0..MaxBosEdits
    BY <1>16 DEF BosUser, BosTyped
  <2>. QED BY <1>16, <2>1, <2>2 DEF BosUser, BosTyped
<1>17. CASE UNCHANGED bosVars
  BY <1>17 DEF bosVars, BosTyped
<1>. QED BY <1>1, <1>2, <1>3, <1>4, <1>5, <1>6, <1>7, <1>8, <1>9, <1>10, <1>11, <1>12, <1>13, <1>14,
            <1>15, <1>16, <1>17 DEF BosNext, BosScript, BosUsers

\* What BOS, its exports and a run hold is well-formed, and a run changes only
\* options that BOS has.
THEOREM BosTypeCorrect == BosSpec => []BosTypeOK
<1>1. BosTyped => BosTypeOK
  BY DEF BosTyped, BosTypeOK, BosRunRecord
<1>. QED BY <1>1, BosTypedInit, BosTypedNext, PTL DEF BosSpec

-----------------------------------------------------------------------------
(* Active sessions.                                                        *)

\* From the check until the sessions are deleted, only sessions that users have
\* started since the templates were listed are active.
ActiveIsNew ==
    bosRun.at \in {"snapshot_clear", "list_sessions", "sessions"} /\ ~bosRun.ignore =>
        \A n \in BosSession : bos.sessions[n] = "active" => <<"sessions", n>> \in bosTouched

LEMMA ActiveIsNewNext == BosTyped /\ ActiveIsNew /\ [BosNext]_bosVars => ActiveIsNew'
<1>. SUFFICES ASSUME BosTyped, ActiveIsNew, [BosNext]_bosVars PROVE ActiveIsNew'
  OBVIOUS
<1>. USE DEF Goto, BosFail, After, ActiveIsNew
<1>1. ASSUME NEW clear \in BOOLEAN, NEW ignore \in BOOLEAN, BosStart(clear, ignore)
      PROVE  bosRun'.at = "files"
  BY <1>1, BosNewRunTyped DEF BosStart, BosRunRecord
<1>2. CASE bos_check_before_clear
  BY <1>2 DEF bos_check_before_clear, Local, BosBusy, BosTyped, BosRunRecord
<1>3. CASE snapshot_bos_data
  BY <1>3 DEF snapshot_bos_data, BosExport, BosTyped, BosRunRecord
<1>4. CASE list_all_sessions
  BY <1>4 DEF list_all_sessions, Local, BosTyped, BosRunRecord
<1>5. CASE delete_session
  <2>1. PICK n \in bosRun.todo, e \in BosDelete :
          /\ bos' = IF e = "failed" THEN bos ELSE [bos EXCEPT !.sessions[n] = Nothing]
          /\ LET left == bosRun.todo \ {n}
             IN  bosRun' = After(e, [Goto(IF left = {} THEN "no_sessions" ELSE "sessions")
                                       EXCEPT !.todo = left])
    BY <1>5 DEF delete_session
  <2>2. bosRun'.ignore = bosRun.ignore
    BY <2>1 DEF BosTyped, BosRunRecord
  <2>3. \A m \in BosSession : bos'.sessions[m] = "active" => bos.sessions[m] = "active"
    BY <2>1 DEF BosTyped, BosContents, Nothing
  <2>. QED BY <1>5, <2>2, <2>3 DEF delete_session
<1>6. ASSUME \/ read_files \/ plan_bos_options \/ load_current_templates
             \/ no_sessions_left \/ delete_session_template \/ no_templates_left
             \/ plan_templates \/ change_bos_options \/ create_session_template
      PROVE  bosRun'.at \notin {"snapshot_clear", "list_sessions", "sessions"}
  <2>1. CASE read_files
    BY <2>1 DEF read_files, Local, BosTyped, BosRunRecord
  <2>2. CASE plan_bos_options
    BY <2>2 DEF plan_bos_options, Local, BosTyped, BosRunRecord
  <2>3. CASE load_current_templates
    BY <2>3 DEF load_current_templates, BosTyped, BosRunRecord
  <2>4. CASE no_sessions_left
    BY <2>4 DEF no_sessions_left, Local, BosTyped, BosRunRecord
  <2>5. CASE delete_session_template
    BY <2>5 DEF delete_session_template, BosTyped, BosRunRecord
  <2>6. CASE no_templates_left
    BY <2>6 DEF no_templates_left, Local, BosTyped, BosRunRecord
  <2>7. CASE plan_templates
    BY <2>7 DEF plan_templates, Local, BosTyped, BosRunRecord
  <2>8. CASE change_bos_options
    BY <2>8 DEF change_bos_options, BosTyped, BosRunRecord
  <2>9. CASE create_session_template
    BY <2>9 DEF create_session_template, BosTyped, BosRunRecord
  <2>. QED BY <1>6, <2>1, <2>2, <2>3, <2>4, <2>5, <2>6, <2>7, <2>8, <2>9
<1>7. ASSUME NEW i \in TemplateId, BosUser("templates", i, "user")
      PROVE  ActiveIsNew'
  BY <1>7 DEF BosUser, BosTyped, BosContents
<1>8. ASSUME NEW n \in BosSession, NEW s \in {"active", "complete"}, BosUser("sessions", n, s)
      PROVE  ActiveIsNew'
  BY <1>8 DEF BosUser, BosTyped, BosContents
<1>9. CASE UNCHANGED bosVars
  BY <1>9 DEF bosVars
<1>. QED BY <1>1, <1>2, <1>3, <1>4, <1>5, <1>6, <1>7, <1>8, <1>9 DEF BosNext, BosScript, BosUsers

\* No script step but the deletion of sessions deletes sessions.
LEMMA SessionsDeletedOnce ==
    ASSUME BosTyped, BosScript, NEW n \in BosSession, bos.sessions[n] # Nothing, bos'.sessions[n] = Nothing
    PROVE  delete_session
BY DEF BosScript, read_files, plan_bos_options, load_current_templates, bos_check_before_clear,
       snapshot_bos_data, BosExport, list_all_sessions, no_sessions_left, delete_session_template,
       no_templates_left, plan_templates, change_bos_options, create_session_template, Local,
       BosTyped, BosContents

\* Whatever fails and whoever uses BOS meanwhile, a run that was not told to ignore
\* active sessions deletes none but those started while it was clearing.
THEOREM ActiveSessionsDoSurvive == BosSpec => ActiveSessionsSurvive
<1>1. BosInit => ActiveIsNew
  BY DEF BosInit, NewRun, ActiveIsNew
<1>2. BosTyped /\ ActiveIsNew /\ [BosNext]_bosVars =>
        [BosScript /\ ~bosRun.ignore =>
            \A n \in BosSession : bos.sessions[n] = "active" /\ bos'.sessions[n] = Nothing =>
                <<"sessions", n>> \in bosTouched]_bosVars
  <2>. SUFFICES ASSUME BosTyped, ActiveIsNew, BosScript, ~bosRun.ignore,
                       NEW n \in BosSession, bos.sessions[n] = "active", bos'.sessions[n] = Nothing
                PROVE  <<"sessions", n>> \in bosTouched
    OBVIOUS
  <2>1. delete_session
    BY SessionsDeletedOnce DEF Nothing
  <2>. QED BY <2>1 DEF delete_session, ActiveIsNew
<1>. QED BY <1>1, <1>2, BosTypedInit, BosTypedNext, ActiveIsNewNext, PTL DEF BosSpec, ActiveSessionsSurvive

-----------------------------------------------------------------------------
(* What a run has read and planned.                                        *)

Emptying == {"check_clear", "snapshot_clear", "list_sessions", "sessions", "no_sessions"}
Filling == {"snapshot", "change_options", "create", "snapshot_after", "done"}
BosTouched(i) == <<"templates", i>> \in bosTouched

\* The plan is made of the files, which do not contradict themselves.
FilesRead ==
    bosRun.at \notin {"idle", "files", "failed"} =>
        /\ ~Contradictory(bosFiles)
        /\ bosRun.imported = load_templates_from_import_data(bosFiles)

\* While BOS is emptied the list of what to delete holds every template but
\* those of users; after that BOS holds those and what was imported.
Emptied ==
    \A i \in TemplateId :
        /\ bosRun.at \in Emptying /\ bos.templates[i] # Nothing => i \in bosRun.current \/ BosTouched(i)
        /\ bosRun.at = "clear" /\ bos.templates[i] # Nothing => i \in bosRun.todo \/ BosTouched(i)
        /\ bosRun.at \in Filling \cup {"plan"} /\ bosRun.clear =>
             bos.templates[i] \in {Nothing, bosRun.imported[i]} \/ BosTouched(i)

\* What is planned to be left alone exists, and what does not exist is planned.
TemplatesPlanned ==
    /\ bosRun.at = "plan" => \A i \in bosRun.current : bos.templates[i] # Nothing
    /\ bosRun.at \in Filling =>
         \A i \in TemplateId : bosRun.imported[i] # Nothing =>
            \/ bos.templates[i] # Nothing
            \/ bosRun.at \notin {"snapshot_after", "done"} /\ i \in bosRun.todo
    /\ bosRun.at \in {"snapshot", "change_options", "create"} =>
         \A i \in bosRun.todo : bosRun.imported[i] # Nothing

OptionSet(o) == bosOptionFile[o] = Nothing \/ bos.options[o] \in {Nothing, bosOptionFile[o]}
\* The options that differ are those to change, until they are changed.
OptionsPlanned ==
    \A o \in BosOption :
        /\ bosRun.at \notin {"idle", "files", "options", "failed"} => OptionSet(o) \/ o \in bosRun.options
        /\ bosRun.at \in {"create", "snapshot_after", "done"} => OptionSet(o)

BosIInv == BosTyped /\ FilesRead /\ Emptied /\ TemplatesPlanned /\ OptionsPlanned

LEMMA BosIInvInit == BosInit => BosIInv
<1>. SUFFICES ASSUME BosInit PROVE BosIInv
  OBVIOUS
<1>1. bosRun.at = "idle"
  BY BosNewRunTyped DEF BosInit
<1>. QED BY <1>1, BosTypedInit DEF BosIInv, FilesRead, Emptied, TemplatesPlanned, OptionsPlanned,
                                Emptying, Filling

LEMMA BosStartKeeps ==
    ASSUME BosIInv, NEW clear \in BOOLEAN, NEW ignore \in BOOLEAN, BosStart(clear, ignore)
    PROVE  FilesRead' /\ Emptied' /\ TemplatesPlanned' /\ OptionsPlanned'
<1>1. bosRun'.at = "files"
  BY BosNewRunTyped DEF BosStart, BosRunRecord
<1>. QED BY <1>1 DEF FilesRead, Emptied, TemplatesPlanned, OptionsPlanned, Emptying, Filling

LEMMA EndKeeps ==
    ASSUME bosRun'.at = "failed"
    PROVE  FilesRead' /\ Emptied' /\ TemplatesPlanned' /\ OptionsPlanned'
BY DEF FilesRead, Emptied, TemplatesPlanned, OptionsPlanned, Emptying, Filling

LEMMA FailFails == ASSUME BosTyped PROVE BosFail.at = "failed"
BY DEF BosTyped, BosRunRecord, BosFail

LEMMA BosUsersKeep ==
    ASSUME BosIInv, BosUsers
    PROVE  FilesRead' /\ Emptied' /\ TemplatesPlanned' /\ OptionsPlanned'
<1>. DEFINE NotDeleted ==
        \A i \in TemplateId : \/ bos'.templates[i] = bos.templates[i]
                              \/ bos'.templates[i] # Nothing /\ BosTouched(i)'
<1>. DEFINE OnlyAdd == /\ bosRun' = bosRun /\ bosFiles' = bosFiles /\ bosOptionFile' = bosOptionFile
                       /\ bos'.options = bos.options /\ bosTouched \subseteq bosTouched'
                       /\ NotDeleted
<1>1. OnlyAdd
  <2>1. ASSUME NEW i \in TemplateId, BosUser("templates", i, "user")
        PROVE  OnlyAdd
    <3>1. /\ bos'.templates = [bos.templates EXCEPT ![i] = "user"] /\ bos'.options = bos.options
          /\ bos.templates \in [TemplateId -> BosText \cup {Nothing}]
      BY <2>1 DEF BosUser, BosIInv, BosTyped, BosContents
    <3>2. bosTouched' = bosTouched \cup {<<"templates", i>>}
      BY <2>1 DEF BosUser
    <3>3. NotDeleted
      BY <3>1, <3>2 DEF BosTouched, Nothing
    <3>. QED BY <2>1, <3>1, <3>2, <3>3 DEF BosUser
  <2>2. ASSUME NEW n \in BosSession, NEW s \in {"active", "complete"}, BosUser("sessions", n, s)
        PROVE  OnlyAdd
    <3>1. bos'.templates = bos.templates /\ bos'.options = bos.options
      BY <2>2 DEF BosUser, BosIInv, BosTyped, BosContents
    <3>. QED BY <2>2, <3>1 DEF BosUser
  <2>. QED BY <2>1, <2>2 DEF BosUsers
<1>. QED BY <1>1 DEF BosIInv, FilesRead, Emptied, TemplatesPlanned, OptionsPlanned, OptionSet, BosTouched, BosTyped, BosRunRecord

-----------------------------------------------------------------------------
(* The steps before anything is changed, and the exports.                  *)

LEMMA BosReadingKeeps ==
    ASSUME BosIInv, \/ read_files \/ plan_bos_options \/ load_current_templates
                 \/ bos_check_before_clear \/ list_all_sessions \/ no_sessions_left
    PROVE  FilesRead' /\ Emptied' /\ TemplatesPlanned' /\ OptionsPlanned'
<1>. SUFFICES ASSUME bosRun'.at # "failed"
              PROVE  FilesRead' /\ Emptied' /\ TemplatesPlanned' /\ OptionsPlanned'
  BY EndKeeps
<1>. USE FailFails DEF BosIInv, Goto, FilesRead, Emptied, TemplatesPlanned, OptionsPlanned, Emptying, Filling
<1>1. CASE read_files
  <2>1. ~Contradictory(bosFiles)
        /\ bosRun' = [Goto("options") EXCEPT !.imported = load_templates_from_import_data(bosFiles)]
    BY <1>1 DEF read_files, Local
  <2>2. bosRun'.at = "options" /\ bosRun'.imported = load_templates_from_import_data(bosFiles)
    BY <2>1 DEF BosTyped, BosRunRecord
  <2>. QED BY <1>1, <2>1, <2>2 DEF read_files, Local
<1>2. CASE plan_bos_options
  <2>1. bosRun' = [Goto("templates") EXCEPT !.options = BosOptionsToChange] /\ bosRun.at = "options"
    BY <1>2 DEF plan_bos_options, Local
  <2>2. bosRun'.at = "templates" /\ bosRun'.imported = bosRun.imported /\ bosRun'.options = BosOptionsToChange
    BY <2>1 DEF BosTyped, BosRunRecord
  <2>3. \A o \in BosOption : OptionSet(o) \/ o \in BosOptionsToChange
    BY DEF OptionSet, BosOptionsToChange, BosTyped
  <2>. QED BY <1>2, <2>1, <2>2, <2>3 DEF plan_bos_options, Local, OptionSet
<1>3. CASE load_current_templates
  <2>1. /\ bosRun.at = "templates" /\ bosRun'.imported = bosRun.imported
        /\ bosRun'.options = bosRun.options /\ bosRun'.clear = bosRun.clear
        /\ bosRun'.current = Templates
        /\ bosRun'.at = IF bosRun.clear THEN "check_clear" ELSE "plan"
    BY <1>3 DEF load_current_templates, BosTyped, BosRunRecord
  <2>. QED BY <1>3, <2>1 DEF load_current_templates, OptionSet, Templates
<1>4. CASE bos_check_before_clear
  <2>1. bosRun' = Goto("snapshot_clear") /\ bosRun.at = "check_clear"
    BY <1>4 DEF bos_check_before_clear, Local
  <2>2. /\ bosRun'.at = "snapshot_clear" /\ bosRun'.imported = bosRun.imported
        /\ bosRun'.options = bosRun.options /\ bosRun'.current = bosRun.current
    BY <2>1 DEF BosTyped, BosRunRecord
  <2>. QED BY <1>4, <2>1, <2>2 DEF bos_check_before_clear, Local, OptionSet, BosTouched
<1>5. CASE list_all_sessions \/ no_sessions_left
  <2>1. /\ bosRun.at \in Emptying /\ bosRun'.imported = bosRun.imported
        /\ bosRun'.options = bosRun.options /\ bosRun'.current = bosRun.current
        /\ \/ bosRun'.at = "sessions"
           \/ bosRun'.at = "clear" /\ bosRun'.todo = bosRun.current
    <3>1. CASE list_all_sessions
      <4>1. CASE Sessions = {}
        <5>. HIDE DEF Goto
        <5>1. bosRun.at = "list_sessions" /\ bosRun' = [Goto("clear") EXCEPT !.todo = bosRun.current]
          BY <3>1, <4>1 DEF list_all_sessions, Local
        <5>. QED BY <5>1, GotoWithTodo DEF BosTyped, BosPlaces
      <4>2. CASE Sessions # {}
        <5>. HIDE DEF Goto
        <5>1. bosRun.at = "list_sessions" /\ bosRun' = [Goto("sessions") EXCEPT !.todo = Sessions]
          BY <3>1, <4>2 DEF list_all_sessions, Local
        <5>. QED BY <5>1, GotoWithTodo DEF BosTyped, BosPlaces
      <4>. QED BY <4>1, <4>2
    <3>2. CASE no_sessions_left
      BY <3>2 DEF no_sessions_left, Local, BosTyped, BosRunRecord
    <3>. QED BY <1>5, <3>1, <3>2
  <2>. QED BY <1>5, <2>1 DEF list_all_sessions, no_sessions_left, Local, OptionSet, BosTouched
<1>. QED BY <1>1, <1>2, <1>3, <1>4, <1>5

LEMMA ExportKeeps ==
    ASSUME BosIInv, snapshot_bos_data
    PROVE  FilesRead' /\ Emptied' /\ TemplatesPlanned' /\ OptionsPlanned'
<1>. DEFINE Exports(from, to) ==
        /\ bosRun.at = from /\ bosRun'.at \in {from, to}
        /\ \A f \in {"clear", "imported", "current", "options", "todo"} : bosRun'[f] = bosRun[f]
        /\ UNCHANGED <<bos, bosFiles, bosOptionFile, bosTouched>>
<1>1. ASSUME NEW from \in BosPlaces, NEW to \in BosPlaces, BosExport(from, to)
      PROVE  Exports(from, to)
  <2>1. bosRun.at = from /\ UNCHANGED <<bos, bosFiles, bosOptionFile, bosTouched>>
    BY <1>1 DEF BosExport
  <2>2. CASE bosRun.read = 2
    <3>1. bosRun' = [Goto(to) EXCEPT !.read = 0]
      BY <1>1, <2>2 DEF BosExport
    <3>. QED BY <2>1, <3>1, GotoTyped DEF BosIInv, BosTyped, BosRunRecord
  <2>3. CASE bosRun.read # 2
    <3>1. bosRun' = [bosRun EXCEPT !.read = bosRun.read + 1]
      BY <1>1, <2>3 DEF BosExport
    <3>. QED BY <2>1, <3>1 DEF BosIInv, BosTyped, BosRunRecord
  <2>. QED BY <2>2, <2>3
<1>2. \/ Exports("snapshot_clear", "list_sessions")
      \/ Exports("snapshot", "change_options")
      \/ Exports("snapshot_after", "done")
  BY <1>1 DEF snapshot_bos_data, BosPlaces
<1>. QED BY <1>2 DEF BosIInv, FilesRead, Emptied, TemplatesPlanned, OptionsPlanned, Emptying, Filling,
                     OptionSet, BosTouched

-----------------------------------------------------------------------------
(* Emptying BOS and filling it.                                            *)

LEMMA DeletionsKeep ==
    ASSUME BosIInv, delete_session \/ delete_session_template \/ no_templates_left
    PROVE  FilesRead' /\ Emptied' /\ TemplatesPlanned' /\ OptionsPlanned'
<1>. SUFFICES ASSUME bosRun'.at # "failed"
              PROVE  FilesRead' /\ Emptied' /\ TemplatesPlanned' /\ OptionsPlanned'
  BY EndKeeps
<1>. DEFINE Same == /\ bosRun'.imported = bosRun.imported /\ bosRun'.options = bosRun.options
                    /\ UNCHANGED <<bosFiles, bosOptionFile, bosTouched>>
                    /\ bos'.options = bos.options
<1>. USE DEF BosIInv, FilesRead, Emptied, TemplatesPlanned, OptionsPlanned, Emptying, Filling
<1>1. CASE delete_session
  <2>1. PICK n \in bosRun.todo, e \in BosDelete :
          /\ bos' = IF e = "failed" THEN bos ELSE [bos EXCEPT !.sessions[n] = Nothing]
          /\ LET left == bosRun.todo \ {n}
             IN  bosRun' = After(e, [Goto(IF left = {} THEN "no_sessions" ELSE "sessions")
                                       EXCEPT !.todo = left])
    BY <1>1 DEF delete_session
  <2>2. bos'.templates = bos.templates /\ bos'.options = bos.options
    BY <2>1 DEF BosTyped, BosContents
  <2>3. e = "ok"
    BY <2>1, FailFails DEF After
  <2>4. /\ bosRun'.at \in {"sessions", "no_sessions"} /\ bosRun'.current = bosRun.current
        /\ bosRun'.imported = bosRun.imported /\ bosRun'.options = bosRun.options
    BY <2>1, <2>3, GotoWithTodo DEF After, BosTyped, BosPlaces
  <2>. QED BY <1>1, <2>2, <2>4 DEF delete_session, OptionSet, BosTouched
<1>2. CASE delete_session_template /\ bosRun.todo = {}
  <2>1. /\ bosRun.at = "clear" /\ bosRun'.at = (IF bosRun.current = {} THEN "plan" ELSE "no_templates")
        /\ bosRun'.current = bosRun.current /\ bosRun'.clear = bosRun.clear
        /\ Same /\ bos' = bos
    BY <1>2 DEF delete_session_template, Goto, BosTyped, BosRunRecord
  <2>. QED BY <1>2, <2>1 DEF OptionSet, BosTouched
<1>3. CASE delete_session_template /\ bosRun.todo # {}
  <2>1. PICK i \in bosRun.todo, e \in BosDelete :
          /\ bos' = IF e = "failed" THEN bos ELSE [bos EXCEPT !.templates[i] = Nothing]
          /\ bosRun' = After(e, [bosRun EXCEPT !.todo = @ \ {i}])
    BY <1>3 DEF delete_session_template
  <2>2. e = "ok"
    BY <2>1, FailFails DEF After
  <2>3. /\ bosRun.at = "clear" /\ bosRun'.at = "clear" /\ bosRun'.todo = bosRun.todo \ {i} /\ Same
    BY <1>3, <2>1, <2>2 DEF delete_session_template, After, BosTyped, BosRunRecord, BosContents
  <2>4. i \in TemplateId /\ bos'.templates = [bos.templates EXCEPT ![i] = Nothing]
        /\ bos.templates \in [TemplateId -> BosText \cup {Nothing}]
    BY <2>1, <2>2, <2>3 DEF BosTyped, OfTemplates, BosContents
  <2>. QED BY <2>3, <2>4 DEF OptionSet, BosTouched
<1>4. CASE no_templates_left
  <2>1. Templates = {} /\ bosRun.at = "no_templates" /\ bosRun' = [Goto("plan") EXCEPT !.current = {}]
        /\ bos' = bos
    BY <1>4, FailFails DEF no_templates_left, Local
  <2>2. bosRun'.at = "plan" /\ bosRun'.current = {} /\ Same
    BY <1>4, <2>1 DEF no_templates_left, Local, Goto, BosTyped, BosRunRecord
  <2>3. \A i \in TemplateId : bos.templates[i] = Nothing
    BY <2>1 DEF Templates
  <2>. QED BY <2>1, <2>2, <2>3 DEF OptionSet, BosTouched
<1>. QED BY <1>1, <1>2, <1>3, <1>4

LEMMA PlanKeeps ==
    ASSUME BosIInv, plan_templates
    PROVE  FilesRead' /\ Emptied' /\ TemplatesPlanned' /\ OptionsPlanned'
<1>. SUFFICES ASSUME bosRun'.at # "failed"
              PROVE  FilesRead' /\ Emptied' /\ TemplatesPlanned' /\ OptionsPlanned'
  BY EndKeeps
<1>. DEFINE todo == get_templates_to_import
<1>1. /\ bosRun.at = "plan" /\ UNCHANGED <<bos, bosFiles, bosOptionFile, bosTouched>>
      /\ \/ todo = {} /\ bosRun.options = {} /\ bosRun' = Goto("done")
         \/ bosRun' = [Goto(IF bosRun.clear THEN "change_options" ELSE "snapshot") EXCEPT !.todo = todo]
  <2>1. BosTyped /\ BosFail.at = "failed"
    BY FailFails DEF BosIInv
  <2>. QED BY <2>1 DEF plan_templates, Local
<1>2. /\ bosRun'.imported = bosRun.imported /\ bosRun'.options = bosRun.options
      /\ bosRun'.clear = bosRun.clear
      /\ \/ todo = {} /\ bosRun.options = {} /\ bosRun'.at = "done"
         \/ bosRun'.at \in {"change_options", "snapshot"} /\ bosRun'.todo = todo
  <2>1. CASE todo = {} /\ bosRun.options = {} /\ bosRun' = Goto("done")
    BY <2>1, GotoTyped DEF BosIInv, BosTyped, BosRunRecord, BosPlaces, Goto
  <2>2. CASE bosRun' = [Goto(IF bosRun.clear THEN "change_options" ELSE "snapshot") EXCEPT !.todo = todo]
    BY <2>2, GotoWithTodo DEF BosIInv, BosTyped, BosPlaces
  <2>. QED BY <1>1, <2>1, <2>2
<1>3. \A i \in TemplateId : bosRun.imported[i] # Nothing => bos.templates[i] # Nothing \/ i \in todo
  BY <1>1 DEF get_templates_to_import, BosIInv, TemplatesPlanned
<1>4. \A i \in todo : bosRun.imported[i] # Nothing
  BY DEF get_templates_to_import
<1>. QED BY <1>1, <1>2, <1>3, <1>4 DEF BosIInv, FilesRead, Emptied, TemplatesPlanned, OptionsPlanned,
                                       Filling, Emptying, OptionSet, BosTouched

LEMMA ImportKeeps ==
    ASSUME BosIInv, change_bos_options \/ create_session_template
    PROVE  FilesRead' /\ Emptied' /\ TemplatesPlanned' /\ OptionsPlanned'
<1>. SUFFICES ASSUME bosRun'.at # "failed"
              PROVE  FilesRead' /\ Emptied' /\ TemplatesPlanned' /\ OptionsPlanned'
  BY EndKeeps
<1>. DEFINE Same == /\ bosRun'.imported = bosRun.imported /\ bosRun'.options = bosRun.options
                    /\ bosRun'.clear = bosRun.clear
                    /\ UNCHANGED <<bosFiles, bosOptionFile, bosTouched>>
<1>. USE DEF BosIInv, FilesRead, Emptied, TemplatesPlanned, OptionsPlanned, Emptying, Filling
<1>1. CASE change_bos_options /\ bosRun.options = {}
  <2>1. /\ bosRun.at = "change_options" /\ bosRun'.at = "create" /\ bosRun'.todo = bosRun.todo
        /\ Same /\ bos' = bos
    BY <1>1 DEF change_bos_options, Goto, BosTyped, BosRunRecord
  <2>. QED BY <1>1, <2>1 DEF OptionSet, BosTouched
<1>2. CASE change_bos_options /\ bosRun.options # {}
  <2>1. PICK e \in BosPut :
          /\ bos' = IF e = "failed" THEN bos
                    ELSE [bos EXCEPT !.options = [o \in BosOption |->
                            IF o \in bosRun.options THEN bosOptionFile[o] ELSE @[o]]]
          /\ bosRun' = After(e, Goto("create"))
    BY <1>2 DEF change_bos_options
  <2>2. e = "ok"
    BY <2>1, FailFails DEF After
  <2>3. /\ bosRun.at = "change_options" /\ bosRun'.at = "create" /\ bosRun'.todo = bosRun.todo /\ Same
    BY <1>2, <2>1, <2>2 DEF change_bos_options, After, Goto, BosTyped, BosRunRecord
  <2>4. /\ bos'.templates = bos.templates
        /\ \A o \in BosOption : bos'.options[o] = IF o \in bosRun.options THEN bosOptionFile[o]
                                                  ELSE bos.options[o]
    BY <2>1, <2>2 DEF BosTyped, BosContents
  <2>5. \A o \in BosOption : OptionSet(o)'
    BY <2>3, <2>4 DEF OptionSet
  <2>. QED BY <2>3, <2>4, <2>5 DEF BosTouched
<1>3. CASE create_session_template /\ bosRun.todo = {}
  <2>1. /\ bosRun.at = "create" /\ bosRun'.at = "snapshot_after" /\ Same /\ bos' = bos
    BY <1>3 DEF create_session_template, Goto, BosTyped, BosRunRecord
  <2>. QED BY <1>3, <2>1 DEF OptionSet, BosTouched
<1>4. CASE create_session_template /\ bosRun.todo # {}
  <2>1. PICK i \in bosRun.todo, e \in BosPut :
          /\ bos' = IF e = "failed" THEN bos
                    ELSE [bos EXCEPT !.templates[i] = bosRun.imported[i]]
          /\ bosRun' = After(e, [bosRun EXCEPT !.todo = @ \ {i}])
    BY <1>4 DEF create_session_template
  <2>2. e = "ok"
    BY <2>1, FailFails DEF After
  <2>3. /\ bosRun.at = "create" /\ bosRun'.at = "create" /\ bosRun'.todo = bosRun.todo \ {i} /\ Same
        /\ bos'.options = bos.options
    BY <1>4, <2>1, <2>2 DEF create_session_template, After, BosTyped, BosRunRecord, BosContents
  <2>4. i \in TemplateId /\ bos'.templates = [bos.templates EXCEPT ![i] = bosRun.imported[i]]
        /\ bos.templates \in [TemplateId -> BosText \cup {Nothing}] /\ bosRun.imported[i] # Nothing
    BY <2>1, <2>2, <2>3 DEF BosTyped, OfTemplates, BosContents
  <2>. QED BY <2>3, <2>4 DEF OptionSet, BosTouched
<1>. QED BY <1>1, <1>2, <1>3, <1>4

LEMMA BosIInvNext == BosIInv /\ [BosNext]_bosVars => BosIInv'
<1>. SUFFICES ASSUME BosIInv, [BosNext]_bosVars PROVE BosIInv'
  OBVIOUS
<1>1. BosTyped'
  BY BosTypedNext DEF BosIInv
<1>2. FilesRead' /\ Emptied' /\ TemplatesPlanned' /\ OptionsPlanned'
  <2>1. CASE UNCHANGED bosVars
    BY <2>1 DEF bosVars, BosIInv, FilesRead, Emptied, TemplatesPlanned, OptionsPlanned, OptionSet, BosTouched
  <2>2. CASE BosScript
    BY <2>2, BosReadingKeeps, ExportKeeps, DeletionsKeep, PlanKeeps, ImportKeeps DEF BosScript
  <2>. QED BY <2>1, <2>2, BosStartKeeps, BosUsersKeep DEF BosNext
<1>. QED BY <1>1, <1>2 DEF BosIInv

\* A BOS that a run has cleared holds what the files hold; what else there is came
\* from users after the templates were listed.
THEOREM ClearedIsTheImport == BosSpec => []ClearedBosIsTheImport
<1>1. BosIInv => ClearedBosIsTheImport
  BY DEF BosIInv, Emptied, Filling, BosTouched, ClearedBosIsTheImport
<1>. QED BY <1>1, BosIInvInit, BosIInvNext, PTL DEF BosSpec

\* After a run that succeeds every template of the files exists for its tenant and
\* every option of the file that BOS has is set, whatever earlier runs left behind.
THEOREM NothingIsMissing == BosSpec => []BosImportIsComplete
<1>1. ASSUME BosIInv, bosRun.at = "done", NEW k \in DOMAIN bosFiles
      PROVE  \E i \in TemplateId : 
                /\ bos.templates[i] # Nothing
                /\ i[1] = bosFiles[k].name
                /\ i[2] = IF bosFiles[k].tenant \in BosTenant THEN bosFiles[k].tenant ELSE NoTenant
  <2>. DEFINE i == UniqueId(bosFiles[k])
  <2>1. bosFiles[k] \in BosTemplate
    BY <1>1 DEF BosIInv, BosTyped
  <2>2. /\ i \in TemplateId /\ i[1] = bosFiles[k].name
        /\ i[2] = IF bosFiles[k].tenant \in BosTenant THEN bosFiles[k].tenant ELSE NoTenant
    BY <2>1, BosAssumption DEF BosTemplate, UniqueId, TemplateId, Blank, Missing, NoTenant
  <2>3. bosRun.imported[i] # Nothing
    <3>1. bosRun.imported = load_templates_from_import_data(bosFiles)
      BY <1>1 DEF BosIInv, FilesRead
    <3>2. \E t \in {bosFiles[j] : j \in DOMAIN bosFiles} : UniqueId(t) = i
      OBVIOUS
    <3>3. \A t \in {bosFiles[j] : j \in DOMAIN bosFiles} : t.text # Nothing
      <4>1. \A j \in DOMAIN bosFiles : bosFiles[j] \in BosTemplate
        BY <1>1 DEF BosIInv, BosTyped
      <4>. QED BY <4>1 DEF BosTemplate, BosText, Nothing
    <3>. HIDE DEF i
    <3>4. (CHOOSE t \in {bosFiles[j] : j \in DOMAIN bosFiles} : UniqueId(t) = i).text # Nothing
      BY <3>2, <3>3
    <3>5. \E j \in DOMAIN bosFiles : UniqueId(bosFiles[j]) = i
      BY <3>2
    <3>. QED BY <2>2, <3>1, <3>4, <3>5 DEF load_templates_from_import_data
  <2>. QED BY <1>1, <2>2, <2>3 DEF BosIInv, TemplatesPlanned, Filling
<1>2. BosIInv => BosImportIsComplete
  BY <1>1 DEF BosIInv, OptionsPlanned, OptionSet, BosImportIsComplete
<1>. QED BY <1>2, BosIInvInit, BosIInvNext, PTL DEF BosSpec

-----------------------------------------------------------------------------
(* What a run changes was exported, and what it leaves alone.              *)

TemplateExported(i) ==
    bos.templates[i] \in {Nothing, bosSnap.templates[i]} \/ <<"templates", i>> \in bosLate
BosOptionExported(o) ==
    bos.options[o] \in {Nothing, bosSnap.options[o]} \/ <<"options", o>> \in bosLate
SessionExported(n) ==
    bos.sessions[n] \in {Nothing, bosSnap.sessions[n]} \/ <<"sessions", n>> \in bosLate

DeletingSessions == {"list_sessions", "sessions", "no_sessions"}
DeletingTemplates == DeletingSessions \cup {"clear", "no_templates"}
Exporting == {"snapshot_clear", "snapshot", "snapshot_after"}
BeforeChanges == {"snapshot_clear", "snapshot"}

\* Only a run with --clear-bos empties BOS, and each export starts with the options.
BosStagesFollow ==
    /\ bosRun.at \in DeletingTemplates \cup {"check_clear", "snapshot_clear"} => bosRun.clear
    /\ bosRun.at \notin Exporting => bosRun.read = 0

\* Everything that is still to be deleted or replaced was exported, but for what users
\* changed since; while an export is made, the part of it that was read.
BosPlanIsExported ==
    /\ \/ bosRun.at \in DeletingTemplates \cup {"change_options"}
       \/ bosRun.at = "plan" /\ bosRun.clear
       \/ bosRun.at \in BeforeChanges /\ bosRun.read > 0
       => \A o \in BosOption : BosOptionExported(o)
    /\ \/ bosRun.at \in DeletingSessions
       \/ bosRun.at \in BeforeChanges /\ bosRun.read > 1
       => \A n \in BosSession : SessionExported(n)
    /\ \/ bosRun.at \in DeletingTemplates \cup {"change_options"}
       \/ bosRun.at = "plan" /\ bosRun.clear
       => \A i \in TemplateId : TemplateExported(i)
    /\ bosRun.at = "create" => \A i \in bosRun.todo : TemplateExported(i)

\* A run that does not clear BOS creates only templates that were not there when it
\* listed them, but for those that users created since.
BosPlanIsNew ==
    ~bosRun.clear =>
        /\ bosRun.at = "plan" =>
             \A i \in TemplateId \ bosRun.current : bos.templates[i] = Nothing \/ BosTouched(i)
        /\ bosRun.at \in {"snapshot", "change_options", "create"} =>
             \A i \in bosRun.todo : bos.templates[i] = Nothing \/ BosTouched(i)

BosSafe == BosStagesFollow /\ BosPlanIsExported /\ BosPlanIsNew

LEMMA BosSafeInit == BosInit => BosSafe
<1>. SUFFICES ASSUME BosInit PROVE BosSafe
  OBVIOUS
<1>1. bosRun.at = "idle" /\ bosRun.read = 0
  BY DEF BosInit, NewRun
<1>. QED BY <1>1 DEF BosSafe, BosStagesFollow, BosPlanIsExported, BosPlanIsNew, DeletingSessions,
                     DeletingTemplates, Exporting, BeforeChanges

\* Where nothing of BOS is changed next, nothing has to be exported.
LEMMA BosQuietIsSafe ==
    ASSUME bosRun'.read = 0,
           \/ bosRun'.at \in {"idle", "files", "options", "templates", "done", "failed"}
           \/ bosRun'.at = "check_clear" /\ bosRun'.clear
    PROVE  BosSafe'
BY DEF BosSafe, BosStagesFollow, BosPlanIsExported, BosPlanIsNew, DeletingSessions, DeletingTemplates,
       Exporting, BeforeChanges

LEMMA FailIsSafe ==
    ASSUME BosTyped, BosSafe, bosRun.at \notin Exporting, bosRun' = BosFail
    PROVE  BosSafe'
<1>1. bosRun'.at = "failed" /\ bosRun'.read = bosRun.read
  BY DEF BosFail, BosTyped, BosRunRecord
<1>. QED BY <1>1, BosQuietIsSafe DEF BosSafe, BosStagesFollow

LEMMA SafeStart ==
    ASSUME NEW clear \in BOOLEAN, NEW ignore \in BOOLEAN, BosStart(clear, ignore)
    PROVE  BosSafe'
<1>1. bosRun'.at = "files" /\ bosRun'.read = 0
  BY DEF BosStart, NewRun
<1>. QED BY <1>1, BosQuietIsSafe

LEMMA SafeUsers ==
    ASSUME BosTyped, BosSafe, BosUsers
    PROVE  BosSafe'
<1>. DEFINE Known ==
        /\ bosRun' = bosRun /\ bosSnap' = bosSnap
        /\ \A i \in TemplateId : bos'.templates[i] = bos.templates[i]
                                 \/ <<"templates", i>> \in bosTouched' \cap bosLate'
        /\ \A n \in BosSession : bos'.sessions[n] = bos.sessions[n] \/ <<"sessions", n>> \in bosLate'
        /\ bos'.options = bos.options
        /\ bosTouched \subseteq bosTouched' /\ bosLate \subseteq bosLate'
<1>1. Known
  <2>1. ASSUME NEW i \in TemplateId, BosUser("templates", i, "user")
        PROVE  Known
    BY <2>1 DEF BosUser, BosTyped, BosContents
  <2>2. ASSUME NEW n \in BosSession, NEW s \in {"active", "complete"}, BosUser("sessions", n, s)
        PROVE  Known
    BY <2>2 DEF BosUser, BosTyped, BosContents
  <2>. QED BY <2>1, <2>2 DEF BosUsers
<1>2. /\ \A i \in TemplateId : /\ TemplateExported(i) => TemplateExported(i)'
                               /\ BosTouched(i) => BosTouched(i)'
                               /\ bos.templates[i] = Nothing => bos'.templates[i] = Nothing \/ BosTouched(i)'
      /\ \A o \in BosOption : BosOptionExported(o) => BosOptionExported(o)'
      /\ \A n \in BosSession : SessionExported(n) => SessionExported(n)'
  BY <1>1 DEF TemplateExported, BosOptionExported, SessionExported, BosTouched
<1>3. bosRun.todo \cap TemplateId \subseteq TemplateId
      /\ (bosRun.at \in OfTemplates => bosRun.todo \subseteq TemplateId)
  BY DEF BosTyped
<1>4. BosStagesFollow'
  BY <1>1 DEF BosSafe, BosStagesFollow
<1>5. BosPlanIsExported'
  BY <1>1, <1>2, <1>3 DEF BosSafe, BosPlanIsExported, OfTemplates
<1>6. BosPlanIsNew'
  BY <1>1, <1>2, <1>3 DEF BosSafe, BosPlanIsNew, OfTemplates
<1>. QED BY <1>4, <1>5, <1>6 DEF BosSafe

LEMMA SafeReading ==
    ASSUME BosTyped, BosSafe, \/ read_files \/ plan_bos_options \/ load_current_templates
                        \/ bos_check_before_clear \/ list_all_sessions \/ no_sessions_left
    PROVE  BosSafe'
<1>. SUFFICES ASSUME bosRun' # BosFail PROVE BosSafe'
  BY FailIsSafe DEF read_files, plan_bos_options, load_current_templates,
       bos_check_before_clear, list_all_sessions, no_sessions_left, Exporting
<1>. USE DEF Local, BosStagesFollow, Exporting
<1>1. CASE read_files
  <2>1. bosRun' = [Goto("options") EXCEPT !.imported = load_templates_from_import_data(bosFiles)]
        /\ bosRun.at = "files"
    BY <1>1 DEF read_files
  <2>2. bosRun'.at = "options" /\ bosRun'.read = bosRun.read
    BY <2>1 DEF BosTyped, BosRunRecord, Goto
  <2>. QED BY <2>1, <2>2, BosQuietIsSafe DEF BosSafe
<1>2. CASE plan_bos_options
  <2>1. bosRun' = [Goto("templates") EXCEPT !.options = BosOptionsToChange] /\ bosRun.at = "options"
    BY <1>2 DEF plan_bos_options
  <2>2. bosRun'.at = "templates" /\ bosRun'.read = bosRun.read
    BY <2>1 DEF BosTyped, BosRunRecord, Goto
  <2>. QED BY <2>1, <2>2, BosQuietIsSafe DEF BosSafe
<1>3. CASE load_current_templates
  <2>1. /\ bosRun.at = "templates" /\ bosRun'.read = bosRun.read
        /\ bosRun'.clear = bosRun.clear /\ bosRun'.current = Templates
        /\ bosRun'.at = IF bosRun.clear THEN "check_clear" ELSE "plan"
    BY <1>3 DEF load_current_templates, BosTyped, BosRunRecord, Goto
  <2>2. CASE bosRun.clear
    BY <2>1, <2>2, BosQuietIsSafe DEF BosSafe
  <2>3. CASE ~bosRun.clear
    <3>1. bos' = bos
      BY <1>3 DEF load_current_templates
    <3>2. \A i \in TemplateId \ bosRun'.current : bos'.templates[i] = Nothing
      BY <2>1, <3>1 DEF Templates
    <3>. QED BY <2>1, <2>3, <3>2 DEF BosSafe, BosPlanIsExported, BosPlanIsNew, DeletingSessions,
                                     DeletingTemplates, BeforeChanges
  <2>. QED BY <2>2, <2>3
<1>4. CASE bos_check_before_clear
  <2>1. bosRun' = Goto("snapshot_clear") /\ bosRun.at = "check_clear"
    BY <1>4 DEF bos_check_before_clear
  <2>2. /\ bosRun'.at = "snapshot_clear" /\ bosRun'.read = bosRun.read
        /\ bosRun'.clear = bosRun.clear
    BY <2>1 DEF BosTyped, BosRunRecord, Goto
  <2>3. bosRun'.read = 0 /\ bosRun'.clear
    BY <2>1, <2>2 DEF BosSafe, DeletingTemplates
  <2>. QED BY <2>2, <2>3 DEF BosSafe, BosPlanIsExported, BosPlanIsNew, DeletingSessions,
                             DeletingTemplates, BeforeChanges
<1>5. CASE list_all_sessions \/ no_sessions_left
  <2>1. /\ bosRun.at \in DeletingSessions
        /\ bosRun'.read = bosRun.read /\ bosRun'.clear = bosRun.clear
        /\ bosRun'.at \in {"sessions", "clear"}
        /\ UNCHANGED <<bos, bosSnap, bosLate>>
    <3>1. CASE list_all_sessions
      BY <3>1 DEF list_all_sessions, BosTyped, BosRunRecord, Goto, DeletingSessions
    <3>2. CASE no_sessions_left
      BY <3>2 DEF no_sessions_left, BosTyped, BosRunRecord, Goto, DeletingSessions
    <3>. QED BY <1>5, <3>1, <3>2
  <2>2. bosRun.read = 0 /\ bosRun.clear
    BY <2>1 DEF BosSafe, DeletingTemplates, DeletingSessions
  <2>3. BosPlanIsExported'
    BY <2>1 DEF BosSafe, BosPlanIsExported, DeletingSessions, DeletingTemplates, BeforeChanges,
                TemplateExported, BosOptionExported, SessionExported
  <2>. QED BY <2>1, <2>2, <2>3 DEF BosSafe, BosPlanIsNew
<1>. QED BY <1>1, <1>2, <1>3, <1>4, <1>5

LEMMA ExportIsSafe ==
    ASSUME BosTyped, BosSafe, NEW from \in Exporting, NEW to, BosExport(from, to),
           \/ from = "snapshot_clear" /\ to = "list_sessions"
           \/ from = "snapshot" /\ to = "change_options"
           \/ from = "snapshot_after" /\ to = "done"
    PROVE  BosSafe'
<1>. DEFINE Same == /\ bosRun.at = from /\ bosRun'.clear = bosRun.clear /\ bosRun'.todo = bosRun.todo
                    /\ bosRun'.current = bosRun.current
                    /\ UNCHANGED <<bos, bosTouched>>
<1>1. Same /\ (IF bosRun.read = 2 THEN bosRun'.at = to /\ bosRun'.read = 0
               ELSE bosRun'.at = from /\ bosRun'.read = bosRun.read + 1)
  BY DEF BosExport, BosTyped, BosRunRecord, Goto
<1>2. bosRun.read \in 0..2 /\ bosSnap \in BosContents /\ bos \in BosContents
  BY DEF BosTyped, BosRunRecord
<1>3. CASE bosRun.read = 0
  <2>1. \A o \in BosOption : BosOptionExported(o)'
    BY <1>1, <1>2, <1>3 DEF BosExport, ExportOrder, BosOptionExported, BosContents
  <2>. QED BY <1>1, <1>3, <2>1 DEF BosSafe, BosStagesFollow, BosPlanIsExported, BosPlanIsNew, Exporting,
                DeletingSessions, DeletingTemplates, BeforeChanges, BosTouched
<1>4. CASE bosRun.read = 1
  <2>1. \A n \in BosSession : SessionExported(n)'
    BY <1>1, <1>2, <1>4 DEF BosExport, ExportOrder, SessionExported, BosContents
  <2>2. \A o \in BosOption : BosOptionExported(o) => BosOptionExported(o)'
    BY <1>1, <1>2, <1>4 DEF BosExport, ExportOrder, BosOptionExported, BosContents
  <2>. QED BY <1>1, <1>4, <2>1, <2>2 DEF BosSafe, BosStagesFollow, BosPlanIsExported, BosPlanIsNew, Exporting,
                DeletingSessions, DeletingTemplates, BeforeChanges, BosTouched
<1>5. CASE bosRun.read = 2
  <2>1. \A i \in TemplateId : TemplateExported(i)'
    BY <1>1, <1>2, <1>5 DEF BosExport, ExportOrder, TemplateExported, BosContents
  <2>2. /\ \A o \in BosOption : BosOptionExported(o) => BosOptionExported(o)'
        /\ \A n \in BosSession : SessionExported(n) => SessionExported(n)'
    BY <1>1, <1>2, <1>5 DEF BosExport, ExportOrder, BosOptionExported, SessionExported, BosContents
  <2>. QED BY <1>1, <1>5, <2>1, <2>2 DEF BosSafe, BosStagesFollow, BosPlanIsExported, BosPlanIsNew, Exporting,
                DeletingSessions, DeletingTemplates, BeforeChanges, BosTouched
<1>. QED BY <1>2, <1>3, <1>4, <1>5

LEMMA SafeDeletions ==
    ASSUME BosTyped, BosSafe, delete_session \/ delete_session_template \/ no_templates_left
    PROVE  BosSafe'
<1>1. bosRun.at \in DeletingTemplates /\ bosRun.at \notin Exporting /\ bosRun.read = 0 /\ bosRun.clear
  BY DEF delete_session, delete_session_template, no_templates_left, BosSafe, BosStagesFollow,
         DeletingTemplates, DeletingSessions, Exporting
<1>. SUFFICES ASSUME bosRun' # BosFail PROVE BosSafe'
  BY <1>1, FailIsSafe
\* A deletion leaves less to be exported.
<1>. DEFINE Less == /\ \A i \in TemplateId : bos'.templates[i] \in {bos.templates[i], Nothing}
                    /\ \A n \in BosSession : bos'.sessions[n] \in {bos.sessions[n], Nothing}
                    /\ bos'.options = bos.options
                    /\ UNCHANGED <<bosSnap, bosLate>>
                    /\ bosRun'.read = bosRun.read /\ bosRun'.clear = bosRun.clear
                    /\ \/ bosRun.at = "sessions" /\ bosRun'.at \in DeletingSessions
                       \/ bosRun'.at \in {"clear", "no_templates", "plan"}
<1>2. Less
  <2>1. CASE delete_session
    <3>1. PICK n \in bosRun.todo, e \in BosDelete :
            /\ bos' = IF e = "failed" THEN bos ELSE [bos EXCEPT !.sessions[n] = Nothing]
            /\ LET left == bosRun.todo \ {n}
               IN  bosRun' = After(e, [Goto(IF left = {} THEN "no_sessions" ELSE "sessions")
                                         EXCEPT !.todo = left])
      BY <2>1 DEF delete_session
    <3>2. /\ bosRun'.at \in DeletingSessions /\ bosRun'.read = bosRun.read
          /\ bosRun'.clear = bosRun.clear
      BY <3>1 DEF After, Goto, BosTyped, BosRunRecord, DeletingSessions
    <3>3. /\ \A m \in BosSession : bos'.sessions[m] \in {bos.sessions[m], Nothing}
          /\ bos'.templates = bos.templates /\ bos'.options = bos.options
      BY <3>1 DEF BosTyped, BosContents
    <3>. QED BY <2>1, <3>2, <3>3 DEF delete_session
  <2>2. CASE delete_session_template /\ bosRun.todo = {}
    BY <2>2 DEF delete_session_template, Goto, BosTyped, BosRunRecord
  <2>3. CASE delete_session_template /\ bosRun.todo # {}
    <3>1. PICK i \in bosRun.todo, e \in BosDelete :
            /\ bos' = IF e = "failed" THEN bos ELSE [bos EXCEPT !.templates[i] = Nothing]
            /\ bosRun' = After(e, [bosRun EXCEPT !.todo = @ \ {i}])
      BY <2>3 DEF delete_session_template
    <3>2. /\ bosRun'.at = "clear" /\ bosRun'.read = bosRun.read /\ bosRun'.clear = bosRun.clear
      BY <2>3, <3>1 DEF delete_session_template, After, BosTyped, BosRunRecord
    <3>3. /\ \A j \in TemplateId : bos'.templates[j] \in {bos.templates[j], Nothing}
          /\ bos'.sessions = bos.sessions /\ bos'.options = bos.options
      BY <3>1 DEF BosTyped, BosContents
    <3>. QED BY <2>3, <3>2, <3>3 DEF delete_session_template
  <2>4. CASE no_templates_left
    BY <2>4 DEF no_templates_left, Local, Goto, BosTyped, BosRunRecord
  <2>. QED BY <2>1, <2>2, <2>3, <2>4
<1>3. /\ \A i \in TemplateId : TemplateExported(i) => TemplateExported(i)'
      /\ \A o \in BosOption : BosOptionExported(o) => BosOptionExported(o)'
      /\ \A n \in BosSession : SessionExported(n) => SessionExported(n)'
  BY <1>2 DEF TemplateExported, BosOptionExported, SessionExported
<1>4. BosStagesFollow' /\ BosPlanIsNew'
  BY <1>1, <1>2 DEF BosStagesFollow, BosPlanIsNew, DeletingSessions, DeletingTemplates, Exporting
<1>5. BosPlanIsExported'
  BY <1>1, <1>2, <1>3 DEF BosSafe, BosPlanIsExported, DeletingSessions, DeletingTemplates, BeforeChanges
<1>. QED BY <1>4, <1>5 DEF BosSafe

LEMMA SafePlan ==
    ASSUME BosTyped, BosSafe, plan_templates
    PROVE  BosSafe'
<1>1. bosRun.at = "plan" /\ bosRun.read = 0 /\ UNCHANGED <<bos, bosSnap, bosTouched, bosLate>>
  BY DEF plan_templates, Local, BosSafe, BosStagesFollow, Exporting
<1>2. CASE bosRun' = BosFail
  BY <1>1, <1>2, FailIsSafe DEF Exporting
<1>3. CASE bosRun' = Goto("done")
  <2>1. bosRun'.at = "done" /\ bosRun'.read = bosRun.read
    BY <1>3 DEF Goto, BosTyped, BosRunRecord
  <2>. QED BY <1>1, <2>1, BosQuietIsSafe
<1>4. CASE bosRun' = [Goto(IF bosRun.clear THEN "change_options" ELSE "snapshot") EXCEPT
                        !.todo = get_templates_to_import]
  <2>1. /\ bosRun'.at = IF bosRun.clear THEN "change_options" ELSE "snapshot"
        /\ bosRun'.read = 0 /\ bosRun'.clear = bosRun.clear
        /\ bosRun'.todo = get_templates_to_import
    BY <1>1, <1>4 DEF Goto, BosTyped, BosRunRecord
  <2>2. get_templates_to_import \subseteq TemplateId \ bosRun.current
    BY DEF get_templates_to_import
  <2>3. BosPlanIsNew'
    BY <1>1, <2>1, <2>2 DEF BosSafe, BosPlanIsNew, BosTouched
  <2>4. BosPlanIsExported'
    BY <1>1, <2>1 DEF BosSafe, BosPlanIsExported, DeletingSessions, DeletingTemplates, BeforeChanges,
                      TemplateExported, BosOptionExported
  <2>5. BosStagesFollow'
    BY <1>1, <2>1 DEF BosStagesFollow, DeletingSessions, DeletingTemplates
  <2>. QED BY <2>3, <2>4, <2>5 DEF BosSafe
<1>. QED BY <1>2, <1>3, <1>4 DEF plan_templates, Local

LEMMA SafeImport ==
    ASSUME BosTyped, BosSafe, change_bos_options \/ create_session_template
    PROVE  BosSafe'
<1>1. bosRun.at \in {"change_options", "create"} /\ bosRun.read = 0 /\ bosRun.todo \subseteq TemplateId
      /\ UNCHANGED <<bosSnap, bosTouched, bosLate>>
  BY DEF change_bos_options, create_session_template, BosSafe, BosStagesFollow, Exporting, BosTyped, OfTemplates
<1>. SUFFICES ASSUME bosRun' # BosFail PROVE BosSafe'
  BY <1>1, FailIsSafe DEF Exporting
<1>2. \A i \in bosRun.todo : /\ TemplateExported(i)
                             /\ ~bosRun.clear => bos.templates[i] = Nothing \/ BosTouched(i)
  BY <1>1 DEF BosSafe, BosPlanIsExported, BosPlanIsNew
<1>3. CASE create_session_template /\ bosRun.todo = {}
  <2>1. /\ bosRun'.at = "snapshot_after" /\ bosRun'.clear = bosRun.clear
    BY <1>3 DEF create_session_template, Goto, BosTyped, BosRunRecord
  <2>. QED BY <2>1 DEF BosSafe, BosStagesFollow, BosPlanIsExported, BosPlanIsNew, DeletingSessions,
                       DeletingTemplates, Exporting, BeforeChanges
<1>4. CASE change_bos_options \/ bosRun.todo # {}
  <2>1. /\ bosRun'.at = "create" /\ bosRun'.read = 0 /\ bosRun'.clear = bosRun.clear
        /\ bosRun'.todo \subseteq bosRun.todo
        /\ \A i \in bosRun'.todo : bos'.templates[i] = bos.templates[i]
    <3>1. CASE change_bos_options
      <4>1. bos'.templates = bos.templates
        BY <3>1 DEF change_bos_options, BosTyped, BosContents
      <4>2. bosRun' = Goto("create")
        BY <3>1 DEF change_bos_options, After
      <4>. QED BY <1>1, <4>1, <4>2 DEF Goto, BosTyped, BosRunRecord
    <3>2. CASE create_session_template /\ bosRun.todo # {}
      <4>1. PICK i \in bosRun.todo, e \in BosPut :
              /\ bos' = IF e = "failed" THEN bos
                        ELSE [bos EXCEPT !.templates[i] = bosRun.imported[i]]
              /\ bosRun' = After(e, [bosRun EXCEPT !.todo = @ \ {i}])
        BY <3>2 DEF create_session_template
      <4>2. bosRun' = [bosRun EXCEPT !.todo = @ \ {i}] /\ bosRun.at = "create"
        BY <3>2, <4>1 DEF create_session_template, After
      <4>3. /\ bosRun'.at = "create" /\ bosRun'.read = 0 /\ bosRun'.clear = bosRun.clear
            /\ bosRun'.todo = bosRun.todo \ {i}
        BY <1>1, <4>2 DEF BosTyped, BosRunRecord
      <4>4. \A j \in TemplateId \ {i} : bos'.templates[j] = bos.templates[j]
        BY <4>1 DEF BosTyped, BosContents
      <4>. QED BY <1>1, <4>3, <4>4
    <3>. QED BY <1>4, <3>1, <3>2
  <2>2. \A i \in bosRun'.todo : /\ TemplateExported(i)'
                                /\ ~bosRun'.clear => bos'.templates[i] = Nothing \/ BosTouched(i)'
    <3>. SUFFICES ASSUME NEW i \in bosRun'.todo
                  PROVE  /\ TemplateExported(i)'
                         /\ ~bosRun'.clear => bos'.templates[i] = Nothing \/ BosTouched(i)'
      OBVIOUS
    <3>1. i \in bosRun.todo /\ bos'.templates[i] = bos.templates[i]
      BY <2>1
    <3>2. TemplateExported(i) /\ (~bosRun.clear => bos.templates[i] = Nothing \/ BosTouched(i))
      BY <1>2, <3>1
    <3>. QED BY <1>1, <2>1, <3>1, <3>2 DEF TemplateExported, BosTouched
  <2>. QED BY <2>1, <2>2 DEF BosSafe, BosStagesFollow, BosPlanIsExported, BosPlanIsNew, DeletingSessions,
                             DeletingTemplates, Exporting, BeforeChanges
<1>. QED BY <1>3, <1>4

LEMMA BosSafeNext == BosTyped /\ BosSafe /\ [BosNext]_bosVars => BosSafe'
<1>. SUFFICES ASSUME BosTyped, BosSafe, [BosNext]_bosVars PROVE BosSafe'
  OBVIOUS
<1>1. CASE UNCHANGED bosVars
  BY <1>1 DEF bosVars, BosSafe, BosStagesFollow, BosPlanIsExported, BosPlanIsNew, TemplateExported,
              BosOptionExported, SessionExported, BosTouched
<1>2. CASE snapshot_bos_data
  BY <1>2, ExportIsSafe DEF snapshot_bos_data, Exporting
<1>. QED BY <1>1, <1>2, SafeStart, SafeUsers, SafeReading, SafeDeletions, SafePlan, SafeImport
         DEF BosNext, BosScript

-----------------------------------------------------------------------------
(* What the steps of a script delete or replace.                           *)

\* One step deletes one session, or deletes or creates one template of its plan, or
\* sets the options.
LEMMA BosScriptChanges ==
    ASSUME BosTyped, BosScript
    PROVE  /\ \A n \in BosSession : bos'.sessions[n] = bos.sessions[n] \/ bosRun.at = "sessions"
           /\ \A o \in BosOption : bos'.options[o] = bos.options[o] \/ bosRun.at = "change_options"
           /\ \A i \in TemplateId : \/ bos'.templates[i] = bos.templates[i]
                                    \/ bosRun.at \in {"clear", "create"} /\ i \in bosRun.todo
<1>1. CASE delete_session
  BY <1>1 DEF delete_session, BosTyped, BosContents
<1>2. CASE delete_session_template
  BY <1>2 DEF delete_session_template, BosTyped, BosContents
<1>3. CASE change_bos_options
  BY <1>3 DEF change_bos_options, BosTyped, BosContents
<1>4. CASE create_session_template
  BY <1>4 DEF create_session_template, BosTyped, BosContents
<1>5. CASE \/ read_files \/ plan_bos_options \/ load_current_templates \/ bos_check_before_clear
           \/ snapshot_bos_data \/ list_all_sessions \/ no_sessions_left \/ no_templates_left
           \/ plan_templates
  <2>1. bos' = bos
    BY <1>5 DEF read_files, plan_bos_options, load_current_templates, bos_check_before_clear,
                snapshot_bos_data, BosExport, list_all_sessions, no_sessions_left,
                no_templates_left, plan_templates, Local
  <2>. QED BY <2>1
<1>. QED BY <1>1, <1>2, <1>3, <1>4, <1>5 DEF BosScript

\* Whatever a run deletes or replaces in BOS is in the export that it took before,
\* unless a user changed it after the export.
THEOREM BosRemovedWasExported == BosSpec => BosRemovedIsExported
<1>1. BosTyped /\ BosSafe /\ [BosNext]_bosVars =>
        [BosScript => BosGone("templates") /\ BosGone("options") /\ BosGone("sessions")]_bosVars
  <2>. SUFFICES ASSUME BosTyped, BosSafe, BosScript
                PROVE  BosGone("templates") /\ BosGone("options") /\ BosGone("sessions")
    OBVIOUS
  <2>1. bos \in BosContents
    BY DEF BosTyped
  <2>2. BosGone("templates")
    <3>1. \A i \in TemplateId : bos'.templates[i] # bos.templates[i] => TemplateExported(i)
      BY BosScriptChanges DEF BosSafe, BosPlanIsExported, DeletingTemplates
    <3>. QED BY <2>1, <3>1 DEF BosGone, TemplateExported, BosContents
  <2>3. BosGone("options")
    <3>1. \A o \in BosOption : bos'.options[o] # bos.options[o] => BosOptionExported(o)
      BY BosScriptChanges DEF BosSafe, BosPlanIsExported
    <3>. QED BY <2>1, <3>1 DEF BosGone, BosOptionExported, BosContents
  <2>4. BosGone("sessions")
    <3>1. \A n \in BosSession : bos'.sessions[n] # bos.sessions[n] => SessionExported(n)
      BY BosScriptChanges DEF BosSafe, BosPlanIsExported, DeletingSessions
    <3>. QED BY <2>1, <3>1 DEF BosGone, SessionExported, BosContents
  <2>. QED BY <2>2, <2>3, <2>4
<1>. QED BY <1>1, BosTypedInit, BosTypedNext, BosSafeInit, BosSafeNext, PTL DEF BosSpec, BosRemovedIsExported

\* Without --clear-bos every template that was there when the run listed them stays
\* as it is, whatever its tenant.
THEOREM BosExistingDoesStay == BosSpec => BosExistingIsKept
<1>1. BosTyped /\ BosSafe /\ [BosNext]_bosVars =>
        [BosScript /\ ~bosRun.clear =>
            \A i \in TemplateId : bos.templates[i] # Nothing =>
                bos'.templates[i] = bos.templates[i] \/ <<"templates", i>> \in bosTouched]_bosVars
  <2>. SUFFICES ASSUME BosTyped, BosSafe, BosScript, ~bosRun.clear, NEW i \in TemplateId,
                       bos.templates[i] # Nothing, bos'.templates[i] # bos.templates[i]
                PROVE  BosTouched(i)
    BY DEF BosTouched
  <2>1. bosRun.at \in {"clear", "create"} /\ i \in bosRun.todo
    BY BosScriptChanges
  <2>. QED BY <2>1 DEF BosSafe, BosStagesFollow, BosPlanIsNew, DeletingTemplates
<1>. QED BY <1>1, BosTypedInit, BosTypedNext, BosSafeInit, BosSafeNext, PTL DEF BosSpec, BosExistingIsKept

=============================================================================
