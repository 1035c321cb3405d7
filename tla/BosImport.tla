------------------------------ MODULE BosImport ------------------------------
(***************************************************************************)
(* Importing session templates and options into the Boot Orchestration     *)
(* Service (BOS), emptied or not:                                          *)
(* scripts/operations/configuration/import_bos_data.py with python_lib's   *)
(* bos.py and bos_cli.py; export_bos_data.sh takes the snapshots.          *)
(*                                                                         *)
(* A template is identified by its name and its tenant.  The files of the  *)
(* import may hold the same template more than once.  As in CfsImport,     *)
(* users go on using the service between the requests of the script.       *)
(***************************************************************************)
EXTENDS Naturals, Sequences, FiniteSets, ApiRequests

CONSTANTS
    BosName, BosTenant,     \* names of templates; tenants
    BosOption, BosSession,
    BosSystems,     \* what BOS may hold before the first run
    BosFiles,       \* sequences of templates that the files may hold
    BosOptionFiles, \* what the file of options may hold
    BosFaults,      \* may requests fail?
    MaxBosRuns, MaxBosEdits

NoTenant == "none"      \* an object of no tenant
Blank    == "blank"     \* the tenant field is there, and empty
Missing  == "missing"   \* the tenant field is not there
Nothing  == "nothing"   \* no such template, option or session

\* Mutant: the tenant does not count.
NameOnly(template) == <<template.name, NoTenant>>
\* The identity of a template (NameTenantTuple.create, __get_tenant).
UniqueId(template) ==
    <<template.name, IF template.tenant \in {Blank, Missing} THEN NoTenant ELSE template.tenant>>
TemplateId == BosName \X (BosTenant \cup {NoTenant})
BosText == {"system", "imported", "user"}

BosContents == [templates : [TemplateId -> BosText \cup {Nothing}],
                options   : [BosOption -> {"old", "new", Nothing}],
                sessions  : [BosSession -> {"active", "complete", Nothing}]]

\* A template as a file holds it.
BosTemplate == [name : BosName, tenant : BosTenant \cup {Blank, Missing}, text : BosText]

ASSUME BosAssumption ==
    /\ BosSystems \subseteq BosContents
    /\ BosFiles \subseteq Seq(BosTemplate)
    /\ BosOptionFiles \subseteq [BosOption -> {"old", "new", Nothing}]
    /\ {NoTenant, Blank, Missing} \cap BosTenant = {}
    /\ MaxBosRuns \in Nat /\ MaxBosEdits \in Nat

VARIABLES
    bos,            \* what BOS holds
    bosFiles,       \* the templates in the files, in the order they are read
    bosOptionFile,  \* what --options-file holds
    bosRun,         \* the run: where it is, its arguments, its copies and its plan
    bosSnap,        \* the last export of export_bos_data.sh
    bosTouched,     \* what users changed since the run read it
    bosLate,        \* what users changed since the last export read it
    bosEdits, bosRuns

bosVars == <<bos, bosFiles, bosOptionFile, bosRun, bosSnap, bosTouched, bosLate,
             bosEdits, bosRuns>>

BosPlaces == {"idle", "files", "options", "templates", "check_clear", "snapshot_clear",
              "list_sessions", "sessions", "no_sessions", "clear", "no_templates", "plan",
              "snapshot", "change_options", "create", "snapshot_after", "done", "failed"}
BosEnded == {"idle", "done", "failed"}

\* The order in which export_bos_data.sh reads.
ExportOrder == <<"options", "sessions", "templates">>
NothingRead == [templates |-> [i \in TemplateId |-> Nothing],
                options   |-> [o \in BosOption |-> Nothing],
                sessions  |-> [n \in BosSession |-> Nothing]]

BosTypeOK ==
    /\ bos \in BosContents /\ bosSnap \in BosContents
    /\ bosRun.at \in BosPlaces /\ bosRun.read \in 0..2
    /\ bosRun.clear \in BOOLEAN /\ bosRun.ignore \in BOOLEAN /\ bosRun.trouble \in BOOLEAN
    /\ bosRun.current \subseteq TemplateId      \* current_template_map
    /\ bosRun.imported \in [TemplateId -> BosText \cup {Nothing}]
    /\ \A o \in bosRun.options : bos.options[o] # Nothing   \* options_to_change
    /\ bosRun.todo \subseteq TemplateId \cup BosSession
    /\ bosEdits \in 0..MaxBosEdits /\ bosRuns \in 0..MaxBosRuns

NewRun == [at |-> "idle", read |-> 0, clear |-> FALSE, ignore |-> FALSE,
           imported |-> NothingRead.templates, current |-> {}, options |-> {},
           todo |-> {}, trouble |-> FALSE]

BosInit ==
    /\ bos \in BosSystems
    /\ bosFiles \in BosFiles
    /\ bosOptionFile \in BosOptionFiles
    /\ bosRun = NewRun
    /\ bosSnap = NothingRead
    /\ bosTouched = {} /\ bosLate = {}
    /\ bosEdits = 0 /\ bosRuns = 0

-----------------------------------------------------------------------------
(* Helpers.                                                                *)

\* Mutant: only the templates of no tenant are listed.
TemplatesOfNoTenant == {i \in TemplateId : bos.templates[i] # Nothing /\ i[2] = NoTenant}

Templates == {i \in TemplateId : bos.templates[i] # Nothing}
Sessions == {n \in BosSession : bos.sessions[n] # Nothing}
\* check_for_running_bos_sessions.
BosBusy == ~bosRun.ignore /\ \E n \in BosSession : bos.sessions[n] = "active"

\* validate_and_record_template, template after template: the same template
\* twice is one, and two templates of one identity are an error.
Contradictory(files) ==
    \E i, j \in DOMAIN files : UniqueId(files[i]) = UniqueId(files[j])
                               /\ files[i].text # files[j].text
load_templates_from_import_data(files) ==
    [id \in TemplateId |->
        IF \E i \in DOMAIN files : UniqueId(files[i]) = id
        THEN (CHOOSE t \in {files[i] : i \in DOMAIN files} : UniqueId(t) = id).text
        ELSE Nothing]

\* An option that this BOS does not have is skipped, with a warning.
BosOptionsToChange ==
    {o \in BosOption : bosOptionFile[o] # Nothing
                       /\ bos.options[o] \notin {Nothing, bosOptionFile[o]}}

BosPut == IF BosFaults THEN PutEndings ELSE {"ok"}
BosDelete == IF BosFaults THEN DeleteEndings ELSE {"ok"}

Goto(p) == [bosRun EXCEPT !.at = p]
BosFail == [bosRun EXCEPT !.at = "failed", !.trouble = TRUE]
After(ending, run) == IF ending = "ok" THEN run ELSE BosFail

-----------------------------------------------------------------------------
(* The script.                                                             *)

BosStart(clear, ignore) ==
    /\ bosRun.at \in BosEnded /\ bosRuns < MaxBosRuns
    /\ bosRuns' = bosRuns + 1
    /\ bosRun' = [NewRun EXCEPT !.at = "files", !.clear = clear, !.ignore = ignore]
    /\ UNCHANGED <<bos, bosFiles, bosOptionFile, bosSnap, bosTouched, bosLate, bosEdits>>

Local(next) ==      \* a step that only changes the run
    /\ bosRun' = next
    /\ UNCHANGED <<bos, bosFiles, bosOptionFile, bosSnap, bosTouched, bosLate, bosEdits, bosRuns>>

read_files ==
    /\ bosRun.at = "files"
    /\ Local(IF Contradictory(bosFiles) THEN BosFail
             ELSE [Goto("options") EXCEPT
                     !.imported = load_templates_from_import_data(bosFiles)])

plan_bos_options ==
    /\ bosRun.at = "options"
    /\ Local(IF BosBusy /\ BosOptionsToChange # {} THEN BosFail
             ELSE [Goto("templates") EXCEPT !.options = BosOptionsToChange])

load_current_templates ==
    /\ bosRun.at = "templates"
    /\ bosRun' = [Goto(IF bosRun.clear THEN "check_clear" ELSE "plan") EXCEPT
                    !.current = Templates]
    /\ bosTouched' = {}
    /\ UNCHANGED <<bos, bosFiles, bosOptionFile, bosSnap, bosLate, bosEdits, bosRuns>>

\* Mutant: active sessions are not looked for.
BosClearUnchecked ==
    /\ bosRun.at = "check_clear"
    /\ Local(Goto("snapshot_clear"))

bos_check_before_clear ==
    /\ bosRun.at = "check_clear"
    /\ Local(IF BosBusy THEN BosFail ELSE Goto("snapshot_clear"))

BosExport(from, to) ==
    LET t == ExportOrder[bosRun.read + 1]
    IN  /\ bosRun.at = from
        /\ bosSnap' = [bosSnap EXCEPT ![t] = bos[t]]
        /\ bosLate' = {e \in bosLate : e[1] # t}
        /\ bosRun' = IF bosRun.read = 2 THEN [Goto(to) EXCEPT !.read = 0]
                     ELSE [bosRun EXCEPT !.read = @ + 1]
        /\ UNCHANGED <<bos, bosFiles, bosOptionFile, bosTouched, bosEdits, bosRuns>>

snapshot_bos_data ==
    \/ BosExport("snapshot_clear", "list_sessions")
    \/ BosExport("snapshot", "change_options")
    \/ BosExport("snapshot_after", "done")

\* delete_all_sessions: list, delete one by one, list again.
list_all_sessions ==
    /\ bosRun.at = "list_sessions"
    /\ Local(IF Sessions = {} THEN [Goto("clear") EXCEPT !.todo = bosRun.current]
             ELSE [Goto("sessions") EXCEPT !.todo = Sessions])

delete_session ==
    /\ bosRun.at = "sessions"
    /\ \E n \in bosRun.todo, e \in BosDelete :
       /\ bos' = IF e = "failed" THEN bos ELSE [bos EXCEPT !.sessions[n] = Nothing]
       /\ LET left == bosRun.todo \ {n}
          IN  bosRun' = After(e, [Goto(IF left = {} THEN "no_sessions" ELSE "sessions")
                                    EXCEPT !.todo = left])
    /\ UNCHANGED <<bosFiles, bosOptionFile, bosSnap, bosTouched, bosLate, bosEdits, bosRuns>>

no_sessions_left ==
    /\ bosRun.at = "no_sessions"
    /\ Local(IF Sessions # {} THEN BosFail
             ELSE [Goto("clear") EXCEPT !.todo = bosRun.current])

\* delete_all_templates: those listed at the start, then list again.
delete_session_template ==
    /\ bosRun.at = "clear"
    /\ IF bosRun.todo = {}
       THEN /\ bosRun' = Goto(IF bosRun.current = {} THEN "plan" ELSE "no_templates")
            /\ UNCHANGED bos
       ELSE \E i \in bosRun.todo, e \in BosDelete :
            /\ bos' = IF e = "failed" THEN bos ELSE [bos EXCEPT !.templates[i] = Nothing]
            /\ bosRun' = After(e, [bosRun EXCEPT !.todo = @ \ {i}])
    /\ UNCHANGED <<bosFiles, bosOptionFile, bosSnap, bosTouched, bosLate, bosEdits, bosRuns>>

no_templates_left ==
    /\ bosRun.at = "no_templates"
    /\ Local(IF Templates # {} THEN BosFail ELSE [Goto("plan") EXCEPT !.current = {}])

get_templates_to_import ==
    {i \in TemplateId : bosRun.imported[i] # Nothing} \ bosRun.current

plan_templates ==
    /\ bosRun.at = "plan"
    /\ LET todo == get_templates_to_import
       IN  Local(IF BosBusy /\ todo # {} THEN BosFail
                 ELSE IF todo = {} /\ bosRun.options = {} THEN Goto("done")
                 ELSE [Goto(IF bosRun.clear THEN "change_options" ELSE "snapshot") EXCEPT
                         !.todo = todo])

change_bos_options ==
    /\ bosRun.at = "change_options"
    /\ IF bosRun.options = {} THEN bosRun' = Goto("create") /\ UNCHANGED bos
       ELSE \E e \in BosPut :
            /\ bos' = IF e = "failed" THEN bos
                      ELSE [bos EXCEPT !.options = [o \in BosOption |->
                              IF o \in bosRun.options THEN bosOptionFile[o] ELSE @[o]]]
            /\ bosRun' = After(e, Goto("create"))
    /\ UNCHANGED <<bosFiles, bosOptionFile, bosSnap, bosTouched, bosLate, bosEdits, bosRuns>>

\* `cray bos sessiontemplates create' as the tenant of the template: a PUT.
create_session_template ==
    /\ bosRun.at = "create"
    /\ IF bosRun.todo = {} THEN bosRun' = Goto("snapshot_after") /\ UNCHANGED bos
       ELSE \E i \in bosRun.todo, e \in BosPut :
            /\ bos' = IF e = "failed" THEN bos
                      ELSE [bos EXCEPT !.templates[i] = bosRun.imported[i]]
            /\ bosRun' = After(e, [bosRun EXCEPT !.todo = @ \ {i}])
    /\ UNCHANGED <<bosFiles, bosOptionFile, bosSnap, bosTouched, bosLate, bosEdits, bosRuns>>

BosScript ==
    \/ read_files \/ plan_bos_options \/ load_current_templates \/ bos_check_before_clear
    \/ snapshot_bos_data \/ list_all_sessions \/ delete_session \/ no_sessions_left
    \/ delete_session_template \/ no_templates_left \/ plan_templates
    \/ change_bos_options \/ create_session_template

-----------------------------------------------------------------------------
(* External: the users of BOS.                                             *)

BosUser(t, i, value) ==
    /\ bosEdits < MaxBosEdits
    /\ bosEdits' = bosEdits + 1
    /\ bos' = [bos EXCEPT ![t][i] = value]
    /\ bosTouched' = bosTouched \cup {<<t, i>>}
    /\ bosLate' = bosLate \cup {<<t, i>>}
    /\ UNCHANGED <<bosFiles, bosOptionFile, bosRun, bosSnap, bosRuns>>

BosUsers ==
    \/ \E i \in TemplateId : BosUser("templates", i, "user")
    \/ \E n \in BosSession : bos.sessions[n] = Nothing /\ BosUser("sessions", n, "active")
    \/ \E n \in BosSession : bos.sessions[n] = "active" /\ BosUser("sessions", n, "complete")

BosNext ==
    \/ \E clear, ignore \in BOOLEAN : BosStart(clear, ignore)
    \/ BosScript
    \/ BosUsers

BosSpec == BosInit /\ [][BosNext]_bosVars

-----------------------------------------------------------------------------
(* Properties.                                                             *)

\* What a run deletes or replaces is in the export it took before, unless a user
\* changed it after the export.
BosGone(t) ==
    \A i \in DOMAIN bos[t] :
        bos[t][i] # Nothing /\ bos'[t][i] # bos[t][i] =>
            bosSnap[t][i] = bos[t][i] \/ <<t, i>> \in bosLate
BosRemovedIsExported ==
    [][BosScript => BosGone("templates") /\ BosGone("options") /\ BosGone("sessions")]_bosVars

\* Without --clear-bos no template of any tenant changes that was there when the
\* run listed them.
BosExistingIsKept ==
    [][BosScript /\ ~bosRun.clear =>
        \A i \in TemplateId : bos.templates[i] # Nothing =>
            bos'.templates[i] = bos.templates[i] \/ <<"templates", i>> \in bosTouched]_bosVars

\* After a run that reports success every template of the files exists under its
\* name and tenant, and every option of the file that BOS has is set, also when
\* the options were planned before BOS was cleared or earlier runs failed.
BosImportIsComplete ==
    bosRun.at = "done" =>
        /\ \A k \in DOMAIN bosFiles : \E i \in TemplateId :
             /\ bos.templates[i] # Nothing
             /\ i[1] = bosFiles[k].name
             /\ i[2] = IF bosFiles[k].tenant \in BosTenant THEN bosFiles[k].tenant ELSE NoTenant
        /\ \A o \in BosOption :
             bosOptionFile[o] # Nothing /\ bos.options[o] # Nothing =>
                bos.options[o] = bosOptionFile[o]

\* A cleared BOS holds what the files hold: what else there is came from users
\* after the run had listed the templates.
ClearedBosIsTheImport ==
    bosRun.at = "done" /\ bosRun.clear =>
        \A i \in TemplateId : \/ bos.templates[i] \in {Nothing, bosRun.imported[i]}
                              \/ <<"templates", i>> \in bosTouched

\* Unless told to ignore them, a run deletes no active session but one that was
\* started while it was clearing.
ActiveSessionsSurvive ==
    [][BosScript /\ ~bosRun.ignore =>
        \A n \in BosSession : bos.sessions[n] = "active" /\ bos'.sessions[n] = Nothing =>
            <<"sessions", n>> \in bosTouched]_bosVars
=============================================================================
