------------------------------ MODULE CfsImport ------------------------------
(***************************************************************************)
(* Exporting the data of the Configuration Framework Service (CFS) and     *)
(* importing it, into an emptied CFS or beside what is there:              *)
(* scripts/operations/configuration/export_cfs_data.py, import_cfs_data.py *)
(* and python_lib/cfs.py.                                                  *)
(*                                                                         *)
(* The script plans from a copy it reads at the start, table after table,  *)
(* and then changes CFS request by request.  Meanwhile users create and    *)
(* delete configurations, assign them to components and start sessions;    *)
(* requests fail; and a run that failed is repeated.                       *)
(*                                                                         *)
(* Abstractions: desired_config stands for the fields of a component (the  *)
(* state, tags and error count cleared with it are not imported); a        *)
(* configuration is a text and the optional fields of its layers.          *)
(***************************************************************************)
EXTENDS Naturals, FiniteSets, ApiRequests

CONSTANTS
    CfsConfig, CfsComponent, CfsOption, CfsSource,  \* names and ids
    CfsSystems,     \* what CFS may hold before the first run
    CfsExports,     \* what the files of the import may hold
    CfsVersions,    \* versions of CFS: triples
    CfsFaults,      \* may requests fail?
    ChunkSize,      \* components in one PATCH
    MaxCfsRuns, MaxCfsEdits     \* bounds on runs and on changes by users

Absent == "absent"      \* no such item
Unset  == "unset"       \* a component without desired configuration
EmptyId == "no id"      \* CASMCMS-9195: the invalid component without an id
ReadOnlyInV3 == "default_playbook"
ConfigText == {"system", "imported", "user"}
Fields == {"branch", "commit"}
ConfigBody == [text : ConfigText, layer : SUBSET Fields]

CfsContents == [desired : [CfsComponent -> CfsConfig \cup {Unset, Absent}],
                configs : [CfsConfig -> ConfigBody \cup {[text |-> Absent, layer |-> {}]}],
                options : [CfsOption -> {"old", "new", Absent}],
                sources : [CfsSource -> {"there", Absent}]]
NoConfig == [text |-> Absent, layer |-> {}]

ASSUME CfsAssumption ==
    /\ CfsSystems \subseteq CfsContents /\ CfsExports \subseteq CfsContents
    /\ CfsConfig \cap {Unset, Absent} = {}
    /\ CfsVersions \subseteq Nat \X Nat \X Nat
    /\ ChunkSize \in Nat \ {0} /\ MaxCfsRuns \in Nat /\ MaxCfsEdits \in Nat

\* The order in which load_cfs_data and export_cfs_data.py read CFS.
CFS_RESOURCE_TYPES == <<"desired", "configs", "options", "sources">>
Unread == [desired |-> [x \in CfsComponent |-> Absent],
           configs |-> [c \in CfsConfig |-> NoConfig],
           options |-> [o \in CfsOption |-> Absent],
           sources |-> [s \in CfsSource |-> Absent]]

VARIABLES
    cfs,        \* what CFS holds
    cfsData,    \* what the files to import hold
    cfsVersion,
    cfsSession, \* is a CFS session pending or running?
    cfsLocal,   \* current_cfs_data of the run
    cfsSnap,    \* the last export of export_cfs_data.sh
    cfsRun,     \* the run: where it is, its options and its plan
    cfsAsked,   \* [item |-> value] a component was set to by this run's import
    cfsTouched, \* what users changed since the run read it
    cfsLate,    \* what users changed since the last export read it
    cfsEdits, cfsRuns           \* bounded counters

cfsVars == <<cfs, cfsData, cfsVersion, cfsSession, cfsLocal, cfsSnap, cfsRun,
             cfsAsked, cfsTouched, cfsLate, cfsEdits, cfsRuns>>

Places == {"idle", "load", "check_clear", "snapshot_clear", "clear_components",
           "clear_configs", "plan_components", "plan_options", "plan_sources",
           "snapshot", "options_v2", "options_v3", "sources", "configs",
           "components", "snapshot_after", "done", "failed"}
Ended == {"idle", "done", "failed"}
NoPlan == [options |-> {}, sources |-> {}, configs |-> {}, components |-> {}]

CfsNewRun == [at |-> "idle", read |-> 0, clear |-> FALSE, ignore |-> FALSE,
              plan |-> NoPlan, trouble |-> FALSE]

\* One type invariant for the module.
CfsTypeOK ==
    /\ cfs \in CfsContents /\ cfsData \in CfsContents
    /\ cfsLocal \in CfsContents /\ cfsSnap \in CfsContents
    /\ cfsVersion \in CfsVersions /\ cfsSession \in BOOLEAN
    /\ cfsRun.at \in Places /\ cfsRun.read \in 0..3
    /\ cfsRun.clear \in BOOLEAN /\ cfsRun.ignore \in BOOLEAN
    /\ cfsRun.trouble \in BOOLEAN
    /\ cfsRun.plan.options \subseteq CfsOption /\ cfsRun.plan.sources \subseteq CfsSource
    /\ cfsRun.plan.configs \subseteq CfsConfig
    /\ cfsRun.plan.components \subseteq CfsComponent \ {EmptyId}
    /\ cfsAsked \subseteq CfsComponent
    /\ cfsEdits \in 0..MaxCfsEdits /\ cfsRuns \in 0..MaxCfsRuns

\* Components without an id are neither listed nor patched.
remove_components_with_empty_ids(table) ==
    [x \in CfsComponent |-> IF x = EmptyId THEN Absent ELSE table[x]]
json_data_from_directory(files) ==
    [files EXCEPT !.desired = remove_components_with_empty_ids(@)]

CfsInit ==
    /\ cfs \in CfsSystems
    /\ \E files \in CfsExports : cfsData = json_data_from_directory(files)
    /\ cfsVersion \in CfsVersions
    /\ cfsSession = FALSE
    /\ cfsLocal = Unread /\ cfsSnap = Unread
    /\ cfsRun = CfsNewRun
    /\ cfsAsked = {} /\ cfsTouched = {} /\ cfsLate = {}
    /\ cfsEdits = 0 /\ cfsRuns = 0

-----------------------------------------------------------------------------
(* Helpers.                                                                *)

Names(table, none) == {i \in DOMAIN table : table[i] # none}

\* CfsVersion tuples compare from left to right.
AtLeast(v, w) ==
    \E k \in 1..4 : /\ \A i \in 1..(k - 1) : v[i] = w[i]
                    /\ k = 4 \/ v[k] > w[k]

restore_source_supported(v) ==
    AtLeast(v, IF v[1] = 1 /\ v[2] = 18 THEN <<1, 18, 10>> ELSE <<1, 23, 0>>)

\* Mutant: layers are sent as they were exported.
SendAsExported(body) == body
\* CFS fills in the commit of a branch, and refuses a layer that names both.
scrub_layer(body) ==
    IF Fields \subseteq body.layer THEN [body EXCEPT !.layer = @ \ {"commit"}] ELSE body
Accepted(body) == ~ Fields \subseteq body.layer
Stored(body) == [body EXCEPT !.layer = @ \cup {"commit"}]

\* What list_cfs_components and the other list functions return, page by page.
Listed(t) == IF t = "desired" THEN remove_components_with_empty_ids(cfs.desired) ELSE cfs[t]

\* The sizes of the pieces chunk_list cuts a list into, piece after piece.
chunk_list(items) ==
    {piece \in SUBSET items :
        Cardinality(piece) = IF Cardinality(items) < ChunkSize THEN Cardinality(items)
                             ELSE ChunkSize}

Put == IF CfsFaults THEN PutEndings ELSE {"ok"}
Delete == IF CfsFaults THEN DeleteEndings ELSE {"ok"}

\* CFS deletes no configuration that it does not have, or that a component uses.
RefusesDelete(c) == cfs.configs[c] = NoConfig \/ \E x \in CfsComponent : cfs.desired[x] = c

\* A run goes on at p when its request ended well, and ends otherwise.
GoesOn(ending, p) ==
    IF ending = "ok" THEN [cfsRun EXCEPT !.at = p]
    ELSE [cfsRun EXCEPT !.at = "failed", !.trouble = TRUE]
Stop == cfsRun' = [cfsRun EXCEPT !.at = "failed", !.trouble = TRUE]

-----------------------------------------------------------------------------
(* Reading.                                                                *)

StartImport(clear, ignore) ==
    /\ cfsRun.at \in Ended /\ cfsRuns < MaxCfsRuns
    /\ cfsRuns' = cfsRuns + 1
    /\ cfsRun' = [CfsNewRun EXCEPT !.at = "load", !.clear = clear, !.ignore = ignore]
    /\ cfsLocal' = Unread
    /\ cfsAsked' = {}
    /\ UNCHANGED <<cfs, cfsData, cfsVersion, cfsSession, cfsSnap, cfsTouched, cfsLate, cfsEdits>>

\* Reading the next table; when it was the last, the run goes on at p.
ReadNext(p) ==
    LET t == CFS_RESOURCE_TYPES[cfsRun.read + 1]
    IN  /\ cfsRun' = IF cfsRun.read = 3 THEN [cfsRun EXCEPT !.read = 0, !.at = p]
                     ELSE [cfsRun EXCEPT !.read = @ + 1]
        /\ IF cfsRun.at = "load"
           THEN /\ cfsLocal' = [cfsLocal EXCEPT ![t] = Listed(t)]
                /\ cfsTouched' = {e \in cfsTouched : e[1] # t}
                /\ UNCHANGED <<cfsSnap, cfsLate>>
           ELSE /\ cfsSnap' = [cfsSnap EXCEPT ![t] = Listed(t)]
                /\ cfsLate' = {e \in cfsLate : e[1] # t}
                /\ UNCHANGED <<cfsLocal, cfsTouched>>
        /\ UNCHANGED <<cfs, cfsData, cfsVersion, cfsSession, cfsAsked, cfsEdits, cfsRuns>>

load_cfs_data ==
    /\ cfsRun.at = "load"
    /\ ReadNext(IF cfsRun.clear THEN "check_clear" ELSE "plan_components")

\* Export: before a clear, before the changes of a run without clear, at the end.
snapshot_cfs_data ==
    \/ cfsRun.at = "snapshot_clear" /\ ReadNext("clear_components")
    \/ cfsRun.at = "snapshot" /\ ReadNext("options_v2")
    \/ cfsRun.at = "snapshot_after" /\ ReadNext("done")

-----------------------------------------------------------------------------
(* Clearing.                                                               *)

Running == cfsSession /\ ~cfsRun.ignore

\* Mutant: CFS is cleared without an export.
ClearWithoutSnapshot ==
    /\ cfsRun.at = "check_clear"
    /\ IF Running THEN Stop ELSE cfsRun' = [cfsRun EXCEPT !.at = "clear_components"]
    /\ UNCHANGED <<cfs, cfsData, cfsVersion, cfsSession, cfsLocal, cfsSnap,
                   cfsAsked, cfsTouched, cfsLate, cfsEdits, cfsRuns>>

check_before_clear ==
    /\ cfsRun.at = "check_clear"
    /\ IF Running THEN Stop ELSE cfsRun' = [cfsRun EXCEPT !.at = "snapshot_clear"]
    /\ UNCHANGED <<cfs, cfsData, cfsVersion, cfsSession, cfsLocal, cfsSnap,
                   cfsAsked, cfsTouched, cfsLate, cfsEdits, cfsRuns>>

\* The plan's components are those still to clear: all that were listed.  The
\* copy of the run follows, so that the plan sees what is left.
clear_components ==
    /\ cfsRun.at = "clear_components"
    /\ LET left == Names(cfsLocal.desired, Absent) \ cfsRun.plan.components
       IN  IF left = {}
           THEN /\ cfsRun' = [cfsRun EXCEPT !.at = "clear_configs", !.plan = NoPlan]
                /\ UNCHANGED <<cfs, cfsLocal>>
           ELSE \E piece \in chunk_list(left), e \in Put :
                LET cleared(table) == [x \in CfsComponent |->
                        IF x \in piece /\ cfs.desired[x] # Absent THEN Unset ELSE table[x]]
                IN  /\ cfs' = IF e = "failed" THEN cfs
                              ELSE [cfs EXCEPT !.desired = cleared(@)]
                    /\ cfsLocal' = IF e = "ok" THEN [cfsLocal EXCEPT !.desired = cleared(@)]
                                   ELSE cfsLocal
                    /\ cfsRun' = [GoesOn(e, "clear_components") EXCEPT
                                    !.plan.components = @ \cup piece]
    /\ UNCHANGED <<cfsData, cfsVersion, cfsSession, cfsSnap, cfsAsked, cfsTouched,
                   cfsLate, cfsEdits, cfsRuns>>

\* After the last configuration clear_cfs returns: `if current_cfs_data.sources'
\* leaves when there are sources, and without sources there is none to delete.
clear_configs ==
    /\ cfsRun.at = "clear_configs"
    /\ LET left == Names(cfsLocal.configs, NoConfig)
       IN  IF left = {}
           THEN /\ cfsRun' = [cfsRun EXCEPT !.at = "plan_components"]
                /\ UNCHANGED <<cfs, cfsLocal>>
           ELSE \E c \in left :
                \/ RefusesDelete(c) /\ Stop /\ UNCHANGED <<cfs, cfsLocal>>
                \/ /\ ~RefusesDelete(c)
                   /\ \E e \in Delete :
                        /\ cfs' = IF e = "failed" THEN cfs ELSE [cfs EXCEPT !.configs[c] = NoConfig]
                        /\ cfsLocal' = IF e = "ok" THEN [cfsLocal EXCEPT !.configs[c] = NoConfig]
                                       ELSE cfsLocal
                        /\ cfsRun' = GoesOn(e, "clear_configs")
    /\ UNCHANGED <<cfsData, cfsVersion, cfsSession, cfsSnap, cfsAsked, cfsTouched,
                   cfsLate, cfsEdits, cfsRuns>>

-----------------------------------------------------------------------------
(* Planning, from the copy of the run.                                     *)

get_resources_to_create(exported, current, none) ==
    Names(exported, none) \ Names(current, none)

\* Mutant: a configuration need not exist.
AnyConfigWillDo(configsToCreate) ==
    {x \in CfsComponent : /\ cfsData.desired[x] \notin {Absent, Unset}
                          /\ cfsLocal.desired[x] = Unset}

get_comps_to_update(configsToCreate) ==
    {x \in CfsComponent :
        /\ cfsData.desired[x] \notin {Absent, Unset}
        /\ cfsData.desired[x] \in Names(cfsLocal.configs, NoConfig) \cup configsToCreate
        /\ cfsLocal.desired[x] = Unset}

plan_components ==
    /\ cfsRun.at = "plan_components"
    /\ LET configs == get_resources_to_create(cfsData.configs, cfsLocal.configs, NoConfig)
           comps   == get_comps_to_update(configs)
       IN  IF Running /\ comps # {} THEN Stop
           ELSE cfsRun' = [cfsRun EXCEPT !.at = "plan_options", !.plan.configs = configs,
                                         !.plan.components = comps]
    /\ UNCHANGED <<cfs, cfsData, cfsVersion, cfsSession, cfsLocal, cfsSnap,
                   cfsAsked, cfsTouched, cfsLate, cfsEdits, cfsRuns>>

\* An imported option that this CFS does not have is a KeyError.
get_options_to_change ==
    {o \in CfsOption : cfsData.options[o] \notin {Absent, cfsLocal.options[o]}}
UnknownOption == \E o \in get_options_to_change : cfsLocal.options[o] = Absent

plan_options ==
    /\ cfsRun.at = "plan_options"
    /\ IF UnknownOption \/ (Running /\ get_options_to_change # {}) THEN Stop
       ELSE cfsRun' = [cfsRun EXCEPT !.at = "plan_sources",
                                     !.plan.options = get_options_to_change]
    /\ UNCHANGED <<cfs, cfsData, cfsVersion, cfsSession, cfsLocal, cfsSnap,
                   cfsAsked, cfsTouched, cfsLate, cfsEdits, cfsRuns>>

plan_sources ==
    /\ cfsRun.at = "plan_sources"
    /\ LET sources == IF restore_source_supported(cfsVersion)
                      THEN get_resources_to_create(cfsData.sources, cfsLocal.sources, Absent)
                      ELSE {}
           plan == [cfsRun.plan EXCEPT !.sources = sources]
       IN  cfsRun' = [cfsRun EXCEPT !.plan = plan,
                        !.at = IF plan = NoPlan THEN "done"
                               ELSE IF cfsRun.clear THEN "options_v2" ELSE "snapshot"]
    /\ UNCHANGED <<cfs, cfsData, cfsVersion, cfsSession, cfsLocal, cfsSnap,
                   cfsAsked, cfsTouched, cfsLate, cfsEdits, cfsRuns>>

-----------------------------------------------------------------------------
(* Changing CFS: options, sources, configurations, components.             *)

\* update_options: default_playbook goes to the v2 API, the others to v3.
PatchOptions(opts, p) ==
    IF opts = {} THEN cfsRun' = GoesOn("ok", p) /\ UNCHANGED cfs
    ELSE \E e \in Put :
         /\ cfs' = IF e = "failed" THEN cfs
                   ELSE [cfs EXCEPT !.options = [o \in CfsOption |->
                            IF o \in opts THEN cfsData.options[o] ELSE @[o]]]
         /\ cfsRun' = GoesOn(e, p)

change_options ==
    /\ \/ /\ cfsRun.at = "options_v2"
          /\ PatchOptions(cfsRun.plan.options \cap {ReadOnlyInV3}, "options_v3")
       \/ /\ cfsRun.at = "options_v3"
          /\ PatchOptions(cfsRun.plan.options \ {ReadOnlyInV3}, "sources")
    /\ UNCHANGED <<cfsData, cfsVersion, cfsSession, cfsLocal, cfsSnap,
                   cfsAsked, cfsTouched, cfsLate, cfsEdits, cfsRuns>>

restore_sources ==
    /\ cfsRun.at = "sources"
    /\ IF cfsRun.plan.sources = {}
       THEN cfsRun' = [cfsRun EXCEPT !.at = "configs"] /\ UNCHANGED cfs
       ELSE \E s \in cfsRun.plan.sources, e \in Delete :
            /\ cfs' = IF e = "failed" THEN cfs
                      ELSE [cfs EXCEPT !.sources[s] = cfsData.sources[s]]
            /\ cfsRun' = [GoesOn(e, "sources") EXCEPT !.plan.sources = @ \ {s}]
    /\ UNCHANGED <<cfsData, cfsVersion, cfsSession, cfsLocal, cfsSnap,
                   cfsAsked, cfsTouched, cfsLate, cfsEdits, cfsRuns>>

\* A PUT: what has that name is replaced.
create_configs ==
    /\ cfsRun.at = "configs"
    /\ IF cfsRun.plan.configs = {}
       THEN cfsRun' = [cfsRun EXCEPT !.at = "components"] /\ UNCHANGED cfs
       ELSE \E c \in cfsRun.plan.configs, e \in Put :
            LET body == scrub_layer(cfsData.configs[c])
            IN  IF Accepted(body)
                THEN /\ cfs' = IF e = "failed" THEN cfs
                               ELSE [cfs EXCEPT !.configs[c] = Stored(body)]
                     /\ cfsRun' = [GoesOn(e, "configs") EXCEPT !.plan.configs = @ \ {c}]
                ELSE cfsRun' = [cfsRun EXCEPT !.at = "failed"] /\ UNCHANGED cfs
    /\ UNCHANGED <<cfsData, cfsVersion, cfsSession, cfsLocal, cfsSnap,
                   cfsAsked, cfsTouched, cfsLate, cfsEdits, cfsRuns>>

update_components ==
    /\ cfsRun.at = "components"
    /\ IF cfsRun.plan.components = {}
       THEN cfsRun' = [cfsRun EXCEPT !.at = "snapshot_after"] /\ UNCHANGED <<cfs, cfsAsked>>
       ELSE \E c \in CfsConfig, e \in Put :
            LET same == {x \in cfsRun.plan.components : cfsData.desired[x] = c}
            IN  /\ same # {}
                /\ \E piece \in chunk_list(same) :
                   /\ cfs' = IF e = "failed" THEN cfs
                             ELSE [cfs EXCEPT !.desired = [x \in CfsComponent |->
                                     IF x \in piece /\ @[x] # Absent THEN c ELSE @[x]]]
                   /\ cfsAsked' = IF e = "failed" THEN cfsAsked ELSE cfsAsked \cup piece
                   /\ cfsRun' = [GoesOn(e, "components") EXCEPT !.plan.components = @ \ piece]
    /\ UNCHANGED <<cfsData, cfsVersion, cfsSession, cfsLocal, cfsSnap, cfsTouched,
                   cfsLate, cfsEdits, cfsRuns>>

CfsScript ==
    \/ load_cfs_data \/ check_before_clear \/ snapshot_cfs_data
    \/ clear_components \/ clear_configs
    \/ plan_components \/ plan_options \/ plan_sources
    \/ change_options \/ restore_sources \/ create_configs \/ update_components

-----------------------------------------------------------------------------
(* External: the users of CFS.                                             *)

UserChanges(t, i) ==
    /\ cfsEdits < MaxCfsEdits
    /\ cfsEdits' = cfsEdits + 1
    /\ cfsTouched' = cfsTouched \cup {<<t, i>>}
    /\ cfsLate' = cfsLate \cup {<<t, i>>}
    /\ UNCHANGED <<cfsData, cfsVersion, cfsSession, cfsLocal, cfsSnap, cfsRun,
                   cfsAsked, cfsRuns>>

UserPutsConfig(c) ==
    /\ UserChanges("configs", c)
    /\ cfs' = [cfs EXCEPT !.configs[c] = [text |-> "user", layer |-> Fields]]

UserDeletesConfig(c) ==
    /\ ~RefusesDelete(c)
    /\ UserChanges("configs", c)
    /\ cfs' = [cfs EXCEPT !.configs[c] = NoConfig]

UserSetsDesired(x, c) ==
    /\ cfs.desired[x] # Absent /\ cfs.configs[c] # NoConfig
    /\ UserChanges("desired", x)
    /\ cfs' = [cfs EXCEPT !.desired[x] = c]

SessionChanges ==
    /\ cfsEdits < MaxCfsEdits
    /\ cfsEdits' = cfsEdits + 1
    /\ cfsSession' = ~cfsSession
    /\ UNCHANGED <<cfs, cfsData, cfsVersion, cfsLocal, cfsSnap, cfsRun, cfsAsked,
                   cfsTouched, cfsLate, cfsRuns>>

CfsUsers ==
    \/ \E c \in CfsConfig : UserPutsConfig(c) \/ UserDeletesConfig(c)
    \/ \E x \in CfsComponent \ {EmptyId}, c \in CfsConfig : UserSetsDesired(x, c)
    \/ SessionChanges

CfsNext ==
    \/ \E clear, ignore \in BOOLEAN : StartImport(clear, ignore)
    \/ CfsScript
    \/ CfsUsers

CfsSpec == CfsInit /\ [][CfsNext]_cfsVars

-----------------------------------------------------------------------------
(* Properties.                                                             *)

\* A component that the import assigned a configuration to has one that exists,
\* at every moment, however a run ends: components are updated last, and the
\* plan counts on the configurations that the run creates itself.  It also counts
\* on those that CFS had when the run read it: one that a user deleted since then
\* is assigned all the same, and is excepted here.
ImportedDesiredExists ==
    \A x \in cfsAsked : cfs.desired[x] \notin {Unset, Absent} =>
        \/ cfs.configs[cfs.desired[x]] # NoConfig
        \/ <<"configs", cfs.desired[x]>> \in cfsTouched

\* What a run removes or replaces is in the export it took before, unless a user
\* changed it after the export: nothing is cleared that cannot be put back.
Gone(t, none) ==
    \A i \in DOMAIN cfs[t] :
        cfs[t][i] # none /\ cfs'[t][i] # cfs[t][i] =>
            cfsSnap[t][i] = cfs[t][i] \/ <<t, i>> \in cfsLate
RemovedIsExported ==
    [][CfsScript => Gone("desired", Unset) /\ Gone("configs", NoConfig)
                    /\ Gone("options", Absent) /\ Gone("sources", Absent)]_cfsVars

\* Without --clear-cfs, what is there stays: a configuration that has the name of
\* an imported one, and the desired configuration of a component, unless they
\* came after the run had read CFS.
ExistingIsKept ==
    [][CfsScript /\ ~cfsRun.clear =>
        /\ \A c \in CfsConfig : cfs.configs[c] # NoConfig =>
             cfs'.configs[c] = cfs.configs[c] \/ <<"configs", c>> \in cfsTouched
        /\ \A x \in CfsComponent : cfs.desired[x] \notin {Unset, Absent} =>
             cfs'.desired[x] = cfs.desired[x] \/ <<"desired", x>> \in cfsTouched]_cfsVars

\* After a run that reports success everything that can be imported is there,
\* whatever earlier runs left half-way: the configurations, the sources, the
\* options, and a desired configuration for each component that is to have one --
\* but for configurations that users changed, and so may have deleted, since the
\* run read CFS.
ImportIsComplete ==
    cfsRun.at = "done" =>
        /\ \A c \in Names(cfsData.configs, NoConfig) :
             cfs.configs[c] # NoConfig \/ <<"configs", c>> \in cfsTouched
        /\ restore_source_supported(cfsVersion) =>
             \A s \in Names(cfsData.sources, Absent) : cfs.sources[s] # Absent
        /\ \A o \in Names(cfsData.options, Absent) : cfs.options[o] = cfsData.options[o]
        /\ \A x \in CfsComponent \ {EmptyId} :
             /\ cfsData.desired[x] \in Names(cfsData.configs, NoConfig)
             /\ cfsLocal.desired[x] # Absent
             => cfs.desired[x] # Unset

\* A run fails only for a failed request, a session, a configuration that a user
\* deleted or put to use before the run deletes it, or an unknown option: CFS
\* accepts every configuration that the script sends, also those whose layers were
\* exported with branch and commit.
FailsForAReason == cfsRun.at = "failed" => cfsRun.trouble
=============================================================================
