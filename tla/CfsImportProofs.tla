--------------------------- MODULE CfsImportProofs ---------------------------
(***************************************************************************)
(* Proofs about CfsImport: for any configurations, components, options and *)
(* sources, any contents of CFS and of the export, failing requests and    *)
(* any number of runs and of changes by users, no component is assigned a  *)
(* configuration that does not exist, CFS accepts every configuration it   *)
(* is sent, an import that succeeds is complete, what it removes was       *)
(* exported before, and without the option to clear what was there stays:  *)
(* all but for what users changed after the run had read CFS.              *)
(***************************************************************************)
EXTENDS CfsImport, TLAPS

CfsPlan == [options : SUBSET CfsOption, sources : SUBSET CfsSource,
         configs : SUBSET CfsConfig, components : SUBSET (CfsComponent \ {EmptyId})]
CfsRunRecord == [at : Places, read : 0..3, clear : BOOLEAN, ignore : BOOLEAN,
              plan : CfsPlan, trouble : BOOLEAN]

Nameless(table) == EmptyId \in CfsComponent => table[EmptyId] = Absent

\* The variables are well-formed, and neither the files nor the copy of a run
\* have a component without an id.
CfsTyped ==
    /\ cfs \in CfsContents /\ cfsData \in CfsContents
    /\ cfsLocal \in CfsContents /\ cfsSnap \in CfsContents
    /\ cfsVersion \in CfsVersions /\ cfsSession \in BOOLEAN
    /\ cfsRun \in CfsRunRecord
    /\ Nameless(cfsLocal.desired) /\ Nameless(cfsData.desired)
    /\ cfsAsked \subseteq CfsComponent
    /\ cfsEdits \in 0..MaxCfsEdits /\ cfsRuns \in 0..MaxCfsRuns

-----------------------------------------------------------------------------
(* Type correctness.                                                       *)

LEMMA ListedTyped ==
    ASSUME cfs \in CfsContents
    PROVE  /\ Listed("desired") \in [CfsComponent -> CfsConfig \cup {Unset, Absent}]
           /\ Nameless(Listed("desired"))
           /\ Listed("configs") \in [CfsConfig -> ConfigBody \cup {NoConfig}]
           /\ Listed("options") \in [CfsOption -> {"old", "new", Absent}]
           /\ Listed("sources") \in [CfsSource -> {"there", Absent}]
BY DEF Listed, remove_components_with_empty_ids, Nameless, CfsContents, NoConfig

LEMMA UnreadTyped == Unread \in CfsContents /\ Nameless(Unread.desired)
BY DEF Unread, CfsContents, NoConfig, Nameless

LEMMA CfsNewRunTyped ==
    /\ CfsNewRun \in CfsRunRecord
    /\ CfsNewRun.at = "idle" /\ CfsNewRun.plan = NoPlan /\ CfsNewRun.trouble = FALSE
BY DEF CfsNewRun, CfsRunRecord, NoPlan, CfsPlan, Places

LEMMA CfsTypedInit == CfsInit => CfsTyped
<1>. SUFFICES ASSUME CfsInit PROVE CfsTyped
  OBVIOUS
<1>1. PICK files \in CfsExports : cfsData = json_data_from_directory(files)
  BY DEF CfsInit
<1>2. cfsData \in CfsContents /\ Nameless(cfsData.desired)
  <2>1. files \in CfsContents
    BY CfsAssumption
  <2>2. /\ remove_components_with_empty_ids(files.desired) \in [CfsComponent -> CfsConfig \cup {Unset, Absent}]
        /\ Nameless(remove_components_with_empty_ids(files.desired))
    BY <2>1 DEF remove_components_with_empty_ids, CfsContents, Nameless
  <2>. QED BY <1>1, <2>1, <2>2 DEF json_data_from_directory, CfsContents
<1>3. cfsLocal \in CfsContents /\ cfsSnap \in CfsContents /\ Nameless(cfsLocal.desired)
  BY UnreadTyped DEF CfsInit
<1>4. cfsRun \in CfsRunRecord /\ cfs \in CfsContents /\ cfsVersion \in CfsVersions
  BY CfsNewRunTyped, CfsAssumption DEF CfsInit
<1>5. cfsEdits \in 0..MaxCfsEdits /\ cfsRuns \in 0..MaxCfsRuns
  BY CfsAssumption DEF CfsInit
<1>. QED BY <1>2, <1>3, <1>4, <1>5 DEF CfsInit, CfsTyped

\* A run goes on at another place, or ends for a request that failed.
LEMMA GoesOnTyped ==
    ASSUME cfsRun \in CfsRunRecord, NEW p \in Places, NEW e
    PROVE  /\ GoesOn(e, p) \in CfsRunRecord
           /\ GoesOn(e, p).plan = cfsRun.plan
           /\ e = "ok" => GoesOn(e, p).at = p /\ GoesOn(e, p).trouble = cfsRun.trouble
           /\ e # "ok" => GoesOn(e, p).at = "failed" /\ GoesOn(e, p).trouble = TRUE
<1>1. CASE e = "ok"
  BY <1>1 DEF GoesOn, CfsRunRecord
<1>2. CASE e # "ok"
  <2>1. GoesOn(e, p) = [cfsRun EXCEPT !.at = "failed", !.trouble = TRUE]
    BY <1>2 DEF GoesOn
  <2>. QED BY <1>2, <2>1 DEF CfsRunRecord, Places
<1>. QED BY <1>1, <1>2

LEMMA StopTyped ==
    ASSUME cfsRun \in CfsRunRecord, Stop
    PROVE  cfsRun' \in CfsRunRecord /\ cfsRun'.plan = cfsRun.plan /\ cfsRun'.at = "failed"
           /\ cfsRun'.trouble = TRUE
BY DEF Stop, CfsRunRecord, Places

LEMMA ReadTyped ==
    ASSUME CfsTyped, NEW p \in Places, ReadNext(p)
    PROVE  /\ cfsRun' \in CfsRunRecord /\ cfsRun'.plan = cfsRun.plan
           /\ cfsRun'.trouble = cfsRun.trouble /\ cfsRun'.at \in {cfsRun.at, p}
           /\ cfsLocal' \in CfsContents /\ cfsSnap' \in CfsContents /\ Nameless(cfsLocal'.desired)
           /\ \/ cfsLocal'.configs = cfs.configs
              \/ /\ cfsLocal'.configs = cfsLocal.configs
                 /\ \A c : <<"configs", c>> \in cfsTouched => <<"configs", c>> \in cfsTouched'
           /\ cfsRun.at = "load" \/ cfsTouched' = cfsTouched
<1>1. cfsRun.read \in 0..3
  BY DEF CfsTyped, CfsRunRecord
<1>2. cfsRun' \in CfsRunRecord /\ cfsRun'.plan = cfsRun.plan
      /\ cfsRun'.trouble = cfsRun.trouble /\ cfsRun'.at \in {cfsRun.at, p}
  <2>1. CASE cfsRun.read = 3
    <3>1. cfsRun' = [cfsRun EXCEPT !.read = 0, !.at = p]
      BY <2>1 DEF ReadNext
    <3>2. cfsRun \in CfsRunRecord /\ 0 \in 0..3
      BY DEF CfsTyped
    <3>3. cfsRun' = [cfsRun EXCEPT !.read = 0, !.at = p] /\ p \in Places
      BY <3>1
    <3>. QED BY ONLY <3>2, <3>3 DEF CfsRunRecord
  <2>2. CASE cfsRun.read # 3
    <3>1. cfsRun' = [cfsRun EXCEPT !.read = cfsRun.read + 1]
      BY <2>2 DEF ReadNext
    <3>2. cfsRun.read + 1 \in 0..3
      BY <1>1, <2>2
    <3>. QED BY <3>1, <3>2 DEF CfsTyped, CfsRunRecord
  <2>. QED BY <2>1, <2>2
<1>3. PICK t \in {"desired", "configs", "options", "sources"} :
        \/ /\ cfsRun.at = "load" /\ cfsSnap' = cfsSnap
           /\ cfsLocal' = [cfsLocal EXCEPT ![t] = Listed(t)]
           /\ cfsTouched' = {e \in cfsTouched : e[1] # t}
        \/ cfsSnap' = [cfsSnap EXCEPT ![t] = Listed(t)] /\ UNCHANGED <<cfsLocal, cfsTouched>>
  <2>1. CFS_RESOURCE_TYPES[cfsRun.read + 1] \in {"desired", "configs", "options", "sources"}
    BY <1>1 DEF CFS_RESOURCE_TYPES
  <2>. QED BY <2>1 DEF ReadNext
<1>4. cfsLocal' \in CfsContents /\ cfsSnap' \in CfsContents /\ Nameless(cfsLocal'.desired)
  <2>1. CASE t = "desired"
    BY <1>3, <2>1, ListedTyped DEF CfsTyped, CfsContents
  <2>2. CASE t # "desired"
    BY <1>3, <2>2, ListedTyped DEF CfsTyped, CfsContents, NoConfig, Nameless
  <2>. QED BY <2>1, <2>2
<1>5. /\ \/ cfsLocal'.configs = cfs.configs
         \/ /\ cfsLocal'.configs = cfsLocal.configs
            /\ \A c : <<"configs", c>> \in cfsTouched => <<"configs", c>> \in cfsTouched'
      /\ cfsRun.at = "load" \/ cfsTouched' = cfsTouched
  <2>1. CASE t = "configs"
    BY <1>3, <2>1 DEF CfsTyped, CfsContents, Listed
  <2>2. CASE t # "configs"
    BY <1>3, <2>2 DEF CfsTyped, CfsContents
  <2>. QED BY <2>1, <2>2
<1>. QED BY <1>2, <1>4, <1>5

-----------------------------------------------------------------------------
(* The inductive invariant.                                                *)

\* Until CFS is changed for good, and from the plan on.
Early == {"load", "check_clear", "snapshot_clear", "clear_components", "clear_configs",
          "plan_components", "plan_options", "plan_sources", "snapshot", "options_v2",
          "options_v3", "sources", "configs"}
Planned == {"plan_options", "plan_sources", "snapshot", "options_v2", "options_v3", "sources",
            "configs", "components"}

\* A configuration is there, or a user changed it since the run read CFS.
There(c) == cfs.configs[c] # NoConfig \/ <<"configs", c>> \in cfsTouched
\* The configurations that the run knows of are there.
KnownExist ==
    cfsRun.at # "failed" => \A c \in CfsConfig : cfsLocal.configs[c] # NoConfig => There(c)
\* Components are updated after everything else.
AskedLast == cfsRun.at \in Early => cfsAsked = {}
\* What a component is to be updated to is there, or will be.
PlanIsSound ==
    cfsRun.at \in Planned =>
        /\ \A c \in cfsRun.plan.configs : cfsData.configs[c] # NoConfig
        /\ \A x \in cfsRun.plan.components :
             /\ cfsData.desired[x] \in CfsConfig
             /\ There(cfsData.desired[x]) \/ cfsData.desired[x] \in cfsRun.plan.configs
        /\ cfsRun.at = "components" => cfsRun.plan.configs = {}

CfsIInv == CfsTyped /\ KnownExist /\ AskedLast /\ PlanIsSound /\ ImportedDesiredExists /\ FailsForAReason

LEMMA CfsIInvInit == CfsInit => CfsIInv
<1>. SUFFICES ASSUME CfsInit PROVE CfsIInv
  OBVIOUS
<1>1. cfsRun.at = "idle" /\ cfsAsked = {} /\ \A c \in CfsConfig : cfsLocal.configs[c] = NoConfig
  BY CfsNewRunTyped DEF CfsInit, Unread
<1>. QED BY <1>1, CfsTypedInit DEF CfsIInv, KnownExist, AskedLast, PlanIsSound, Early, Planned,
                                ImportedDesiredExists, FailsForAReason

\* The steps that change no more than the run and its copies.
LEMMA SameCfs ==
    ASSUME CfsIInv, UNCHANGED <<cfs, cfsData, cfsAsked, cfsTouched>>
    PROVE  /\ ImportedDesiredExists'
           /\ cfsRun'.at = "failed" => KnownExist' /\ AskedLast' /\ PlanIsSound'
BY DEF There, CfsIInv, ImportedDesiredExists, KnownExist, AskedLast, PlanIsSound, Early, Planned

LEMMA CfsStartKeeps ==
    ASSUME CfsIInv, NEW clear \in BOOLEAN, NEW ignore \in BOOLEAN, StartImport(clear, ignore)
    PROVE  CfsIInv'
<1>1. cfsRun' \in CfsRunRecord /\ cfsRun'.at = "load" /\ cfsRun'.trouble = FALSE
  BY CfsNewRunTyped DEF StartImport, CfsRunRecord, Places
<1>2. cfsLocal' \in CfsContents /\ Nameless(cfsLocal'.desired)
      /\ \A c \in CfsConfig : cfsLocal'.configs[c] = NoConfig
  BY UnreadTyped DEF StartImport, Unread
<1>3. cfsRuns' \in 0..MaxCfsRuns
  BY CfsAssumption DEF StartImport, CfsIInv, CfsTyped
<1>4. CfsTyped'
  BY <1>1, <1>2, <1>3 DEF StartImport, CfsIInv, CfsTyped
<1>. QED BY <1>1, <1>2, <1>4 DEF There, StartImport, CfsIInv, KnownExist, AskedLast, PlanIsSound, Planned,
                                 ImportedDesiredExists, FailsForAReason

LEMMA CfsUsersKeep == ASSUME CfsIInv, CfsUsers PROVE CfsIInv'
<1>. USE DEF CfsIInv
<1>1. ASSUME NEW c \in CfsConfig, UserPutsConfig(c)
      PROVE  CfsIInv'
  <2>1. /\ cfs' \in CfsContents /\ cfs'.desired = cfs.desired
        /\ cfs'.configs[c] # NoConfig
        /\ \A d \in CfsConfig : There(d) => There(d)'
    BY <1>1 DEF UserPutsConfig, UserChanges, There, CfsTyped, CfsContents, ConfigBody, ConfigText, NoConfig, Absent
  <2>2. CfsTyped'
    BY <1>1, <2>1, CfsAssumption DEF UserPutsConfig, UserChanges, CfsTyped
  <2>3. ImportedDesiredExists'
    BY <1>1, <2>1, CfsAssumption DEF UserPutsConfig, UserChanges, ImportedDesiredExists, There, CfsTyped, CfsContents
  <2>. QED BY <1>1, <2>1, <2>2, <2>3 DEF UserPutsConfig, UserChanges, KnownExist, AskedLast, PlanIsSound,
                                    FailsForAReason
<1>4. ASSUME NEW c \in CfsConfig, UserDeletesConfig(c)
      PROVE  CfsIInv'
  <2>1. /\ cfs' \in CfsContents /\ cfs'.desired = cfs.desired
        /\ \A d \in CfsConfig : There(d) => There(d)'
    BY <1>4 DEF UserDeletesConfig, UserChanges, There, CfsTyped, CfsContents, NoConfig
  <2>2. CfsTyped'
    BY <1>4, <2>1, CfsAssumption DEF UserDeletesConfig, UserChanges, CfsTyped
  <2>3. ImportedDesiredExists'
    BY <1>4, <2>1, CfsAssumption DEF UserDeletesConfig, UserChanges, ImportedDesiredExists, There, CfsTyped, CfsContents
  <2>. QED BY <1>4, <2>1, <2>2, <2>3 DEF UserDeletesConfig, UserChanges, KnownExist, AskedLast, PlanIsSound,
                                    FailsForAReason
<1>2. ASSUME NEW x \in CfsComponent \ {EmptyId}, NEW c \in CfsConfig, UserSetsDesired(x, c)
      PROVE  CfsIInv'
  <2>1. /\ cfs' \in CfsContents /\ cfs'.configs = cfs.configs /\ cfs.configs[c] # NoConfig
        /\ cfs'.desired = [cfs.desired EXCEPT ![x] = c]
        /\ cfs.desired \in [CfsComponent -> CfsConfig \cup {Unset, Absent}]
    BY <1>2 DEF UserSetsDesired, CfsTyped, CfsContents
  <2>2. CfsTyped'
    BY <1>2, <2>1, CfsAssumption DEF UserSetsDesired, UserChanges, CfsTyped
  <2>3. ImportedDesiredExists'
    BY <1>2, <2>1 DEF UserSetsDesired, UserChanges, ImportedDesiredExists, CfsTyped
  <2>. QED BY <1>2, <2>1, <2>2, <2>3 DEF There, UserSetsDesired, UserChanges, KnownExist, AskedLast, PlanIsSound,
                                    FailsForAReason
<1>3. CASE SessionChanges
  <2>1. CfsTyped'
    BY <1>3, CfsAssumption DEF SessionChanges, CfsTyped
  <2>. QED BY <1>3, <2>1 DEF There, SessionChanges, KnownExist, AskedLast, PlanIsSound, ImportedDesiredExists,
                             FailsForAReason
<1>. QED BY <1>1, <1>2, <1>3, <1>4 DEF CfsUsers

-----------------------------------------------------------------------------
(* Reading and clearing.                                                   *)

LEMMA CfsReadingKeeps == ASSUME CfsIInv, load_cfs_data \/ snapshot_cfs_data PROVE CfsIInv'
<1>1. PICK p \in {"check_clear", "plan_components", "clear_components", "options_v2", "done"} :
        /\ ReadNext(p)
        /\ \/ cfsRun.at = "load" /\ p \in {"check_clear", "plan_components"}
           \/ cfsRun.at = "snapshot_clear" /\ p = "clear_components"
           \/ cfsRun.at = "snapshot" /\ p = "options_v2"
           \/ cfsRun.at = "snapshot_after" /\ p = "done"
  BY DEF load_cfs_data, snapshot_cfs_data
<1>2. /\ cfsRun' \in CfsRunRecord /\ cfsRun'.plan = cfsRun.plan
      /\ cfsRun'.trouble = cfsRun.trouble /\ cfsRun'.at \in {cfsRun.at, p}
      /\ cfsLocal' \in CfsContents /\ cfsSnap' \in CfsContents /\ Nameless(cfsLocal'.desired)
      /\ \/ cfsLocal'.configs = cfs.configs
         \/ /\ cfsLocal'.configs = cfsLocal.configs
            /\ \A c : <<"configs", c>> \in cfsTouched => <<"configs", c>> \in cfsTouched'
      /\ cfsRun.at = "load" \/ cfsTouched' = cfsTouched
  BY <1>1, ReadTyped DEF CfsIInv, Places
<1>3. UNCHANGED <<cfs, cfsData, cfsVersion, cfsSession, cfsAsked, cfsEdits, cfsRuns>>
  BY <1>1 DEF ReadNext
<1>4. CASE cfsRun.at = "load"
  <2>1. KnownExist'
    BY <1>2, <1>3, <1>4 DEF CfsIInv, KnownExist, There
  <2>2. cfsAsked' = {} /\ cfsRun'.at \in {"load", "check_clear", "plan_components"}
    BY <1>1, <1>2, <1>3, <1>4 DEF CfsIInv, AskedLast, Early
  <2>. QED BY <1>2, <1>3, <2>1, <2>2 DEF CfsIInv, CfsTyped, AskedLast, PlanIsSound, Early, Planned,
                                         ImportedDesiredExists, FailsForAReason
<1>5. CASE cfsRun.at # "load"
  BY <1>1, <1>2, <1>3, <1>5, SameCfs DEF CfsIInv, CfsTyped, KnownExist, There, AskedLast, PlanIsSound, Early,
                                         Planned, FailsForAReason
<1>. QED BY <1>4, <1>5

LEMMA CheckKeeps == ASSUME CfsIInv, check_before_clear PROVE CfsIInv'
<1>1. /\ cfsRun' \in CfsRunRecord
      /\ \/ cfsRun'.at = "snapshot_clear"
         \/ cfsRun'.at = "failed" /\ cfsRun'.trouble = TRUE
  BY StopTyped DEF check_before_clear, CfsIInv, CfsTyped, CfsRunRecord, Places
<1>. QED BY <1>1, SameCfs DEF check_before_clear, CfsIInv, CfsTyped, KnownExist, There, AskedLast, PlanIsSound, Early,
                              Planned, FailsForAReason

LEMMA ClearComponentsKeeps == ASSUME CfsIInv, clear_components PROVE CfsIInv'
<1>. DEFINE left == Names(cfsLocal.desired, Absent) \ cfsRun.plan.components
<1>1. cfsRun.at = "clear_components" /\ cfsAsked = {} /\ cfsRun \in CfsRunRecord
  BY DEF clear_components, CfsIInv, AskedLast, Early, CfsTyped
<1>2. CASE left = {}
  <2>1. /\ cfsRun' \in CfsRunRecord /\ cfsRun'.at = "clear_configs"
        /\ cfs' = cfs /\ cfsLocal' = cfsLocal
    <3>1. /\ cfsRun' = [cfsRun EXCEPT !.at = "clear_configs", !.plan = NoPlan]
          /\ cfs' = cfs /\ cfsLocal' = cfsLocal
      BY <1>2 DEF clear_components
    <3>2. NoPlan \in CfsPlan /\ "clear_configs" \in Places
      BY DEF NoPlan, CfsPlan, Places
    <3>. QED BY ONLY <1>1, <3>1, <3>2 DEF CfsRunRecord
  <2>. QED BY <1>1, <2>1, SameCfs DEF clear_components, CfsIInv, CfsTyped, KnownExist, There, AskedLast, PlanIsSound,
                                 Planned, FailsForAReason
<1>3. CASE left # {}
  <2>. DEFINE Cleared(table, piece) ==
                [x \in CfsComponent |->
                    IF x \in piece /\ cfs.desired[x] # Absent THEN Unset ELSE table[x]]
  <2>1. PICK piece \in chunk_list(left), e \in Put :
          /\ cfs' = IF e = "failed" THEN cfs
                    ELSE [cfs EXCEPT !.desired = Cleared(cfs.desired, piece)]
          /\ cfsLocal' = IF e = "ok" THEN [cfsLocal EXCEPT !.desired = Cleared(cfsLocal.desired, piece)]
                         ELSE cfsLocal
          /\ cfsRun' = [GoesOn(e, "clear_components") EXCEPT !.plan.components = @ \cup piece]
    BY <1>3 DEF clear_components
  <2>2. piece \subseteq CfsComponent \ {EmptyId}
    <3>1. left \subseteq CfsComponent \ {EmptyId}
      BY DEF CfsIInv, CfsTyped, CfsContents, Names, Nameless
    <3>. QED BY <3>1 DEF chunk_list
  <2>3. /\ cfs' \in CfsContents /\ cfs'.configs = cfs.configs
        /\ cfsLocal' \in CfsContents /\ cfsLocal'.configs = cfsLocal.configs
        /\ Nameless(cfsLocal'.desired)
    <3>1. cfs' \in CfsContents /\ cfs'.configs = cfs.configs
      BY <2>1 DEF CfsIInv, CfsTyped, CfsContents
    <3>2. cfsLocal' \in CfsContents /\ cfsLocal'.configs = cfsLocal.configs
      BY <2>1 DEF CfsIInv, CfsTyped, CfsContents
    <3>3. Nameless(cfsLocal'.desired)
      BY <2>1, <2>2 DEF CfsIInv, CfsTyped, CfsContents, Nameless
    <3>. QED BY <3>1, <3>2, <3>3
  <2>4. /\ cfsRun' \in CfsRunRecord
        /\ \/ cfsRun'.at = "clear_components"
           \/ cfsRun'.at = "failed" /\ cfsRun'.trouble = TRUE
    <3>1. /\ GoesOn(e, "clear_components") \in CfsRunRecord
          /\ GoesOn(e, "clear_components").plan = cfsRun.plan
          /\ \/ GoesOn(e, "clear_components").at = "clear_components"
             \/ /\ GoesOn(e, "clear_components").at = "failed"
                /\ GoesOn(e, "clear_components").trouble = TRUE
      <4>1. "clear_components" \in Places
        BY DEF Places
      <4>. QED BY ONLY <1>1, <4>1, GoesOnTyped
    <3>2. cfsRun.plan.components \cup piece \in SUBSET (CfsComponent \ {EmptyId})
      BY <1>1, <2>2 DEF CfsRunRecord, CfsPlan
    <3>3. cfsRun' = [GoesOn(e, "clear_components") EXCEPT
                        !.plan.components = cfsRun.plan.components \cup piece]
      BY <2>1, <3>1
    <3>. QED BY ONLY <3>1, <3>2, <3>3 DEF CfsRunRecord, CfsPlan
  <2>5. UNCHANGED <<cfsData, cfsVersion, cfsSession, cfsSnap, cfsAsked, cfsTouched, cfsEdits, cfsRuns>>
    BY DEF clear_components
  <2>. QED BY <1>1, <2>3, <2>4, <2>5 DEF CfsIInv, CfsTyped, KnownExist, There, AskedLast, PlanIsSound, Planned,
                                         ImportedDesiredExists, FailsForAReason
<1>. QED BY <1>2, <1>3

LEMMA ClearConfigsKeeps == ASSUME CfsIInv, clear_configs PROVE CfsIInv'
<1>1. cfsRun.at = "clear_configs" /\ cfsAsked = {} /\ cfsRun \in CfsRunRecord
      /\ UNCHANGED <<cfsData, cfsVersion, cfsSession, cfsSnap, cfsAsked, cfsTouched, cfsEdits, cfsRuns>>
  BY DEF clear_configs, CfsIInv, AskedLast, Early, CfsTyped
<1>2. /\ cfs' \in CfsContents /\ cfsLocal' \in CfsContents /\ Nameless(cfsLocal'.desired)
      /\ cfsRun' \in CfsRunRecord
      /\ \/ cfsRun'.at = "plan_components" /\ cfs' = cfs /\ cfsLocal' = cfsLocal
         \/ cfsRun'.at = "failed" /\ cfsRun'.trouble = TRUE
         \/ /\ cfsRun'.at = "clear_configs"
            /\ \E c \in CfsConfig : /\ cfs'.configs = [cfs.configs EXCEPT ![c] = NoConfig]
                                    /\ cfsLocal'.configs = [cfsLocal.configs EXCEPT ![c] = NoConfig]
  <2>1. CASE Names(cfsLocal.configs, NoConfig) = {}
    BY <1>1, <2>1 DEF clear_configs, CfsIInv, CfsTyped, CfsRunRecord, Places
  <2>2. CASE Names(cfsLocal.configs, NoConfig) # {}
    <3>1. CASE Stop /\ UNCHANGED <<cfs, cfsLocal>>
      BY <1>1, <3>1, StopTyped DEF CfsIInv, CfsTyped
    <3>2. CASE ~(Stop /\ UNCHANGED <<cfs, cfsLocal>>)
      <4>1. PICK c \in Names(cfsLocal.configs, NoConfig), e \in Delete :
              /\ cfs' = IF e = "failed" THEN cfs ELSE [cfs EXCEPT !.configs[c] = NoConfig]
              /\ cfsLocal' = IF e = "ok" THEN [cfsLocal EXCEPT !.configs[c] = NoConfig] ELSE cfsLocal
              /\ cfsRun' = GoesOn(e, "clear_configs")
        BY <2>2, <3>2 DEF clear_configs
      <4>2. c \in CfsConfig
        BY DEF Names, CfsIInv, CfsTyped, CfsContents
      <4>3. /\ cfs' \in CfsContents
            /\ e # "failed" => cfs'.configs = [cfs.configs EXCEPT ![c] = NoConfig]
        BY <4>1, <4>2 DEF CfsIInv, CfsTyped, CfsContents, NoConfig
      <4>4. /\ cfsLocal' \in CfsContents /\ cfsLocal'.desired = cfsLocal.desired
            /\ e = "ok" => cfsLocal'.configs = [cfsLocal.configs EXCEPT ![c] = NoConfig]
        BY <4>1, <4>2 DEF CfsIInv, CfsTyped, CfsContents, NoConfig
      <4>5. /\ cfsRun' \in CfsRunRecord
            /\ \/ e = "ok" /\ cfsRun'.at = "clear_configs"
               \/ cfsRun'.at = "failed" /\ cfsRun'.trouble = TRUE
        <5>1. "clear_configs" \in Places
          BY DEF Places
        <5>. QED BY ONLY <1>1, <4>1, <5>1, GoesOnTyped
      <4>. QED BY <4>2, <4>3, <4>4, <4>5 DEF CfsIInv, CfsTyped
    <3>. QED BY <3>1, <3>2
  <2>. QED BY <2>1, <2>2
<1>3. CfsTyped'
  BY <1>1, <1>2 DEF CfsIInv, CfsTyped
<1>4. KnownExist'
  BY <1>1, <1>2 DEF CfsIInv, KnownExist, There, CfsTyped, CfsContents
<1>. QED BY <1>1, <1>2, <1>3, <1>4 DEF CfsIInv, AskedLast, PlanIsSound, Planned, ImportedDesiredExists,
                                       FailsForAReason

-----------------------------------------------------------------------------
(* Planning.                                                               *)

LEMMA PlanComponentsKeeps == ASSUME CfsIInv, plan_components PROVE CfsIInv'
<1>. DEFINE configs == get_resources_to_create(cfsData.configs, cfsLocal.configs, NoConfig)
            comps == get_comps_to_update(configs)
<1>1. /\ cfsRun.at = "plan_components" /\ cfsRun \in CfsRunRecord
      /\ UNCHANGED <<cfs, cfsData, cfsVersion, cfsSession, cfsLocal, cfsSnap, cfsAsked, cfsTouched, cfsEdits, cfsRuns>>
  BY DEF plan_components, CfsIInv, CfsTyped
<1>2. /\ configs \subseteq CfsConfig
      /\ \A c \in configs : cfsData.configs[c] # NoConfig
  BY DEF get_resources_to_create, Names, CfsIInv, CfsTyped, CfsContents
<1>3. /\ comps \subseteq CfsComponent \ {EmptyId}
      /\ \A x \in comps : /\ cfsData.desired[x] \in CfsConfig
                          /\ There(cfsData.desired[x]) \/ cfsData.desired[x] \in configs
  <2>. HIDE DEF configs
  <2>1. \A x \in comps : /\ x \in CfsComponent /\ cfsData.desired[x] \notin {Absent, Unset}
                         /\ cfsData.desired[x] \in Names(cfsLocal.configs, NoConfig) \cup configs
    BY DEF get_comps_to_update
  <2>2. \A x \in comps : cfsData.desired[x] \in CfsConfig
    BY <2>1 DEF CfsIInv, CfsTyped, CfsContents
  <2>3. EmptyId \notin comps
    BY <2>1 DEF CfsIInv, CfsTyped, Nameless
  <2>4. \A c \in Names(cfsLocal.configs, NoConfig) : There(c)
    BY <1>1 DEF Names, CfsIInv, KnownExist, CfsTyped, CfsContents
  <2>. QED BY <2>1, <2>2, <2>3, <2>4
<1>. HIDE DEF configs, comps
<1>4. /\ cfsRun' \in CfsRunRecord
      /\ \/ cfsRun'.at = "failed" /\ cfsRun'.trouble = TRUE
         \/ cfsRun'.at = "plan_options" /\ cfsRun'.plan.configs = configs /\ cfsRun'.plan.components = comps
  <2>1. \/ Stop
        \/ cfsRun' = [cfsRun EXCEPT !.at = "plan_options", !.plan.configs = configs, !.plan.components = comps]
    BY DEF plan_components, configs, comps
  <2>2. CASE Stop
    BY <1>1, <2>2, StopTyped
  <2>3. CASE cfsRun' = [cfsRun EXCEPT !.at = "plan_options", !.plan.configs = configs, !.plan.components = comps]
    <3>1. "plan_options" \in Places
      BY DEF Places
    <3>. QED BY ONLY <1>1, <1>2, <1>3, <2>3, <3>1 DEF CfsRunRecord, CfsPlan
  <2>. QED BY <2>1, <2>2, <2>3
<1>. QED BY <1>1, <1>2, <1>3, <1>4, SameCfs DEF CfsIInv, CfsTyped, KnownExist, There, AskedLast, PlanIsSound, Early,
                                                Planned, FailsForAReason

LEMMA PlanOthersKeeps == ASSUME CfsIInv, plan_options \/ plan_sources PROVE CfsIInv'
<1>1. /\ cfsRun.at \in {"plan_options", "plan_sources"} /\ cfsRun \in CfsRunRecord
      /\ UNCHANGED <<cfs, cfsData, cfsVersion, cfsSession, cfsLocal, cfsSnap, cfsAsked, cfsTouched, cfsEdits, cfsRuns>>
  BY DEF plan_options, plan_sources, CfsIInv, CfsTyped
<1>2. /\ cfsRun' \in CfsRunRecord
      /\ \/ cfsRun'.at = "failed" /\ cfsRun'.trouble = TRUE
         \/ /\ cfsRun'.at \in {"plan_sources", "done", "options_v2", "snapshot"}
            /\ cfsRun'.plan.configs = cfsRun.plan.configs
            /\ cfsRun'.plan.components = cfsRun.plan.components
  <2>1. CASE plan_options
    <3>1. \/ Stop
          \/ cfsRun' = [cfsRun EXCEPT !.at = "plan_sources", !.plan.options = get_options_to_change]
      BY <2>1 DEF plan_options
    <3>2. CASE Stop
      BY <1>1, <3>2, StopTyped
    <3>3. CASE cfsRun' = [cfsRun EXCEPT !.at = "plan_sources", !.plan.options = get_options_to_change]
      <4>1. get_options_to_change \in SUBSET CfsOption /\ "plan_sources" \in Places
        BY DEF get_options_to_change, Places
      <4>. QED BY ONLY <1>1, <3>3, <4>1 DEF CfsRunRecord, CfsPlan
    <3>. QED BY <3>1, <3>2, <3>3
  <2>2. CASE plan_sources
    <3>1. PICK sources \in SUBSET CfsSource, p \in {"done", "options_v2", "snapshot"} :
            cfsRun' = [cfsRun EXCEPT !.plan = [cfsRun.plan EXCEPT !.sources = sources], !.at = p]
      <4>. DEFINE sources == IF restore_source_supported(cfsVersion)
                             THEN get_resources_to_create(cfsData.sources, cfsLocal.sources, Absent)
                             ELSE {}
      <4>1. sources \in SUBSET CfsSource
        BY DEF get_resources_to_create, Names, CfsIInv, CfsTyped, CfsContents
      <4>. HIDE DEF sources
      <4>2. cfsRun' = [cfsRun EXCEPT !.plan = [cfsRun.plan EXCEPT !.sources = sources],
                         !.at = IF [cfsRun.plan EXCEPT !.sources = sources] = NoPlan THEN "done"
                                ELSE IF cfsRun.clear THEN "options_v2" ELSE "snapshot"]
        BY <2>2 DEF plan_sources, sources
      <4>. DEFINE p == IF [cfsRun.plan EXCEPT !.sources = sources] = NoPlan THEN "done"
                       ELSE IF cfsRun.clear THEN "options_v2" ELSE "snapshot"
      <4>3. p \in {"done", "options_v2", "snapshot"}
        OBVIOUS
      <4>4. cfsRun' = [cfsRun EXCEPT !.plan = [cfsRun.plan EXCEPT !.sources = sources], !.at = p]
        BY <4>2
      <4>. HIDE DEF p
      <4>. QED BY <4>1, <4>3, <4>4
    <3>2. p \in Places
      BY DEF Places
    <3>3. p \in {"done", "options_v2", "snapshot"} /\ sources \in SUBSET CfsSource
      OBVIOUS
    <3>. QED BY ONLY <1>1, <3>1, <3>2, <3>3 DEF CfsRunRecord, CfsPlan
  <2>. QED BY <2>1, <2>2
<1>. QED BY <1>1, <1>2, SameCfs DEF CfsIInv, CfsTyped, KnownExist, There, AskedLast, PlanIsSound, Early,
                                    Planned, FailsForAReason

-----------------------------------------------------------------------------
(* Changing CFS.                                                           *)

\* A step that leaves the configurations and the desired configurations alone.
LEMMA OthersChanged ==
    ASSUME CfsIInv, cfs' \in CfsContents, cfs'.configs = cfs.configs, cfs'.desired = cfs.desired,
           UNCHANGED <<cfsData, cfsVersion, cfsSession, cfsLocal, cfsSnap, cfsAsked, cfsTouched, cfsEdits, cfsRuns>>,
           cfsRun' \in CfsRunRecord,
           cfsRun.at \in Early \cap Planned,
           \/ cfsRun'.at = "failed" /\ cfsRun'.trouble = TRUE
           \/ /\ cfsRun'.at \in Early \cap Planned
              /\ cfsRun'.plan.configs = cfsRun.plan.configs
              /\ cfsRun'.plan.components = cfsRun.plan.components
    PROVE  CfsIInv'
BY DEF CfsIInv, CfsTyped, KnownExist, There, AskedLast, PlanIsSound, Early, Planned, ImportedDesiredExists,
       FailsForAReason

LEMMA OptionsKeep == ASSUME CfsIInv, change_options PROVE CfsIInv'
<1>1. PICK opts \in SUBSET CfsOption, p \in {"options_v3", "sources"} :
        PatchOptions(opts, p) /\ cfsRun.at \in {"options_v2", "options_v3"}
  BY DEF change_options, CfsIInv, CfsTyped, CfsRunRecord, CfsPlan
<1>2. p \in Places /\ cfsRun \in CfsRunRecord
  BY DEF Places, CfsIInv, CfsTyped
<1>3. PICK e : cfsRun' = GoesOn(e, p)
  BY <1>1 DEF PatchOptions
<1>4. cfs' \in CfsContents /\ cfs'.configs = cfs.configs /\ cfs'.desired = cfs.desired
  <2>1. CASE cfs' = cfs
    BY <2>1 DEF CfsIInv, CfsTyped
  <2>2. CASE cfs' = [cfs EXCEPT !.options = [o \in CfsOption |->
                        IF o \in opts THEN cfsData.options[o] ELSE cfs.options[o]]]
    BY <2>2 DEF CfsIInv, CfsTyped, CfsContents
  <2>. QED BY <1>1, <2>1, <2>2 DEF PatchOptions
<1>5. /\ cfsRun' \in CfsRunRecord
      /\ \/ cfsRun'.at = "failed" /\ cfsRun'.trouble = TRUE
         \/ cfsRun'.at = p
      /\ cfsRun'.plan = cfsRun.plan
  BY ONLY <1>2, <1>3, GoesOnTyped
<1>. QED BY <1>1, <1>4, <1>5, OthersChanged DEF change_options, Early, Planned

LEMMA SourcesKeep == ASSUME CfsIInv, restore_sources PROVE CfsIInv'
<1>1. cfsRun.at = "sources" /\ cfsRun \in CfsRunRecord
      /\ UNCHANGED <<cfsData, cfsVersion, cfsSession, cfsLocal, cfsSnap, cfsAsked, cfsTouched, cfsEdits, cfsRuns>>
  BY DEF restore_sources, CfsIInv, CfsTyped
<1>2. CASE cfsRun.plan.sources = {}
  <2>1. cfsRun' = [cfsRun EXCEPT !.at = "configs"] /\ cfs' = cfs /\ "configs" \in Places
    BY <1>2 DEF restore_sources, Places
  <2>2. cfsRun' \in CfsRunRecord /\ cfsRun'.at = "configs" /\ cfsRun'.plan = cfsRun.plan
    BY ONLY <1>1, <2>1 DEF CfsRunRecord
  <2>. QED BY <1>1, <2>1, <2>2, OthersChanged DEF CfsIInv, CfsTyped, Early, Planned
<1>3. CASE cfsRun.plan.sources # {}
  <2>1. PICK s \in cfsRun.plan.sources, e \in Delete :
          /\ cfs' = IF e = "failed" THEN cfs
                    ELSE [cfs EXCEPT !.sources[s] = cfsData.sources[s]]
          /\ cfsRun' = [GoesOn(e, "sources") EXCEPT !.plan.sources = @ \ {s}]
    BY <1>3 DEF restore_sources
  <2>2. s \in CfsSource /\ cfsRun.plan.sources \ {s} \in SUBSET CfsSource
    BY <1>1 DEF CfsRunRecord, CfsPlan
  <2>3. cfs' \in CfsContents /\ cfs'.configs = cfs.configs /\ cfs'.desired = cfs.desired
    <3>1. CASE cfs' = cfs
      BY <3>1 DEF CfsIInv, CfsTyped
    <3>2. CASE cfs' = [cfs EXCEPT !.sources[s] = cfsData.sources[s]]
      BY <2>2, <3>2 DEF CfsIInv, CfsTyped, CfsContents
    <3>. QED BY <2>1, <3>1, <3>2
  <2>4. /\ GoesOn(e, "sources") \in CfsRunRecord /\ GoesOn(e, "sources").plan = cfsRun.plan
        /\ \/ GoesOn(e, "sources").at = "sources"
           \/ GoesOn(e, "sources").at = "failed" /\ GoesOn(e, "sources").trouble = TRUE
    <3>1. "sources" \in Places
      BY DEF Places
    <3>. QED BY ONLY <1>1, <3>1, GoesOnTyped
  <2>5. /\ cfsRun' \in CfsRunRecord /\ cfsRun'.plan.configs = cfsRun.plan.configs
        /\ cfsRun'.plan.components = cfsRun.plan.components
        /\ \/ cfsRun'.at = "sources"
           \/ cfsRun'.at = "failed" /\ cfsRun'.trouble = TRUE
    <3>1. cfsRun' = [GoesOn(e, "sources") EXCEPT !.plan.sources = cfsRun.plan.sources \ {s}]
      BY ONLY <2>1, <2>4
    <3>. QED BY ONLY <2>2, <2>4, <3>1 DEF CfsRunRecord, CfsPlan
  <2>. QED BY <1>1, <2>3, <2>5, OthersChanged DEF Early, Planned
<1>. QED BY <1>2, <1>3

LEMMA ScrubbedIsAccepted ==
    ASSUME NEW body \in ConfigBody
    PROVE  /\ Accepted(scrub_layer(body))
           /\ Stored(scrub_layer(body)) \in ConfigBody
           /\ Stored(scrub_layer(body)) # NoConfig
BY DEF Accepted, scrub_layer, Stored, ConfigBody, ConfigText, Fields, NoConfig, Absent

LEMMA ConfigsKeep == ASSUME CfsIInv, create_configs PROVE CfsIInv'
<1>1. /\ cfsRun.at = "configs" /\ cfsRun \in CfsRunRecord
      /\ UNCHANGED <<cfsData, cfsVersion, cfsSession, cfsLocal, cfsSnap, cfsAsked, cfsTouched, cfsEdits, cfsRuns>>
  BY DEF create_configs, CfsIInv, CfsTyped
<1>2. CASE cfsRun.plan.configs = {}
  <2>1. cfsRun' = [cfsRun EXCEPT !.at = "components"] /\ cfs' = cfs /\ "components" \in Places
    BY <1>2 DEF create_configs, Places
  <2>2. cfsRun' \in CfsRunRecord /\ cfsRun'.at = "components" /\ cfsRun'.plan = cfsRun.plan
        /\ cfsRun'.trouble = cfsRun.trouble
    BY ONLY <1>1, <2>1 DEF CfsRunRecord
  <2>. QED BY <1>1, <1>2, <2>1, <2>2 DEF CfsIInv, CfsTyped, KnownExist, There, AskedLast, PlanIsSound, Early, Planned,
                                         ImportedDesiredExists, FailsForAReason
<1>3. CASE cfsRun.plan.configs # {}
  <2>1. PICK c \in cfsRun.plan.configs, e \in Put :
          LET body == scrub_layer(cfsData.configs[c])
          IN  IF Accepted(body)
              THEN /\ cfs' = IF e = "failed" THEN cfs
                             ELSE [cfs EXCEPT !.configs[c] = Stored(body)]
                   /\ cfsRun' = [GoesOn(e, "configs") EXCEPT !.plan.configs = @ \ {c}]
              ELSE cfsRun' = [cfsRun EXCEPT !.at = "failed"] /\ UNCHANGED cfs
    BY <1>3 DEF create_configs
  <2>2. c \in CfsConfig /\ cfsRun.plan.configs \ {c} \in SUBSET CfsConfig
    BY <1>1 DEF CfsRunRecord, CfsPlan
  <2>3. cfsData.configs[c] \in ConfigBody
    BY <1>1, <2>2 DEF CfsIInv, CfsTyped, CfsContents, PlanIsSound, Planned, NoConfig
  <2>. DEFINE stored == Stored(scrub_layer(cfsData.configs[c]))
  <2>4. /\ stored \in ConfigBody /\ stored # NoConfig
        /\ \/ cfs' = cfs /\ e = "failed"
           \/ cfs' = [cfs EXCEPT !.configs[c] = stored]
        /\ cfsRun' = [GoesOn(e, "configs") EXCEPT !.plan.configs = @ \ {c}]
    BY <2>1, <2>3, ScrubbedIsAccepted
  <2>. HIDE DEF stored
  <2>5. /\ cfs' \in CfsContents /\ cfs'.desired = cfs.desired
        /\ \A d \in CfsConfig : There(d) => There(d)'
        /\ e # "failed" => There(c)'
    <3>1. CASE cfs' = cfs /\ e = "failed"
      BY <1>1, <3>1 DEF There, CfsIInv, CfsTyped
    <3>2. CASE cfs' = [cfs EXCEPT !.configs[c] = stored]
      BY <1>1, <2>2, <2>4, <3>2 DEF There, CfsIInv, CfsTyped, CfsContents
    <3>. QED BY <2>4, <3>1, <3>2
  <2>6. /\ GoesOn(e, "configs") \in CfsRunRecord /\ GoesOn(e, "configs").plan = cfsRun.plan
        /\ \/ GoesOn(e, "configs").at = "configs" /\ e # "failed"
           \/ GoesOn(e, "configs").at = "failed" /\ GoesOn(e, "configs").trouble = TRUE
    <3>1. "configs" \in Places
      BY DEF Places
    <3>. QED BY ONLY <1>1, <3>1, GoesOnTyped
  <2>7. /\ cfsRun' \in CfsRunRecord /\ cfsRun'.plan.configs = cfsRun.plan.configs \ {c}
        /\ cfsRun'.plan.components = cfsRun.plan.components
        /\ \/ cfsRun'.at = "configs" /\ e # "failed"
           \/ cfsRun'.at = "failed" /\ cfsRun'.trouble = TRUE
    <3>1. cfsRun' = [GoesOn(e, "configs") EXCEPT !.plan.configs = cfsRun.plan.configs \ {c}]
      BY ONLY <2>4, <2>6
    <3>. QED BY ONLY <2>2, <2>6, <3>1 DEF CfsRunRecord, CfsPlan
  <2>8. CfsTyped'
    BY <1>1, <2>5, <2>7 DEF CfsIInv, CfsTyped
  <2>9. ImportedDesiredExists'
    BY <1>1, <2>5, CfsAssumption DEF CfsIInv, ImportedDesiredExists, There, CfsTyped, CfsContents
  <2>. QED BY <1>1, <2>5, <2>7, <2>8, <2>9 DEF CfsIInv, KnownExist, AskedLast, PlanIsSound, Early, Planned,
                                              FailsForAReason
<1>. QED BY <1>2, <1>3

LEMMA ComponentsKeep == ASSUME CfsIInv, update_components PROVE CfsIInv'
<1>1. /\ cfsRun.at = "components" /\ cfsRun \in CfsRunRecord
      /\ UNCHANGED <<cfsData, cfsVersion, cfsSession, cfsLocal, cfsSnap, cfsTouched, cfsEdits, cfsRuns>>
  BY DEF update_components, CfsIInv, CfsTyped
<1>2. CASE cfsRun.plan.components = {}
  <2>1. cfsRun' = [cfsRun EXCEPT !.at = "snapshot_after"] /\ cfs' = cfs /\ cfsAsked' = cfsAsked
        /\ "snapshot_after" \in Places
    BY <1>2 DEF update_components, Places
  <2>2. cfsRun' \in CfsRunRecord /\ cfsRun'.at = "snapshot_after"
    BY ONLY <1>1, <2>1 DEF CfsRunRecord
  <2>. QED BY <1>1, <2>1, <2>2 DEF CfsIInv, CfsTyped, KnownExist, There, AskedLast, PlanIsSound, Early, Planned,
                                   ImportedDesiredExists, FailsForAReason
<1>3. CASE cfsRun.plan.components # {}
  <2>1. PICK c \in CfsConfig, e \in Put :
          LET same == {x \in cfsRun.plan.components : cfsData.desired[x] = c}
          IN  /\ same # {}
              /\ \E piece \in chunk_list(same) :
                 /\ cfs' = IF e = "failed" THEN cfs
                           ELSE [cfs EXCEPT !.desired = [x \in CfsComponent |->
                                   IF x \in piece /\ @[x] # Absent THEN c ELSE @[x]]]
                 /\ cfsAsked' = IF e = "failed" THEN cfsAsked ELSE cfsAsked \cup piece
                 /\ cfsRun' = [GoesOn(e, "components") EXCEPT !.plan.components = @ \ piece]
    BY <1>3 DEF update_components
  <2>2. PICK piece \in SUBSET {x \in cfsRun.plan.components : cfsData.desired[x] = c} :
          /\ \/ e = "failed" /\ cfs' = cfs /\ cfsAsked' = cfsAsked
             \/ /\ cfs' = [cfs EXCEPT !.desired = [x \in CfsComponent |->
                             IF x \in piece /\ cfs.desired[x] # Absent THEN c ELSE cfs.desired[x]]]
                /\ cfsAsked' = cfsAsked \cup piece
          /\ cfsRun' = [GoesOn(e, "components") EXCEPT !.plan.components = @ \ piece]
    BY <2>1 DEF chunk_list
  <2>3. There(c)
    BY <1>1, <2>1 DEF CfsIInv, PlanIsSound, Planned
  <2>4. /\ piece \subseteq CfsComponent
        /\ cfsRun.plan.components \ piece \in SUBSET (CfsComponent \ {EmptyId})
    BY <1>1 DEF CfsRunRecord, CfsPlan
  <2>5. /\ cfs' \in CfsContents /\ cfs'.configs = cfs.configs /\ cfsAsked' \subseteq CfsComponent
        /\ \A x \in cfsAsked' : \/ x \in cfsAsked /\ cfs'.desired[x] = cfs.desired[x]
                                \/ cfs'.desired[x] \in {c, Absent}
    <3>1. CASE e = "failed" /\ cfs' = cfs /\ cfsAsked' = cfsAsked
      BY <3>1 DEF CfsIInv, CfsTyped
    <3>2. CASE /\ cfs' = [cfs EXCEPT !.desired = [x \in CfsComponent |->
                             IF x \in piece /\ cfs.desired[x] # Absent THEN c ELSE cfs.desired[x]]]
               /\ cfsAsked' = cfsAsked \cup piece
      <4>1. /\ cfs' \in CfsContents /\ cfs'.configs = cfs.configs
            /\ \A x \in CfsComponent : cfs'.desired[x] = IF x \in piece /\ cfs.desired[x] # Absent THEN c
                                                         ELSE cfs.desired[x]
        BY <3>2 DEF CfsIInv, CfsTyped, CfsContents
      <4>. QED BY <2>4, <3>2, <4>1 DEF CfsIInv, CfsTyped
    <3>. QED BY <2>2, <3>1, <3>2
  <2>6. /\ GoesOn(e, "components") \in CfsRunRecord /\ GoesOn(e, "components").plan = cfsRun.plan
        /\ \/ GoesOn(e, "components").at = "components"
           \/ GoesOn(e, "components").at = "failed" /\ GoesOn(e, "components").trouble = TRUE
    <3>1. "components" \in Places
      BY DEF Places
    <3>. QED BY ONLY <1>1, <3>1, GoesOnTyped
  <2>7. /\ cfsRun' \in CfsRunRecord /\ cfsRun'.plan.configs = cfsRun.plan.configs
        /\ cfsRun'.plan.components \subseteq cfsRun.plan.components
        /\ \/ cfsRun'.at = "components"
           \/ cfsRun'.at = "failed" /\ cfsRun'.trouble = TRUE
    <3>1. cfsRun' = [GoesOn(e, "components") EXCEPT !.plan.components = cfsRun.plan.components \ piece]
      BY ONLY <2>2, <2>6
    <3>. QED BY ONLY <2>4, <2>6, <3>1 DEF CfsRunRecord, CfsPlan
  <2>8. CfsTyped'
    BY <1>1, <2>5, <2>7 DEF CfsIInv, CfsTyped
  <2>9. ImportedDesiredExists'
    BY <1>1, <2>3, <2>5 DEF CfsIInv, ImportedDesiredExists, There
  <2>. QED BY <1>1, <2>5, <2>7, <2>8, <2>9 DEF CfsIInv, KnownExist, There, AskedLast, PlanIsSound, Early, Planned,
                                              FailsForAReason
<1>. QED BY <1>2, <1>3

LEMMA CfsIInvNext == CfsIInv /\ [CfsNext]_cfsVars => CfsIInv'
<1>. SUFFICES ASSUME CfsIInv, [CfsNext]_cfsVars PROVE CfsIInv'
  OBVIOUS
<1>1. CASE UNCHANGED cfsVars
  BY <1>1 DEF cfsVars, CfsIInv, CfsTyped, KnownExist, There, AskedLast, PlanIsSound, ImportedDesiredExists, FailsForAReason
<1>2. CASE CfsScript
  BY <1>2, CfsReadingKeeps, CheckKeeps, ClearComponentsKeeps, ClearConfigsKeeps, PlanComponentsKeeps,
     PlanOthersKeeps, OptionsKeep, SourcesKeep, ConfigsKeep, ComponentsKeep DEF CfsScript
<1>. QED BY <1>1, <1>2, CfsStartKeeps, CfsUsersKeep DEF CfsNext

\* The records of CFS, of its exports and of a run are well-formed, and the import
\* plans to update no component without an id.
THEOREM CfsTypeCorrect == CfsSpec => []CfsTypeOK
<1>1. CfsIInv => CfsTypeOK
  BY DEF CfsIInv, CfsTyped, CfsRunRecord, CfsPlan, CfsTypeOK
<1>. QED BY <1>1, CfsIInvInit, CfsIInvNext, PTL DEF CfsSpec

\* At no moment, however a run ends and whatever users do, does a component want a
\* configuration that an import assigned to it and that CFS does not have, unless a
\* user changed (deleted) that configuration after the run had read CFS.
THEOREM AssignedConfigsExist == CfsSpec => []ImportedDesiredExists
<1>1. CfsIInv => ImportedDesiredExists
  BY DEF CfsIInv
<1>. QED BY <1>1, CfsIInvInit, CfsIInvNext, PTL DEF CfsSpec

\* CFS refuses no configuration that the import sends: a run fails only for a
\* request that failed, a running session, a configuration that a user put to use
\* or deleted before the run did, or an option that CFS does not know.
THEOREM NothingIsRefused == CfsSpec => []FailsForAReason
<1>1. CfsIInv => FailsForAReason
  BY DEF CfsIInv
<1>. QED BY <1>1, CfsIInvInit, CfsIInvNext, PTL DEF CfsSpec

-----------------------------------------------------------------------------
(* What the steps of a script do.                                          *)

\* A step that reads nothing.
Same == /\ cfsRun'.read = cfsRun.read /\ cfsRun'.clear = cfsRun.clear
        /\ UNCHANGED <<cfsData, cfsVersion, cfsSnap, cfsLate, cfsTouched>>
SameBut(field) ==
    \A f \in {"desired", "configs", "options", "sources"} \ {field} :
        cfs'[f] = cfs[f] /\ cfsLocal'[f] = cfsLocal[f]

LEMMA GoesOnFields ==
    ASSUME cfsRun \in CfsRunRecord, NEW p \in Places, NEW e
    PROVE  LET next == GoesOn(e, p)
           IN  /\ next \in CfsRunRecord
               /\ next.at = IF e = "ok" THEN p ELSE "failed"
               /\ next.read = cfsRun.read /\ next.clear = cfsRun.clear /\ next.plan = cfsRun.plan
<1>1. CASE e = "ok"
  BY <1>1 DEF GoesOn, CfsRunRecord
<1>2. CASE e # "ok"
  <2>1. GoesOn(e, p) = [cfsRun EXCEPT !.at = "failed", !.trouble = TRUE]
    BY <1>2 DEF GoesOn
  <2>. QED BY <1>2, <2>1 DEF CfsRunRecord, Places
<1>. QED BY <1>1, <1>2

\* A change of one part of the plan.
LEMMA PlanFields ==
    ASSUME NEW r \in CfsRunRecord, NEW v
    PROVE  /\ LET n == [r EXCEPT !.plan.components = v]
              IN  n.at = r.at /\ n.read = r.read /\ n.clear = r.clear
                  /\ n.plan = [r.plan EXCEPT !.components = v]
           /\ LET n == [r EXCEPT !.plan.configs = v]
              IN  n.at = r.at /\ n.read = r.read /\ n.clear = r.clear
                  /\ n.plan = [r.plan EXCEPT !.configs = v]
           /\ LET n == [r EXCEPT !.plan.sources = v]
              IN  n.at = r.at /\ n.read = r.read /\ n.clear = r.clear
                  /\ n.plan = [r.plan EXCEPT !.sources = v]
BY DEF CfsRunRecord, CfsPlan

LEMMA CfsCheckStep ==
    ASSUME CfsTyped, check_before_clear
    PROVE  /\ Same /\ UNCHANGED <<cfs, cfsLocal>>
           /\ cfsRun.at = "check_clear" /\ cfsRun'.at \in {"snapshot_clear", "failed"}
BY DEF check_before_clear, Stop, Same, CfsTyped, CfsRunRecord

LEMMA ClearComponentsStep ==
    ASSUME CfsTyped, clear_components
    PROVE  /\ Same /\ SameBut("desired") /\ cfsRun.at = "clear_components"
           /\ cfsRun'.at \in {"clear_components", "clear_configs", "failed"}
           /\ \A x \in CfsComponent : \/ cfs'.desired[x] = cfs.desired[x]
                                      \/ x # EmptyId /\ cfs'.desired[x] = Unset
           /\ cfsRun'.at # "failed" =>
                \A x \in CfsComponent :
                   \/ cfs'.desired[x] = cfs.desired[x] /\ cfsLocal'.desired[x] = cfsLocal.desired[x]
                   \/ cfsLocal'.desired[x] = Unset
<1>. DEFINE left == Names(cfsLocal.desired, Absent) \ cfsRun.plan.components
<1>1. cfsRun.at = "clear_components" /\ cfsRun \in CfsRunRecord
  BY DEF clear_components, CfsTyped
<1>2. CASE left = {}
  <2>1. cfsRun' = [cfsRun EXCEPT !.at = "clear_configs", !.plan = NoPlan] /\ UNCHANGED <<cfs, cfsLocal>>
    BY <1>2 DEF clear_components
  <2>2. cfsRun'.at = "clear_configs" /\ cfsRun'.read = cfsRun.read /\ cfsRun'.clear = cfsRun.clear
    BY ONLY <1>1, <2>1 DEF CfsRunRecord
  <2>. QED BY <1>1, <2>1, <2>2 DEF clear_components, Same, SameBut
<1>3. CASE left # {}
  <2>. DEFINE Cleared(table, piece) ==
                [x \in CfsComponent |->
                    IF x \in piece /\ cfs.desired[x] # Absent THEN Unset ELSE table[x]]
  <2>1. PICK piece \in chunk_list(left), e \in Put :
          /\ cfs' = IF e = "failed" THEN cfs
                    ELSE [cfs EXCEPT !.desired = Cleared(cfs.desired, piece)]
          /\ cfsLocal' = IF e = "ok" THEN [cfsLocal EXCEPT !.desired = Cleared(cfsLocal.desired, piece)]
                         ELSE cfsLocal
          /\ cfsRun' = [GoesOn(e, "clear_components") EXCEPT !.plan.components = @ \cup piece]
    BY <1>3 DEF clear_components
  <2>2. EmptyId \notin piece
    <3>1. left \subseteq CfsComponent \ {EmptyId}
      BY DEF CfsTyped, CfsContents, Names, Nameless
    <3>. QED BY <3>1 DEF chunk_list
  <2>3. /\ SameBut("desired")
        /\ \A x \in CfsComponent : \/ cfs'.desired[x] = cfs.desired[x]
                                   \/ x \in piece /\ cfs'.desired[x] = Unset
        /\ e = "ok" => \A x \in CfsComponent :
             \/ cfs'.desired[x] = cfs.desired[x] /\ cfsLocal'.desired[x] = cfsLocal.desired[x]
             \/ cfsLocal'.desired[x] = Unset
    <3>1. CASE e = "ok"
      BY <2>1, <3>1 DEF CfsTyped, CfsContents, SameBut
    <3>2. CASE e # "ok"
      BY <2>1, <3>2 DEF CfsTyped, CfsContents, SameBut
    <3>. QED BY <3>1, <3>2
  <2>4. /\ cfsRun'.at = IF e = "ok" THEN "clear_components" ELSE "failed"
        /\ cfsRun'.read = cfsRun.read /\ cfsRun'.clear = cfsRun.clear
    <3>1. "clear_components" \in Places
      BY DEF Places
    <3>. QED BY ONLY <1>1, <2>1, <3>1, GoesOnFields, PlanFields
  <2>. QED BY <1>1, <2>2, <2>3, <2>4 DEF clear_components, Same
<1>. QED BY <1>2, <1>3

LEMMA ClearConfigsStep ==
    ASSUME CfsTyped, clear_configs
    PROVE  /\ Same /\ SameBut("configs") /\ cfsRun.at = "clear_configs"
           /\ cfsRun'.at \in {"clear_configs", "plan_components", "failed"}
           /\ \A c \in CfsConfig : cfs'.configs[c] \in {cfs.configs[c], NoConfig}
<1>1. cfsRun.at = "clear_configs" /\ cfsRun \in CfsRunRecord
  BY DEF clear_configs, CfsTyped
<1>2. CASE Names(cfsLocal.configs, NoConfig) = {}
  BY <1>1, <1>2 DEF clear_configs, Same, SameBut, CfsRunRecord
<1>3. CASE Names(cfsLocal.configs, NoConfig) # {}
  <2>1. CASE Stop /\ UNCHANGED <<cfs, cfsLocal>>
    BY <1>1, <2>1 DEF clear_configs, Same, SameBut, Stop, CfsRunRecord
  <2>2. CASE ~(Stop /\ UNCHANGED <<cfs, cfsLocal>>)
    <3>1. PICK c \in Names(cfsLocal.configs, NoConfig), e \in Delete :
            /\ cfs' = IF e = "failed" THEN cfs ELSE [cfs EXCEPT !.configs[c] = NoConfig]
            /\ cfsLocal' = IF e = "ok" THEN [cfsLocal EXCEPT !.configs[c] = NoConfig] ELSE cfsLocal
            /\ cfsRun' = GoesOn(e, "clear_configs")
      BY <1>3, <2>2 DEF clear_configs
    <3>2. /\ SameBut("configs")
          /\ \A d \in CfsConfig : cfs'.configs[d] \in {cfs.configs[d], NoConfig}
      BY <3>1 DEF CfsTyped, CfsContents, SameBut
    <3>3. /\ cfsRun'.at \in {"clear_configs", "failed"}
          /\ cfsRun'.read = cfsRun.read /\ cfsRun'.clear = cfsRun.clear
      BY <1>1, <3>1, GoesOnFields DEF Places
    <3>. QED BY <1>1, <3>2, <3>3 DEF clear_configs, Same
  <2>. QED BY <2>1, <2>2
<1>. QED BY <1>2, <1>3

LEMMA PlanComponentsStep ==
    ASSUME CfsTyped, plan_components
    PROVE  /\ Same /\ UNCHANGED <<cfs, cfsLocal>> /\ cfsRun.at = "plan_components"
           /\ \/ cfsRun'.at = "failed"
              \/ LET configs == get_resources_to_create(cfsData.configs, cfsLocal.configs, NoConfig)
                 IN  /\ cfsRun'.at = "plan_options" /\ cfsRun'.plan.configs = configs
                     /\ cfsRun'.plan.components = get_comps_to_update(configs)
<1>. DEFINE configs == get_resources_to_create(cfsData.configs, cfsLocal.configs, NoConfig)
            comps == get_comps_to_update(configs)
<1>1. cfsRun.at = "plan_components" /\ cfsRun \in CfsRunRecord
      /\ UNCHANGED <<cfs, cfsLocal, cfsData, cfsVersion, cfsSnap, cfsLate, cfsTouched>>
  BY DEF plan_components, CfsTyped
<1>2. \/ Stop
      \/ cfsRun' = [cfsRun EXCEPT !.at = "plan_options", !.plan.configs = configs, !.plan.components = comps]
  BY DEF plan_components
<1>3. CASE Stop
  BY <1>1, <1>3 DEF Stop, Same, CfsRunRecord
<1>4. CASE cfsRun' = [cfsRun EXCEPT !.at = "plan_options", !.plan.configs = configs, !.plan.components = comps]
  <2>. HIDE DEF configs, comps
  <2>1. /\ cfsRun'.at = "plan_options" /\ cfsRun'.read = cfsRun.read /\ cfsRun'.clear = cfsRun.clear
        /\ cfsRun'.plan.configs = configs /\ cfsRun'.plan.components = comps
    BY ONLY <1>1, <1>4 DEF CfsRunRecord, CfsPlan
  <2>. QED BY <1>1, <2>1 DEF Same, configs, comps
<1>. QED BY <1>2, <1>3, <1>4

LEMMA PlanOptionsStep ==
    ASSUME CfsTyped, plan_options
    PROVE  /\ Same /\ UNCHANGED <<cfs, cfsLocal>> /\ cfsRun.at = "plan_options"
           /\ \/ cfsRun'.at = "failed"
              \/ /\ cfsRun'.at = "plan_sources"
                 /\ cfsRun'.plan = [cfsRun.plan EXCEPT !.options = get_options_to_change]
<1>1. CASE Stop
  BY <1>1 DEF plan_options, Stop, Same, CfsTyped, CfsRunRecord
<1>2. CASE cfsRun' = [cfsRun EXCEPT !.at = "plan_sources", !.plan.options = get_options_to_change]
  BY <1>2 DEF plan_options, Same, CfsTyped, CfsRunRecord, CfsPlan
<1>. QED BY <1>1, <1>2 DEF plan_options

SourcesToRestore == IF restore_source_supported(cfsVersion)
                    THEN get_resources_to_create(cfsData.sources, cfsLocal.sources, Absent) ELSE {}

LEMMA PlanSourcesStep ==
    ASSUME CfsTyped, plan_sources
    PROVE  /\ Same /\ UNCHANGED <<cfs, cfsLocal>> /\ cfsRun.at = "plan_sources"
           /\ cfsRun'.plan = [cfsRun.plan EXCEPT !.sources = SourcesToRestore]
           /\ \/ cfsRun'.at = "done" /\ cfsRun'.plan = NoPlan
              \/ cfsRun'.at = IF cfsRun.clear THEN "options_v2" ELSE "snapshot"
<1>. DEFINE plan == [cfsRun.plan EXCEPT !.sources = SourcesToRestore]
<1>1. /\ cfsRun' = [cfsRun EXCEPT !.plan = plan,
                      !.at = IF plan = NoPlan THEN "done"
                             ELSE IF cfsRun.clear THEN "options_v2" ELSE "snapshot"]
      /\ cfsRun \in CfsRunRecord
  BY DEF plan_sources, SourcesToRestore, CfsTyped
<1>2. /\ cfsRun'.plan = plan /\ cfsRun'.read = cfsRun.read /\ cfsRun'.clear = cfsRun.clear
      /\ cfsRun'.at = IF plan = NoPlan THEN "done"
                      ELSE IF cfsRun.clear THEN "options_v2" ELSE "snapshot"
  <2>. HIDE DEF plan
  <2>. QED BY ONLY <1>1 DEF CfsRunRecord
<1>. QED BY <1>2 DEF plan_sources, Same

LEMMA PatchStep ==
    ASSUME CfsTyped, NEW opts \in SUBSET CfsOption, NEW p \in Places, PatchOptions(opts, p),
           UNCHANGED <<cfsData, cfsVersion, cfsLocal, cfsSnap, cfsLate, cfsTouched>>
    PROVE  /\ Same /\ SameBut("options") /\ cfsRun'.plan = cfsRun.plan /\ cfsRun'.at \in {p, "failed"}
           /\ \A o \in CfsOption : \/ cfs'.options[o] = cfs.options[o]
                                   \/ o \in opts /\ cfs'.options[o] = cfsData.options[o]
           /\ cfsRun'.at # "failed" => \A o \in opts : cfs'.options[o] = cfsData.options[o]
<1>1. cfsRun \in CfsRunRecord /\ p \in Places
  BY DEF CfsTyped
<1>2. PICK e : /\ cfsRun' = GoesOn(e, p)
               /\ \/ cfs' = cfs /\ (e # "ok" \/ opts = {})
                  \/ cfs' = [cfs EXCEPT !.options = [o \in CfsOption |->
                        IF o \in opts THEN cfsData.options[o] ELSE cfs.options[o]]]
  <2>1. CASE opts = {}
    BY <2>1 DEF PatchOptions
  <2>2. CASE opts # {}
    BY <2>2 DEF PatchOptions
  <2>. QED BY <2>1, <2>2
<1>3. /\ cfsRun'.at = IF e = "ok" THEN p ELSE "failed"
      /\ cfsRun'.read = cfsRun.read /\ cfsRun'.clear = cfsRun.clear /\ cfsRun'.plan = cfsRun.plan
  BY ONLY <1>1, <1>2, GoesOnFields
<1>4. /\ \A f \in {"desired", "configs", "sources"} : cfs'[f] = cfs[f]
      /\ \A o \in CfsOption : \/ cfs'.options[o] = cfs.options[o]
                              \/ o \in opts /\ cfs'.options[o] = cfsData.options[o]
      /\ e = "ok" => \A o \in opts : cfs'.options[o] = cfsData.options[o]
  <2>1. CASE cfs' = cfs /\ (e # "ok" \/ opts = {})
    BY <2>1
  <2>2. CASE cfs' = [cfs EXCEPT !.options = [o \in CfsOption |->
                        IF o \in opts THEN cfsData.options[o] ELSE cfs.options[o]]]
    BY <2>2 DEF CfsTyped, CfsContents
  <2>. QED BY <1>2, <2>1, <2>2
<1>. QED BY <1>3, <1>4 DEF Same, SameBut

LEMMA OptionsStep ==
    ASSUME CfsTyped, change_options
    PROVE  /\ Same /\ SameBut("options") /\ cfsLocal' = cfsLocal /\ cfsRun'.plan = cfsRun.plan
           /\ \/ cfsRun.at = "options_v2" /\ cfsRun'.at \in {"options_v3", "failed"}
              \/ cfsRun.at = "options_v3" /\ cfsRun'.at \in {"sources", "failed"}
           /\ \A o \in CfsOption :
                \/ cfs'.options[o] = cfs.options[o]
                   /\ \/ cfsRun'.at = "failed" \/ o \notin cfsRun.plan.options
                      \/ o = ReadOnlyInV3 /\ cfsRun.at = "options_v3"
                      \/ o # ReadOnlyInV3 /\ cfsRun.at = "options_v2"
                \/ /\ cfs'.options[o] = cfsData.options[o]
                   /\ o = ReadOnlyInV3 <=> cfsRun.at = "options_v2"
<1>1. cfsRun.plan.options \subseteq CfsOption /\ {"options_v3", "sources"} \subseteq Places
      /\ UNCHANGED <<cfsData, cfsVersion, cfsLocal, cfsSnap, cfsLate, cfsTouched>>
  BY DEF change_options, CfsTyped, CfsRunRecord, CfsPlan, Places
<1>2. CASE cfsRun.at = "options_v2" /\ PatchOptions(cfsRun.plan.options \cap {ReadOnlyInV3}, "options_v3")
  BY <1>1, <1>2, PatchStep
<1>3. CASE cfsRun.at = "options_v3" /\ PatchOptions(cfsRun.plan.options \ {ReadOnlyInV3}, "sources")
  BY <1>1, <1>3, PatchStep
<1>. QED BY <1>2, <1>3 DEF change_options

LEMMA SourcesStep ==
    ASSUME CfsTyped, restore_sources
    PROVE  /\ Same /\ SameBut("sources") /\ cfsLocal' = cfsLocal /\ cfsRun.at = "sources"
           /\ cfsRun'.at \in {"sources", "configs", "failed"}
           /\ cfsRun'.at = "configs" => cfsRun.plan.sources = {}
           /\ \E sources \in SUBSET cfsRun.plan.sources :
                /\ cfsRun'.plan = [cfsRun.plan EXCEPT !.sources = sources]
                /\ \A s \in CfsSource :
                     \/ cfs'.sources[s] = cfs.sources[s] /\ (cfsRun'.at = "failed" \/ s \in sources \/ s \notin cfsRun.plan.sources)
                     \/ s \in cfsRun.plan.sources \ sources /\ cfs'.sources[s] = cfsData.sources[s]
<1>1. cfsRun.at = "sources" /\ cfsRun \in CfsRunRecord /\ "sources" \in Places
  BY DEF restore_sources, CfsTyped, Places
<1>2. CASE cfsRun.plan.sources = {}
  <2>1. /\ cfsRun'.at = "configs" /\ cfsRun'.read = cfsRun.read /\ cfsRun'.clear = cfsRun.clear
        /\ cfsRun'.plan = cfsRun.plan /\ cfs' = cfs
    BY <1>1, <1>2 DEF restore_sources, CfsRunRecord
  <2>2. cfsRun.plan = [cfsRun.plan EXCEPT !.sources = {}]
    BY <1>1, <1>2 DEF CfsRunRecord, CfsPlan
  <2>. QED BY <1>1, <1>2, <2>1, <2>2 DEF restore_sources, Same, SameBut
<1>3. CASE cfsRun.plan.sources # {}
  <2>1. PICK s \in cfsRun.plan.sources, e \in Delete :
          /\ cfs' = IF e = "failed" THEN cfs
                    ELSE [cfs EXCEPT !.sources[s] = cfsData.sources[s]]
          /\ cfsRun' = [GoesOn(e, "sources") EXCEPT !.plan.sources = @ \ {s}]
    BY <1>3 DEF restore_sources
  <2>2. /\ cfsRun'.at = IF e = "ok" THEN "sources" ELSE "failed"
        /\ cfsRun'.read = cfsRun.read /\ cfsRun'.clear = cfsRun.clear
        /\ cfsRun'.plan = [cfsRun.plan EXCEPT !.sources = cfsRun.plan.sources \ {s}]
    <3>1. LET next == GoesOn(e, "sources")
          IN  /\ next \in CfsRunRecord
              /\ next.at = IF e = "ok" THEN "sources" ELSE "failed"
              /\ next.read = cfsRun.read /\ next.clear = cfsRun.clear /\ next.plan = cfsRun.plan
      BY ONLY <1>1, GoesOnFields
    <3>2. cfsRun' = [GoesOn(e, "sources") EXCEPT !.plan.sources = cfsRun.plan.sources \ {s}]
      BY <2>1, <3>1
    <3>. QED BY ONLY <3>1, <3>2, PlanFields
  <2>3. /\ SameBut("sources") /\ s \in CfsSource
        /\ \A q \in CfsSource : cfs'.sources[q] = IF q = s /\ e # "failed" THEN cfsData.sources[s]
                                                  ELSE cfs.sources[q]
    <3>1. s \in CfsSource /\ cfsLocal' = cfsLocal
      BY DEF restore_sources, CfsTyped, CfsRunRecord, CfsPlan
    <3>. QED BY <2>1, <3>1 DEF CfsTyped, CfsContents, SameBut
  <2>4. Same /\ cfsLocal' = cfsLocal
    BY <2>2 DEF restore_sources, Same
  <2>. DEFINE left == cfsRun.plan.sources \ {s}
  <2>5. /\ left \in SUBSET cfsRun.plan.sources /\ cfsRun'.plan = [cfsRun.plan EXCEPT !.sources = left]
        /\ \A q \in CfsSource :
             \/ cfs'.sources[q] = cfs.sources[q]
                /\ (cfsRun'.at = "failed" \/ q \in left \/ q \notin cfsRun.plan.sources)
             \/ q \in cfsRun.plan.sources \ left /\ cfs'.sources[q] = cfsData.sources[q]
    BY <2>2, <2>3
  <2>. HIDE DEF left
  <2>. QED BY <1>1, <2>2, <2>3, <2>4, <2>5
<1>. QED BY <1>2, <1>3

LEMMA ConfigsStep ==
    ASSUME CfsIInv, create_configs
    PROVE  /\ Same /\ SameBut("configs") /\ cfsLocal' = cfsLocal /\ cfsRun.at = "configs"
           /\ cfsRun'.at \in {"configs", "components", "failed"}
           /\ cfsRun'.at = "components" => cfsRun.plan.configs = {}
           /\ \E configs \in SUBSET cfsRun.plan.configs :
                /\ cfsRun'.plan = [cfsRun.plan EXCEPT !.configs = configs]
                /\ \A c \in CfsConfig :
                     \/ cfs'.configs[c] = cfs.configs[c] /\ (cfsRun'.at = "failed" \/ c \in configs \/ c \notin cfsRun.plan.configs)
                     \/ c \in cfsRun.plan.configs \ configs /\ cfs'.configs[c] # NoConfig
<1>1. cfsRun.at = "configs" /\ cfsRun \in CfsRunRecord /\ "configs" \in Places
  BY DEF create_configs, CfsIInv, CfsTyped, Places
<1>2. CASE cfsRun.plan.configs = {}
  <2>1. /\ cfsRun'.at = "components" /\ cfsRun'.read = cfsRun.read /\ cfsRun'.clear = cfsRun.clear
        /\ cfsRun'.plan = cfsRun.plan /\ cfs' = cfs
    BY <1>1, <1>2 DEF create_configs, CfsRunRecord
  <2>2. cfsRun.plan = [cfsRun.plan EXCEPT !.configs = {}]
    BY <1>1, <1>2 DEF CfsRunRecord, CfsPlan
  <2>. QED BY <1>1, <1>2, <2>1, <2>2 DEF create_configs, Same, SameBut
<1>3. CASE cfsRun.plan.configs # {}
  <2>1. PICK c \in cfsRun.plan.configs, e \in Put :
          LET body == scrub_layer(cfsData.configs[c])
          IN  IF Accepted(body)
              THEN /\ cfs' = IF e = "failed" THEN cfs
                             ELSE [cfs EXCEPT !.configs[c] = Stored(body)]
                   /\ cfsRun' = [GoesOn(e, "configs") EXCEPT !.plan.configs = @ \ {c}]
              ELSE cfsRun' = [cfsRun EXCEPT !.at = "failed"] /\ UNCHANGED cfs
    BY <1>3 DEF create_configs
  <2>2. c \in CfsConfig
    BY <1>1 DEF CfsRunRecord, CfsPlan
  <2>3. cfsData.configs[c] \in ConfigBody
    BY <1>1, <2>2 DEF CfsIInv, CfsTyped, CfsContents, PlanIsSound, Planned, NoConfig
  <2>. DEFINE stored == Stored(scrub_layer(cfsData.configs[c]))
  <2>4. /\ stored # NoConfig
        /\ cfs' = IF e = "failed" THEN cfs ELSE [cfs EXCEPT !.configs[c] = stored]
        /\ cfsRun' = [GoesOn(e, "configs") EXCEPT !.plan.configs = @ \ {c}]
    BY <2>1, <2>3, ScrubbedIsAccepted
  <2>. HIDE DEF stored
  <2>5. /\ cfsRun'.at = IF e = "ok" THEN "configs" ELSE "failed"
        /\ cfsRun'.read = cfsRun.read /\ cfsRun'.clear = cfsRun.clear
        /\ cfsRun'.plan = [cfsRun.plan EXCEPT !.configs = cfsRun.plan.configs \ {c}]
    <3>1. LET next == GoesOn(e, "configs")
          IN  /\ next \in CfsRunRecord
              /\ next.at = IF e = "ok" THEN "configs" ELSE "failed"
              /\ next.read = cfsRun.read /\ next.clear = cfsRun.clear /\ next.plan = cfsRun.plan
      BY ONLY <1>1, GoesOnFields
    <3>2. cfsRun' = [GoesOn(e, "configs") EXCEPT !.plan.configs = cfsRun.plan.configs \ {c}]
      BY <2>4, <3>1
    <3>. QED BY ONLY <3>1, <3>2, PlanFields
  <2>6. /\ SameBut("configs")
        /\ \A d \in CfsConfig : cfs'.configs[d] = IF d = c /\ e # "failed" THEN stored
                                                  ELSE cfs.configs[d]
    <3>1. cfsLocal' = cfsLocal
      BY DEF create_configs
    <3>. QED BY <2>2, <2>4, <3>1 DEF CfsIInv, CfsTyped, CfsContents, SameBut
  <2>7. Same /\ cfsLocal' = cfsLocal
    BY <2>5 DEF create_configs, Same
  <2>. DEFINE left == cfsRun.plan.configs \ {c}
  <2>8. /\ left \in SUBSET cfsRun.plan.configs /\ cfsRun'.plan = [cfsRun.plan EXCEPT !.configs = left]
        /\ \A d \in CfsConfig :
             \/ cfs'.configs[d] = cfs.configs[d]
                /\ (cfsRun'.at = "failed" \/ d \in left \/ d \notin cfsRun.plan.configs)
             \/ d \in cfsRun.plan.configs \ left /\ cfs'.configs[d] # NoConfig
    BY <2>4, <2>5, <2>6
  <2>. HIDE DEF left
  <2>. QED BY <1>1, <2>5, <2>6, <2>7, <2>8
<1>. QED BY <1>2, <1>3

LEMMA ComponentsStep ==
    ASSUME CfsTyped, update_components
    PROVE  /\ Same /\ SameBut("desired") /\ cfsLocal' = cfsLocal /\ cfsRun.at = "components"
           /\ cfsRun'.at \in {"components", "snapshot_after", "failed"}
           /\ cfsRun'.at = "snapshot_after" => cfsRun.plan.components = {}
           /\ \E components \in SUBSET cfsRun.plan.components :
                /\ cfsRun'.plan = [cfsRun.plan EXCEPT !.components = components]
                /\ \A x \in CfsComponent :
                     \/ cfs'.desired[x] = cfs.desired[x]
                        /\ (cfsRun'.at = "failed" \/ x \in components \/ x \notin cfsRun.plan.components)
                     \/ x \in cfsRun.plan.components \ components
                        /\ cfs'.desired[x] \in CfsConfig \cup {Absent}
<1>1. cfsRun.at = "components" /\ cfsRun \in CfsRunRecord /\ "components" \in Places
  BY DEF update_components, CfsTyped, Places
<1>2. CASE cfsRun.plan.components = {}
  <2>1. /\ cfsRun'.at = "snapshot_after" /\ cfsRun'.read = cfsRun.read /\ cfsRun'.clear = cfsRun.clear
        /\ cfsRun'.plan = cfsRun.plan /\ cfs' = cfs
    BY <1>1, <1>2 DEF update_components, CfsRunRecord
  <2>2. cfsRun.plan = [cfsRun.plan EXCEPT !.components = {}]
    BY <1>1, <1>2 DEF CfsRunRecord, CfsPlan
  <2>. QED BY <1>1, <1>2, <2>1, <2>2 DEF update_components, Same, SameBut
<1>3. CASE cfsRun.plan.components # {}
  <2>1. PICK c \in CfsConfig, e \in Put :
          LET same == {x \in cfsRun.plan.components : cfsData.desired[x] = c}
          IN  /\ same # {}
              /\ \E piece \in chunk_list(same) :
                 /\ cfs' = IF e = "failed" THEN cfs
                           ELSE [cfs EXCEPT !.desired = [x \in CfsComponent |->
                                   IF x \in piece /\ @[x] # Absent THEN c ELSE @[x]]]
                 /\ cfsAsked' = IF e = "failed" THEN cfsAsked ELSE cfsAsked \cup piece
                 /\ cfsRun' = [GoesOn(e, "components") EXCEPT !.plan.components = @ \ piece]
    BY <1>3 DEF update_components
  <2>2. PICK piece \in SUBSET {x \in cfsRun.plan.components : cfsData.desired[x] = c} :
          /\ cfs' = IF e = "failed" THEN cfs
                    ELSE [cfs EXCEPT !.desired = [x \in CfsComponent |->
                             IF x \in piece /\ cfs.desired[x] # Absent THEN c ELSE cfs.desired[x]]]
          /\ cfsRun' = [GoesOn(e, "components") EXCEPT !.plan.components = @ \ piece]
    BY <2>1 DEF chunk_list
  <2>3. /\ cfsRun'.at = IF e = "ok" THEN "components" ELSE "failed"
        /\ cfsRun'.read = cfsRun.read /\ cfsRun'.clear = cfsRun.clear
        /\ cfsRun'.plan = [cfsRun.plan EXCEPT !.components = cfsRun.plan.components \ piece]
    <3>1. LET next == GoesOn(e, "components")
          IN  /\ next \in CfsRunRecord
              /\ next.at = IF e = "ok" THEN "components" ELSE "failed"
              /\ next.read = cfsRun.read /\ next.clear = cfsRun.clear /\ next.plan = cfsRun.plan
      BY ONLY <1>1, GoesOnFields
    <3>2. cfsRun' = [GoesOn(e, "components") EXCEPT !.plan.components = cfsRun.plan.components \ piece]
      BY <2>2, <3>1
    <3>. QED BY ONLY <3>1, <3>2, PlanFields
  <2>4. /\ SameBut("desired")
        /\ \A x \in CfsComponent :
             \/ cfs'.desired[x] = cfs.desired[x] /\ (e = "failed" \/ x \notin piece)
             \/ x \in piece /\ cfs'.desired[x] \in {c, Absent}
    <3>1. cfsLocal' = cfsLocal
      BY DEF update_components
    <3>2. CASE e = "failed"
      BY <2>2, <3>1, <3>2 DEF SameBut
    <3>3. CASE e # "failed"
      <4>1. SameBut("desired")
        BY <2>2, <3>1, <3>3 DEF CfsTyped, CfsContents, SameBut
      <4>2. \A x \in CfsComponent :
              cfs'.desired[x] = IF x \in piece /\ cfs.desired[x] # Absent THEN c ELSE cfs.desired[x]
        BY <2>2, <3>3 DEF CfsTyped, CfsContents
      <4>. QED BY <4>1, <4>2
    <3>. QED BY <3>2, <3>3
  <2>5. Same /\ cfsLocal' = cfsLocal
    BY <2>3 DEF update_components, Same
  <2>. DEFINE left == cfsRun.plan.components \ piece
  <2>6. /\ left \in SUBSET cfsRun.plan.components
        /\ cfsRun'.plan = [cfsRun.plan EXCEPT !.components = left]
        /\ \A x \in CfsComponent :
             \/ cfs'.desired[x] = cfs.desired[x]
                /\ (cfsRun'.at = "failed" \/ x \in left \/ x \notin cfsRun.plan.components)
             \/ x \in cfsRun.plan.components \ left /\ cfs'.desired[x] \in CfsConfig \cup {Absent}
    BY <2>3, <2>4
  <2>. HIDE DEF left
  <2>. QED BY <1>1, <2>3, <2>4, <2>5, <2>6
<1>. QED BY <1>2, <1>3

CfsTable == {"desired", "configs", "options", "sources"}
\* One table is copied, and what is new about it is forgotten.
Copies(t, old, new, late, later) ==
    /\ \A f \in CfsTable : new[f] = IF f = t THEN Listed(t) ELSE old[f]
    /\ \A f \in CfsTable \ {t} : \A i : <<f, i>> \in late => <<f, i>> \in later

LEMMA ReadStep ==
    ASSUME CfsTyped, load_cfs_data \/ snapshot_cfs_data
    PROVE  /\ UNCHANGED <<cfs, cfsData, cfsVersion>>
           /\ cfsRun'.clear = cfsRun.clear /\ cfsRun'.plan = cfsRun.plan
           /\ \/ cfsRun.read \in 0..2 /\ cfsRun'.read = cfsRun.read + 1 /\ cfsRun'.at = cfsRun.at
              \/ /\ cfsRun.read = 3 /\ cfsRun'.read = 0
                 /\ \/ cfsRun.at = "load" /\ cfsRun.clear /\ cfsRun'.at = "check_clear"
                    \/ cfsRun.at = "load" /\ ~cfsRun.clear /\ cfsRun'.at = "plan_components"
                    \/ cfsRun.at = "snapshot_clear" /\ cfsRun'.at = "clear_components"
                    \/ cfsRun.at = "snapshot" /\ cfsRun'.at = "options_v2"
                    \/ cfsRun.at = "snapshot_after" /\ cfsRun'.at = "done"
           /\ \E t \in CfsTable :
                /\ \/ cfsRun.read = 0 /\ t = "desired"
                   \/ cfsRun.read = 1 /\ t = "configs"
                   \/ cfsRun.read = 2 /\ t = "options"
                   \/ cfsRun.read = 3 /\ t = "sources"
                /\ IF cfsRun.at = "load"
                   THEN Copies(t, cfsLocal, cfsLocal', cfsTouched, cfsTouched') /\ UNCHANGED <<cfsSnap, cfsLate>>
                   ELSE Copies(t, cfsSnap, cfsSnap', cfsLate, cfsLate') /\ UNCHANGED <<cfsLocal, cfsTouched>>
<1>1. cfsRun.read \in 0..3 /\ cfsRun \in CfsRunRecord
  BY DEF CfsTyped, CfsRunRecord
<1>2. PICK p : /\ ReadNext(p)
               /\ \/ cfsRun.at = "load" /\ p = IF cfsRun.clear THEN "check_clear" ELSE "plan_components"
                  \/ cfsRun.at = "snapshot_clear" /\ p = "clear_components"
                  \/ cfsRun.at = "snapshot" /\ p = "options_v2"
                  \/ cfsRun.at = "snapshot_after" /\ p = "done"
  BY DEF load_cfs_data, snapshot_cfs_data
<1>. DEFINE t == CFS_RESOURCE_TYPES[cfsRun.read + 1]
<1>3. /\ t \in CfsTable
      /\ \/ cfsRun.read = 0 /\ t = "desired"
         \/ cfsRun.read = 1 /\ t = "configs"
         \/ cfsRun.read = 2 /\ t = "options"
         \/ cfsRun.read = 3 /\ t = "sources"
  BY <1>1 DEF CFS_RESOURCE_TYPES, CfsTable
<1>4. /\ UNCHANGED <<cfs, cfsData, cfsVersion>>
      /\ cfsRun' = IF cfsRun.read = 3 THEN [cfsRun EXCEPT !.read = 0, !.at = p]
                   ELSE [cfsRun EXCEPT !.read = cfsRun.read + 1]
      /\ IF cfsRun.at = "load"
         THEN /\ cfsLocal' = [cfsLocal EXCEPT ![t] = Listed(t)]
              /\ cfsTouched' = {e \in cfsTouched : e[1] # t}
              /\ UNCHANGED <<cfsSnap, cfsLate>>
         ELSE /\ cfsSnap' = [cfsSnap EXCEPT ![t] = Listed(t)]
              /\ cfsLate' = {e \in cfsLate : e[1] # t}
              /\ UNCHANGED <<cfsLocal, cfsTouched>>
  BY <1>2 DEF ReadNext
<1>. HIDE DEF t
<1>5. IF cfsRun.at = "load"
      THEN Copies(t, cfsLocal, cfsLocal', cfsTouched, cfsTouched') /\ UNCHANGED <<cfsSnap, cfsLate>>
      ELSE Copies(t, cfsSnap, cfsSnap', cfsLate, cfsLate') /\ UNCHANGED <<cfsLocal, cfsTouched>>
  BY <1>3, <1>4 DEF Copies, CfsTyped, CfsContents, CfsTable
<1>6. /\ cfsRun'.clear = cfsRun.clear /\ cfsRun'.plan = cfsRun.plan
      /\ IF cfsRun.read = 3 THEN cfsRun'.read = 0 /\ cfsRun'.at = p
         ELSE cfsRun'.read = cfsRun.read + 1 /\ cfsRun'.at = cfsRun.at
  BY <1>1, <1>4 DEF CfsRunRecord
<1>. QED BY <1>1, <1>2, <1>3, <1>4, <1>5, <1>6

LEMMA ListedAsIs ==
    ASSUME CfsTyped
    PROVE  /\ \A x \in CfsComponent \ {EmptyId} : Listed("desired")[x] = cfs.desired[x]
           /\ EmptyId \in CfsComponent => Listed("desired")[EmptyId] = Absent
           /\ \A f \in {"configs", "options", "sources"} : Listed(f) = cfs[f]
BY DEF Listed, remove_components_with_empty_ids

-----------------------------------------------------------------------------
(* What a run changes was exported, and what it leaves alone.              *)

Named == CfsComponent \ {EmptyId}
DesiredExported(x) ==
    cfs.desired[x] \in {Unset, cfsSnap.desired[x]} \/ <<"desired", x>> \in cfsLate
ConfigExported(c) ==
    cfs.configs[c] \in {NoConfig, cfsSnap.configs[c]} \/ <<"configs", c>> \in cfsLate
CfsOptionExported(o) ==
    cfs.options[o] \in {Absent, cfsSnap.options[o]} \/ <<"options", o>> \in cfsLate
SourceExported(s) ==
    cfs.sources[s] \in {Absent, cfsSnap.sources[s]} \/ <<"sources", s>> \in cfsLate

Clearing == {"clear_components", "clear_configs"}
Planning == {"plan_components", "plan_options", "plan_sources"}
Reading == {"load", "snapshot_clear", "snapshot", "snapshot_after"}
\* From the export that precedes the first change to that change.
ExportTaken == cfsRun.at \in Clearing \cup {"options_v2"} \/ (cfsRun.at \in Planning /\ cfsRun.clear)
ExportHas(k) == cfsRun.at \in {"snapshot_clear", "snapshot"} /\ cfsRun.read >= k

\* Only a run with --clear-cfs empties CFS, and tables are read from the first on.
CfsStagesFollow ==
    /\ cfsRun.at \in Clearing \cup {"check_clear", "snapshot_clear"} => cfsRun.clear
    /\ cfsRun.at \notin Reading => cfsRun.read = 0

\* Everything that is still to be cleared or replaced was exported, but for what users
\* changed since.
CfsPlanIsExported ==
    /\ ExportTaken \/ ExportHas(1) \/ cfsRun.at \in {"options_v3", "sources", "configs"} =>
         \A x \in Named : DesiredExported(x)
    /\ cfsRun.at = "components" => \A x \in cfsRun.plan.components : DesiredExported(x)
    /\ ExportTaken \/ ExportHas(2) \/ cfsRun.at \in {"options_v3", "sources"} =>
         \A c \in CfsConfig : ConfigExported(c)
    /\ cfsRun.at = "configs" => \A c \in cfsRun.plan.configs : ConfigExported(c)
    /\ ExportTaken \/ ExportHas(3) => \A o \in CfsOption : CfsOptionExported(o)
    /\ cfsRun.at = "options_v3" => \A o \in CfsOption \ {ReadOnlyInV3} : CfsOptionExported(o)
    /\ ExportTaken \/ cfsRun.at = "options_v3" => \A s \in CfsSource : SourceExported(s)
    /\ cfsRun.at = "sources" => \A s \in cfsRun.plan.sources : SourceExported(s)

FreeConfig(c) == cfs.configs[c] = NoConfig \/ <<"configs", c>> \in cfsTouched
FreeComponent(x) == cfs.desired[x] \in {Unset, Absent} \/ <<"desired", x>> \in cfsTouched

\* A run that does not clear CFS plans to create only configurations that were not there
\* when it read CFS, and to update only components that wanted none.
CfsPlanIsNew ==
    ~cfsRun.clear =>
        /\ cfsRun.at = "plan_components" \/ (cfsRun.at = "load" /\ cfsRun.read >= 1) =>
             \A x \in Named : cfsLocal.desired[x] = Unset => FreeComponent(x)
        /\ cfsRun.at = "plan_components" \/ (cfsRun.at = "load" /\ cfsRun.read >= 2) =>
             \A c \in CfsConfig : cfsLocal.configs[c] = NoConfig => FreeConfig(c)
        /\ cfsRun.at \in Planned =>
             /\ \A x \in cfsRun.plan.components : FreeComponent(x)
             /\ \A c \in cfsRun.plan.configs : FreeConfig(c)

CfsSafe == CfsStagesFollow /\ CfsPlanIsExported /\ CfsPlanIsNew

\* What the copy of the run has is there, until it is changed.
CopyHolds ==
    /\ cfsRun.at # "failed" =>
         /\ \A x \in Named : cfsLocal.desired[x] \notin {Unset, Absent} => cfs.desired[x] # Unset
         /\ \A s \in CfsSource : cfsLocal.sources[s] # Absent => cfs.sources[s] # Absent
    /\ \/ cfsRun.at \in Clearing \cup {"check_clear", "snapshot_clear", "plan_components", "plan_options"}
       \/ cfsRun.at = "load" /\ cfsRun.read >= 3
       => \A o \in CfsOption : cfs.options[o] = cfsLocal.options[o]

OptionIsSet(o) == cfsData.options[o] \in {Absent, cfs.options[o]}
AtEnd == {"snapshot_after", "done"}

\* What is missing of the export is planned, until it is there.
PlanIsComplete ==
    /\ cfsRun.at \in Planned \cup AtEnd =>
         /\ \A c \in CfsConfig : cfsData.configs[c] # NoConfig =>
              There(c) \/ c \in cfsRun.plan.configs
         /\ \A x \in Named :
              /\ cfsData.desired[x] \in Names(cfsData.configs, NoConfig)
              /\ cfsLocal.desired[x] # Absent
              => cfs.desired[x] # Unset \/ x \in cfsRun.plan.components
    /\ cfsRun.at \in (Planned \cup AtEnd) \ {"plan_options"} =>
         \A o \in CfsOption :
            \/ OptionIsSet(o)
            \/ /\ o \in cfsRun.plan.options
               /\ \/ cfsRun.at \in {"plan_sources", "snapshot", "options_v2"}
                  \/ cfsRun.at = "options_v3" /\ o # ReadOnlyInV3
    /\ cfsRun.at \in (Planned \cup AtEnd) \ {"plan_options", "plan_sources"} =>
         /\ \A s \in cfsRun.plan.sources : cfsData.sources[s] # Absent
         /\ restore_source_supported(cfsVersion) =>
              \A s \in CfsSource : cfsData.sources[s] # Absent =>
                cfs.sources[s] # Absent \/ s \in cfsRun.plan.sources
    /\ cfsRun.at \in {"configs", "components"} \cup AtEnd => cfsRun.plan.sources = {}
    /\ cfsRun.at \in AtEnd => cfsRun.plan.configs = {} /\ cfsRun.plan.components = {}

CfsComplete == CopyHolds /\ PlanIsComplete

CfsBoth == CfsIInv /\ CfsSafe /\ CfsComplete

LEMMA CfsBothInit == CfsInit => CfsSafe /\ CfsComplete
<1>. SUFFICES ASSUME CfsInit PROVE CfsSafe /\ CfsComplete
  OBVIOUS
<1>1. cfsRun.at = "idle" /\ cfsRun.read = 0
  BY DEF CfsInit, CfsNewRun
<1>2. /\ \A x \in Named : cfsLocal.desired[x] = Absent
      /\ \A s \in CfsSource : cfsLocal.sources[s] = Absent
  BY DEF CfsInit, Unread, Named
<1>. QED BY <1>1, <1>2 DEF CfsSafe, CfsStagesFollow, CfsPlanIsExported, CfsPlanIsNew, CfsComplete, CopyHolds,
       PlanIsComplete, ExportTaken, ExportHas, Clearing, Planning, Reading, Planned, AtEnd

\* Where CFS is not changed next, nothing has to be exported.
LEMMA CfsQuietIsSafe ==
    ASSUME cfsRun'.read = 0,
           \/ cfsRun'.at \in {"idle", "load", "done", "failed"}
           \/ cfsRun'.at = "check_clear" /\ cfsRun'.clear
    PROVE  CfsSafe'
BY DEF CfsSafe, CfsStagesFollow, CfsPlanIsExported, CfsPlanIsNew, ExportTaken, ExportHas, Clearing, Planning,
       Reading, Planned

LEMMA FailIsBoth ==
    ASSUME CfsSafe, Same, cfsRun.at \notin Reading, cfsRun'.at = "failed"
    PROVE  CfsSafe' /\ CfsComplete'
<1>1. CfsSafe'
  BY CfsQuietIsSafe DEF CfsSafe, CfsStagesFollow, Same
<1>2. CfsComplete'
  BY DEF CfsComplete, CopyHolds, PlanIsComplete, Clearing, Planned, AtEnd
<1>. QED BY <1>1, <1>2

LEMMA BothStart ==
    ASSUME NEW clear \in BOOLEAN, NEW ignore \in BOOLEAN, StartImport(clear, ignore)
    PROVE  CfsSafe' /\ CfsComplete'
<1>1. cfsRun'.at = "load" /\ cfsRun'.read = 0
  BY DEF StartImport, CfsNewRun
<1>2. /\ \A x \in Named : cfsLocal'.desired[x] = Absent
      /\ \A s \in CfsSource : cfsLocal'.sources[s] = Absent
  BY DEF StartImport, Unread, Named
<1>3. CfsComplete'
  BY <1>1, <1>2 DEF CfsComplete, CopyHolds, PlanIsComplete, Clearing, Planned, AtEnd
<1>. QED BY <1>1, <1>3, CfsQuietIsSafe

LEMMA BothUsers ==
    ASSUME CfsTyped, CfsSafe, CfsComplete, CfsUsers
    PROVE  CfsSafe' /\ CfsComplete'
<1>. DEFINE Known ==
        /\ UNCHANGED <<cfsRun, cfsSnap, cfsLocal, cfsData, cfsVersion>>
        /\ \A x \in CfsComponent : \/ cfs'.desired[x] = cfs.desired[x]
                                   \/ /\ <<"desired", x>> \in cfsTouched' \cap cfsLate'
                                      /\ cfs'.desired[x] # Unset
        /\ \A c \in CfsConfig : \/ cfs'.configs[c] = cfs.configs[c]
                                \/ <<"configs", c>> \in cfsTouched' \cap cfsLate'
        /\ cfs'.options = cfs.options /\ cfs'.sources = cfs.sources
        /\ cfsTouched \subseteq cfsTouched' /\ cfsLate \subseteq cfsLate'
<1>1. Known
  <2>1. ASSUME NEW c \in CfsConfig, UserPutsConfig(c)
        PROVE  Known
    BY <2>1 DEF UserPutsConfig, UserChanges, CfsTyped, CfsContents
  <2>2. ASSUME NEW x \in CfsComponent \ {EmptyId}, NEW c \in CfsConfig, UserSetsDesired(x, c)
        PROVE  Known
    BY <2>2, CfsAssumption DEF UserSetsDesired, UserChanges, CfsTyped, CfsContents
  <2>3. CASE SessionChanges
    BY <2>3 DEF SessionChanges
  <2>4. ASSUME NEW c \in CfsConfig, UserDeletesConfig(c)
        PROVE  Known
    BY <2>4 DEF UserDeletesConfig, UserChanges, CfsTyped, CfsContents
  <2>. QED BY <2>1, <2>2, <2>3, <2>4 DEF CfsUsers
<1>2. /\ cfsRun.plan.components \subseteq Named /\ cfsRun.plan.configs \subseteq CfsConfig
      /\ cfsRun.plan.sources \subseteq CfsSource /\ Named \subseteq CfsComponent
  BY DEF CfsTyped, CfsRunRecord, CfsPlan, Named
<1>3. /\ \A x \in Named : /\ DesiredExported(x) => DesiredExported(x)'
                          /\ FreeComponent(x) => FreeComponent(x)'
                          /\ cfs.desired[x] # Unset => cfs'.desired[x] # Unset
      /\ \A c \in CfsConfig : /\ ConfigExported(c) => ConfigExported(c)'
                              /\ FreeConfig(c) => FreeConfig(c)'
                              /\ There(c) => There(c)'
      /\ \A o \in CfsOption : /\ CfsOptionExported(o) => CfsOptionExported(o)'
                              /\ OptionIsSet(o) => OptionIsSet(o)'
      /\ \A s \in CfsSource : SourceExported(s) => SourceExported(s)'
  BY <1>1, <1>2 DEF DesiredExported, FreeComponent, ConfigExported, FreeConfig, There, CfsOptionExported,
                    OptionIsSet, SourceExported
<1>4. CfsStagesFollow'
  BY <1>1 DEF CfsSafe, CfsStagesFollow
<1>5. CfsPlanIsExported'
  BY <1>1, <1>2, <1>3 DEF CfsSafe, CfsPlanIsExported, ExportTaken, ExportHas
<1>6. CfsPlanIsNew'
  BY <1>1, <1>2, <1>3 DEF CfsSafe, CfsPlanIsNew
<1>7. CopyHolds'
  BY <1>1, <1>3 DEF CfsComplete, CopyHolds
<1>8. PlanIsComplete'
  BY <1>1, <1>2, <1>3 DEF CfsComplete, PlanIsComplete
<1>. QED BY <1>4, <1>5, <1>6, <1>7, <1>8 DEF CfsSafe, CfsComplete

-----------------------------------------------------------------------------
(* The steps preserve both.                                                *)

LEMMA BothReading ==
    ASSUME CfsIInv, CfsSafe, CfsComplete, load_cfs_data \/ snapshot_cfs_data
    PROVE  CfsSafe' /\ CfsComplete'
<1>1. CfsTyped
  BY DEF CfsIInv
<1>. DEFINE Step ==
        /\ UNCHANGED <<cfs, cfsData, cfsVersion>>
        /\ cfsRun'.clear = cfsRun.clear /\ cfsRun'.plan = cfsRun.plan
        /\ \/ cfsRun.read \in 0..2 /\ cfsRun'.read = cfsRun.read + 1 /\ cfsRun'.at = cfsRun.at
           \/ /\ cfsRun.read = 3 /\ cfsRun'.read = 0
              /\ \/ cfsRun.at = "load" /\ cfsRun.clear /\ cfsRun'.at = "check_clear"
                 \/ cfsRun.at = "load" /\ ~cfsRun.clear /\ cfsRun'.at = "plan_components"
                 \/ cfsRun.at = "snapshot_clear" /\ cfsRun'.at = "clear_components"
                 \/ cfsRun.at = "snapshot" /\ cfsRun'.at = "options_v2"
                 \/ cfsRun.at = "snapshot_after" /\ cfsRun'.at = "done"
<1>2. PICK t \in CfsTable :
        /\ \/ cfsRun.read = 0 /\ t = "desired"
           \/ cfsRun.read = 1 /\ t = "configs"
           \/ cfsRun.read = 2 /\ t = "options"
           \/ cfsRun.read = 3 /\ t = "sources"
        /\ IF cfsRun.at = "load"
           THEN Copies(t, cfsLocal, cfsLocal', cfsTouched, cfsTouched') /\ UNCHANGED <<cfsSnap, cfsLate>>
           ELSE Copies(t, cfsSnap, cfsSnap', cfsLate, cfsLate') /\ UNCHANGED <<cfsLocal, cfsTouched>>
  BY <1>1, ReadStep
<1>3. Step /\ cfsRun.at \in Reading
  BY <1>1, ReadStep DEF load_cfs_data, snapshot_cfs_data, Reading
<1>. HIDE DEF Step
<1>4. CASE cfsRun.at = "load"
  <2>1. /\ \A x \in Named : cfsLocal'.desired[x] = IF t = "desired" THEN cfs.desired[x] ELSE cfsLocal.desired[x]
        /\ cfsLocal'.configs = IF t = "configs" THEN cfs.configs ELSE cfsLocal.configs
        /\ cfsLocal'.options = IF t = "options" THEN cfs.options ELSE cfsLocal.options
        /\ cfsLocal'.sources = IF t = "sources" THEN cfs.sources ELSE cfsLocal.sources
        /\ t # "desired" => \A x : <<"desired", x>> \in cfsTouched => <<"desired", x>> \in cfsTouched'
        /\ t # "configs" => \A c : <<"configs", c>> \in cfsTouched => <<"configs", c>> \in cfsTouched'
    BY <1>1, <1>2, <1>4, ListedAsIs DEF Copies, CfsTable, Named
  <2>2. CopyHolds'
    BY <1>2, <1>3, <1>4, <2>1 DEF Step, CfsComplete, CopyHolds, Clearing
  <2>3. CfsPlanIsNew'
    BY <1>2, <1>3, <1>4, <2>1 DEF Step, CfsSafe, CfsPlanIsNew, FreeConfig, FreeComponent, Planned
  <2>4. CfsPlanIsExported' /\ CfsStagesFollow' /\ PlanIsComplete'
    BY <1>3, <1>4 DEF Step, CfsPlanIsExported, CfsStagesFollow, PlanIsComplete, ExportTaken, ExportHas,
                      Clearing, Planning, Planned, Reading, AtEnd
  <2>. QED BY <2>2, <2>3, <2>4 DEF CfsSafe, CfsComplete
<1>5. CASE cfsRun.at # "load"
  <2>1. /\ \A x \in Named : cfsSnap'.desired[x] = IF t = "desired" THEN cfs.desired[x] ELSE cfsSnap.desired[x]
        /\ cfsSnap'.configs = IF t = "configs" THEN cfs.configs ELSE cfsSnap.configs
        /\ cfsSnap'.options = IF t = "options" THEN cfs.options ELSE cfsSnap.options
        /\ cfsSnap'.sources = IF t = "sources" THEN cfs.sources ELSE cfsSnap.sources
        /\ \A f \in CfsTable \ {t} : \A i : <<f, i>> \in cfsLate => <<f, i>> \in cfsLate'
        /\ UNCHANGED <<cfs, cfsLocal, cfsTouched, cfsData, cfsVersion>>
    BY <1>1, <1>2, <1>3, <1>5, ListedAsIs DEF Step, Copies, CfsTable, Named
  <2>2. /\ \A x \in Named : t = "desired" \/ DesiredExported(x) => DesiredExported(x)'
        /\ \A c \in CfsConfig : t = "configs" \/ ConfigExported(c) => ConfigExported(c)'
        /\ \A o \in CfsOption : t = "options" \/ CfsOptionExported(o) => CfsOptionExported(o)'
        /\ \A s \in CfsSource : t = "sources" \/ SourceExported(s) => SourceExported(s)'
    BY <2>1 DEF DesiredExported, ConfigExported, CfsOptionExported, SourceExported, CfsTable
  <2>3. CopyHolds' /\ PlanIsComplete' /\ CfsPlanIsNew' /\ CfsStagesFollow'
    BY <1>3, <1>5, <2>1 DEF Step, CfsSafe, CfsComplete, CopyHolds, PlanIsComplete, There, CfsPlanIsNew, CfsStagesFollow,
         FreeConfig, FreeComponent, OptionIsSet, Clearing, Planned, Reading, AtEnd
  <2>4. CfsPlanIsExported'
    BY <1>2, <1>3, <1>5, <2>2 DEF Step, CfsSafe, CfsPlanIsExported, ExportTaken, ExportHas, Clearing,
         Planning, Reading
  <2>. QED BY <2>3, <2>4 DEF CfsSafe, CfsComplete
<1>. QED BY <1>4, <1>5

LEMMA BothClearing ==
    ASSUME CfsIInv, CfsIInv', CfsSafe, CfsComplete, check_before_clear \/ clear_components \/ clear_configs,
           cfsRun'.at # "failed"
    PROVE  CfsSafe' /\ CfsComplete'
<1>1. CfsTyped
  BY DEF CfsIInv
<1>2. CASE check_before_clear
  <2>1. /\ Same /\ UNCHANGED <<cfs, cfsLocal>> /\ cfsRun.at = "check_clear"
        /\ cfsRun'.at = "snapshot_clear"
    BY <1>1, <1>2, CfsCheckStep
  <2>. QED BY <2>1 DEF Same, CfsSafe, CfsStagesFollow, CfsPlanIsExported, CfsPlanIsNew, CfsComplete, CopyHolds,
         PlanIsComplete, ExportTaken, ExportHas, Clearing, Planning, Planned, Reading, AtEnd
<1>3. CASE clear_components \/ clear_configs
  <2>1. /\ Same /\ cfs'.options = cfs.options /\ cfs'.sources = cfs.sources
        /\ cfsLocal'.options = cfsLocal.options /\ cfsLocal'.sources = cfsLocal.sources
        /\ cfsRun.at \in Clearing /\ cfsRun'.at \in Clearing \cup {"plan_components"}
        /\ \A x \in Named : cfs'.desired[x] \in {cfs.desired[x], Unset}
        /\ \A x \in Named : \/ cfs'.desired[x] = cfs.desired[x] /\ cfsLocal'.desired[x] = cfsLocal.desired[x]
                            \/ cfsLocal'.desired[x] = Unset
        /\ \A c \in CfsConfig : cfs'.configs[c] \in {cfs.configs[c], NoConfig}
    <3>1. CASE clear_components
      BY <1>1, <3>1, ClearComponentsStep DEF SameBut, Clearing, Named
    <3>2. CASE clear_configs
      BY <1>1, <3>2, ClearConfigsStep DEF SameBut, Clearing, Named
    <3>. QED BY <1>3, <3>1, <3>2
  <2>2. cfsRun.clear /\ cfsRun'.clear /\ cfsRun.read = 0 /\ cfsRun'.read = 0
    BY <2>1 DEF CfsSafe, CfsStagesFollow, Same, Clearing, Reading
  <2>3. /\ \A x \in Named : DesiredExported(x) => DesiredExported(x)'
        /\ \A c \in CfsConfig : ConfigExported(c) => ConfigExported(c)'
        /\ \A o \in CfsOption : CfsOptionExported(o) => CfsOptionExported(o)'
        /\ \A s \in CfsSource : SourceExported(s) => SourceExported(s)'
    BY <2>1 DEF DesiredExported, ConfigExported, CfsOptionExported, SourceExported, Same
  <2>4. CfsSafe'
    BY <2>1, <2>2, <2>3 DEF CfsSafe, CfsStagesFollow, CfsPlanIsExported, CfsPlanIsNew, ExportTaken, ExportHas,
         Clearing, Planning, Reading
  <2>5. CfsComplete'
    BY <2>1, <2>2 DEF CfsComplete, CopyHolds, PlanIsComplete, Clearing, Planned, AtEnd
  <2>. QED BY <2>4, <2>5
<1>. QED BY <1>2, <1>3

LEMMA BothPlanning ==
    ASSUME CfsIInv, CfsSafe, CfsComplete, plan_components \/ plan_options \/ plan_sources,
           cfsRun'.at # "failed"
    PROVE  CfsSafe' /\ CfsComplete'
<1>1. CfsTyped /\ KnownExist
  BY DEF CfsIInv
<1>2. Same /\ UNCHANGED <<cfs, cfsLocal>> /\ cfsRun.at \in Planning
  BY <1>1, PlanComponentsStep, PlanOptionsStep, PlanSourcesStep DEF Planning
<1>3. /\ cfsRun'.read = 0 /\ cfsRun'.clear = cfsRun.clear
      /\ UNCHANGED <<cfsData, cfsVersion, cfsSnap, cfsLate, cfsTouched>>
  BY <1>2 DEF Same, CfsSafe, CfsStagesFollow, Planning, Reading
<1>4. CASE plan_components
  <2>. DEFINE configs == get_resources_to_create(cfsData.configs, cfsLocal.configs, NoConfig)
              comps == get_comps_to_update(configs)
  <2>1. /\ cfsRun.at = "plan_components" /\ cfsRun'.at = "plan_options"
        /\ cfsRun'.plan.configs = configs /\ cfsRun'.plan.components = comps
    BY <1>1, <1>4, PlanComponentsStep
  <2>2. /\ \A c \in configs : c \in CfsConfig /\ cfsLocal.configs[c] = NoConfig
        /\ \A c \in CfsConfig : cfsData.configs[c] # NoConfig =>
             cfsLocal.configs[c] # NoConfig \/ c \in configs
    BY <1>1 DEF get_resources_to_create, Names, CfsTyped, CfsContents
  <2>3. /\ \A x \in comps : x \in Named /\ cfsLocal.desired[x] = Unset
        /\ \A x \in Named : /\ cfsData.desired[x] \in Names(cfsData.configs, NoConfig)
                            /\ cfsLocal.desired[x] = Unset
                            => x \in comps
    <3>1. \A x \in CfsComponent : x \in comps <=>
            /\ cfsData.desired[x] \notin {Absent, Unset}
            /\ cfsData.desired[x] \in Names(cfsLocal.configs, NoConfig) \cup configs
            /\ cfsLocal.desired[x] = Unset
      BY DEF get_comps_to_update
    <3>2. Names(cfsData.configs, NoConfig) \subseteq Names(cfsLocal.configs, NoConfig) \cup configs
          /\ Names(cfsData.configs, NoConfig) \subseteq CfsConfig
      BY <1>1 DEF get_resources_to_create, Names, CfsTyped, CfsContents
    <3>3. comps \subseteq CfsComponent /\ EmptyId \notin comps
      <4>1. comps \subseteq CfsComponent
        BY DEF get_comps_to_update
      <4>. QED BY <1>1, <3>1, <4>1 DEF CfsTyped, Nameless
    <3>. QED BY <3>1, <3>2, <3>3, CfsAssumption DEF Named
  <2>. HIDE DEF configs, comps
  <2>4. CfsSafe'
    BY <1>2, <1>3, <2>1, <2>2, <2>3 DEF CfsSafe, CfsStagesFollow, CfsPlanIsExported, CfsPlanIsNew, ExportTaken,
         ExportHas, Clearing, Planning, Planned, Reading, FreeConfig, FreeComponent,
         DesiredExported, ConfigExported, CfsOptionExported, SourceExported
  <2>5. CopyHolds'
    BY <1>2, <2>1 DEF CfsComplete, CopyHolds, Clearing
  <2>6. PlanIsComplete'
    <3>1. \A c \in CfsConfig : cfsLocal.configs[c] # NoConfig => There(c)
      BY <1>1, <2>1 DEF KnownExist
    <3>2. \A x \in Named : cfsLocal.desired[x] \notin {Unset, Absent} => cfs.desired[x] # Unset
      BY <2>1 DEF CfsComplete, CopyHolds
    <3>. QED BY <1>2, <1>3, <2>1, <2>2, <2>3, <3>1, <3>2 DEF PlanIsComplete, There, Planned, AtEnd
  <2>. QED BY <2>4, <2>5, <2>6 DEF CfsComplete
<1>5. CASE plan_options
  <2>1. /\ cfsRun.at = "plan_options" /\ cfsRun'.at = "plan_sources"
        /\ cfsRun'.plan = [cfsRun.plan EXCEPT !.options = get_options_to_change]
    BY <1>1, <1>5, PlanOptionsStep
  <2>2. /\ cfsRun'.plan.options = get_options_to_change
        /\ cfsRun'.plan.configs = cfsRun.plan.configs
        /\ cfsRun'.plan.components = cfsRun.plan.components
    BY <1>1, <2>1 DEF CfsTyped, CfsRunRecord, CfsPlan
  <2>3. \A o \in CfsOption : OptionIsSet(o) \/ o \in get_options_to_change
    BY <2>1 DEF CfsComplete, CopyHolds, OptionIsSet, get_options_to_change
  <2>4. CfsSafe'
    BY <1>2, <1>3, <2>1, <2>2 DEF CfsSafe, CfsStagesFollow, CfsPlanIsExported, CfsPlanIsNew, ExportTaken,
         ExportHas, Clearing, Planning, Planned, Reading, FreeConfig, FreeComponent,
         DesiredExported, ConfigExported, CfsOptionExported, SourceExported
  <2>5. CfsComplete'
    BY <1>2, <1>3, <2>1, <2>2, <2>3 DEF CfsComplete, CopyHolds, PlanIsComplete, There, OptionIsSet, Clearing,
         Planned, AtEnd
  <2>. QED BY <2>4, <2>5
<1>6. CASE plan_sources
  <2>1. /\ cfsRun.at = "plan_sources"
        /\ cfsRun'.plan = [cfsRun.plan EXCEPT !.sources = SourcesToRestore]
        /\ \/ cfsRun'.at = "done" /\ cfsRun'.plan = NoPlan
           \/ cfsRun'.at = IF cfsRun.clear THEN "options_v2" ELSE "snapshot"
    BY <1>1, <1>6, PlanSourcesStep
  <2>2. /\ cfsRun'.plan.sources = SourcesToRestore
        /\ cfsRun'.plan.configs = cfsRun.plan.configs
        /\ cfsRun'.plan.components = cfsRun.plan.components
        /\ cfsRun'.plan.options = cfsRun.plan.options
        /\ cfsRun'.plan = NoPlan => /\ cfsRun'.plan.sources = {} /\ cfsRun'.plan.configs = {}
                                    /\ cfsRun'.plan.components = {} /\ cfsRun'.plan.options = {}
    BY <1>1, <2>1 DEF CfsTyped, CfsRunRecord, CfsPlan, NoPlan
  <2>3. /\ \A s \in SourcesToRestore : s \in CfsSource /\ cfsData.sources[s] # Absent
        /\ restore_source_supported(cfsVersion) =>
             \A s \in CfsSource : cfsData.sources[s] # Absent =>
                cfs.sources[s] # Absent \/ s \in SourcesToRestore
    BY <1>1, <2>1 DEF SourcesToRestore, get_resources_to_create, Names, CfsComplete, CopyHolds, CfsTyped,
         CfsContents
  <2>4. CfsSafe'
    BY <1>2, <1>3, <2>1, <2>2 DEF CfsSafe, CfsStagesFollow, CfsPlanIsExported, CfsPlanIsNew, ExportTaken,
         ExportHas, Clearing, Planning, Planned, Reading, FreeConfig, FreeComponent,
         DesiredExported, ConfigExported, CfsOptionExported, SourceExported
  <2>5. CfsComplete'
    BY <1>2, <1>3, <2>1, <2>2, <2>3 DEF CfsComplete, CopyHolds, PlanIsComplete, There, OptionIsSet, Clearing,
         Planned, AtEnd
  <2>. QED BY <2>4, <2>5
<1>. QED BY <1>4, <1>5, <1>6

LEMMA BothWriting ==
    ASSUME CfsIInv, CfsSafe, CfsComplete,
           change_options \/ restore_sources \/ create_configs \/ update_components,
           cfsRun'.at # "failed"
    PROVE  CfsSafe' /\ CfsComplete'
<1>1. CfsTyped /\ cfsRun.plan \in CfsPlan
  BY DEF CfsIInv, CfsTyped, CfsRunRecord
<1>2. /\ cfsRun.at \in {"options_v2", "options_v3", "sources", "configs", "components"}
      /\ cfsRun.read = 0 /\ cfsLocal' = cfsLocal /\ Same
  BY <1>1, OptionsStep, SourcesStep, ConfigsStep, ComponentsStep DEF CfsSafe, CfsStagesFollow, Reading
<1>3. /\ cfsRun'.read = 0 /\ cfsRun'.clear = cfsRun.clear
      /\ UNCHANGED <<cfsData, cfsVersion, cfsSnap, cfsLate, cfsTouched>>
  BY <1>2 DEF Same
<1>4. /\ cfsRun.plan.components \subseteq Named /\ cfsRun.plan.configs \subseteq CfsConfig
      /\ cfsRun.plan.sources \subseteq CfsSource /\ Named \subseteq CfsComponent
  BY <1>1 DEF CfsPlan, Named
<1>. USE DEF CfsComplete, CfsSafe, CfsStagesFollow, CfsPlanIsExported, CfsPlanIsNew, ExportTaken, ExportHas,
             Clearing, Planning, Planned, Reading, AtEnd
<1>5. CASE change_options
  <2>1. /\ cfs'.desired = cfs.desired /\ cfs'.configs = cfs.configs /\ cfs'.sources = cfs.sources
        /\ cfsRun'.plan = cfsRun.plan
        /\ \/ cfsRun.at = "options_v2" /\ cfsRun'.at = "options_v3"
           \/ cfsRun.at = "options_v3" /\ cfsRun'.at = "sources"
    BY <1>1, <1>5, OptionsStep DEF SameBut
  <2>2. \A o \in CfsOption :
          \/ cfs'.options[o] = cfs.options[o]
             /\ \/ o \notin cfsRun.plan.options
                \/ o = ReadOnlyInV3 /\ cfsRun.at = "options_v3"
                \/ o # ReadOnlyInV3 /\ cfsRun.at = "options_v2"
          \/ /\ cfs'.options[o] = cfsData.options[o]
             /\ o = ReadOnlyInV3 <=> cfsRun.at = "options_v2"
    BY <1>1, <1>5, OptionsStep
  <2>3. CfsSafe'
    BY <1>2, <1>3, <1>4, <2>1, <2>2 DEF DesiredExported, ConfigExported, CfsOptionExported, SourceExported,
         FreeConfig, FreeComponent
  <2>4. CopyHolds'
    BY <1>2, <1>3, <2>1 DEF CopyHolds
  <2>5. \A o \in CfsOption :
          \/ OptionIsSet(o)'
          \/ o \in cfsRun.plan.options /\ cfsRun.at = "options_v2" /\ o # ReadOnlyInV3
    BY <1>2, <1>3, <2>1, <2>2 DEF PlanIsComplete, There, OptionIsSet
  <2>6. PlanIsComplete'
    BY <1>2, <1>3, <2>1, <2>5 DEF PlanIsComplete, There
  <2>. QED BY <2>3, <2>4, <2>6
<1>6. CASE restore_sources
  <2>1. /\ cfs'.desired = cfs.desired /\ cfs'.configs = cfs.configs /\ cfs'.options = cfs.options
        /\ cfsRun.at = "sources" /\ cfsRun'.at \in {"sources", "configs"}
        /\ cfsRun'.at = "configs" => cfsRun.plan.sources = {}
    BY <1>1, <1>6, SourcesStep DEF SameBut
  <2>2. PICK sources \in SUBSET cfsRun.plan.sources :
          /\ cfsRun'.plan = [cfsRun.plan EXCEPT !.sources = sources]
          /\ \A s \in CfsSource :
               \/ cfs'.sources[s] = cfs.sources[s] /\ (s \in sources \/ s \notin cfsRun.plan.sources)
               \/ s \in cfsRun.plan.sources \ sources /\ cfs'.sources[s] = cfsData.sources[s]
    BY <1>1, <1>6, SourcesStep
  <2>3. /\ cfsRun'.plan.sources = sources /\ cfsRun'.plan.configs = cfsRun.plan.configs
        /\ cfsRun'.plan.components = cfsRun.plan.components
    BY <1>1, <2>2 DEF CfsPlan
  <2>4. \A s \in cfsRun.plan.sources : cfsData.sources[s] # Absent
    BY <2>1 DEF PlanIsComplete
  <2>5. \A s \in CfsSource : cfs.sources[s] # Absent => cfs'.sources[s] # Absent
    BY <2>2, <2>4
  <2>6. \A s \in sources : s \in CfsSource /\ (SourceExported(s) => SourceExported(s)')
    BY <1>3, <1>4, <2>2 DEF SourceExported
  <2>7. CfsSafe'
    BY <1>2, <1>3, <1>4, <2>1, <2>2, <2>3, <2>6 DEF DesiredExported, ConfigExported, FreeConfig, FreeComponent
  <2>8. CopyHolds'
    BY <1>2, <1>3, <2>1, <2>5 DEF CopyHolds
  <2>9. PlanIsComplete'
    BY <1>2, <1>3, <2>1, <2>2, <2>3, <2>4, <2>5 DEF PlanIsComplete, There, OptionIsSet
  <2>. QED BY <2>7, <2>8, <2>9
<1>7. CASE create_configs
  <2>1. /\ cfs'.desired = cfs.desired /\ cfs'.options = cfs.options /\ cfs'.sources = cfs.sources
        /\ cfsRun.at = "configs" /\ cfsRun'.at \in {"configs", "components"}
        /\ cfsRun'.at = "components" => cfsRun.plan.configs = {}
    BY <1>7, ConfigsStep DEF SameBut
  <2>2. PICK configs \in SUBSET cfsRun.plan.configs :
          /\ cfsRun'.plan = [cfsRun.plan EXCEPT !.configs = configs]
          /\ \A c \in CfsConfig :
               \/ cfs'.configs[c] = cfs.configs[c] /\ (c \in configs \/ c \notin cfsRun.plan.configs)
               \/ c \in cfsRun.plan.configs \ configs /\ cfs'.configs[c] # NoConfig
    BY <1>7, ConfigsStep
  <2>3. /\ cfsRun'.plan.sources = cfsRun.plan.sources /\ cfsRun'.plan.configs = configs
        /\ cfsRun'.plan.components = cfsRun.plan.components
    BY <1>1, <2>2 DEF CfsPlan
  <2>4. \A c \in configs : /\ c \in CfsConfig /\ c \in cfsRun.plan.configs
                           /\ ConfigExported(c) => ConfigExported(c)'
                           /\ FreeConfig(c) => FreeConfig(c)'
    BY <1>3, <1>4, <2>2 DEF ConfigExported, FreeConfig
  <2>5. CfsSafe'
    BY <1>2, <1>3, <1>4, <2>1, <2>2, <2>3, <2>4 DEF DesiredExported, FreeComponent
  <2>6. CopyHolds'
    BY <1>2, <1>3, <2>1 DEF CopyHolds
  <2>7. PlanIsComplete'
    BY <1>2, <1>3, <2>1, <2>2, <2>3 DEF PlanIsComplete, There, OptionIsSet
  <2>. QED BY <2>5, <2>6, <2>7
<1>8. CASE update_components
  <2>1. /\ cfs'.configs = cfs.configs /\ cfs'.options = cfs.options /\ cfs'.sources = cfs.sources
        /\ cfsRun.at = "components" /\ cfsRun'.at \in {"components", "snapshot_after"}
        /\ cfsRun'.at = "snapshot_after" => cfsRun.plan.components = {}
    BY <1>1, <1>8, ComponentsStep DEF SameBut
  <2>2. PICK components \in SUBSET cfsRun.plan.components :
          /\ cfsRun'.plan = [cfsRun.plan EXCEPT !.components = components]
          /\ \A x \in CfsComponent :
               \/ cfs'.desired[x] = cfs.desired[x] /\ (x \in components \/ x \notin cfsRun.plan.components)
               \/ x \in cfsRun.plan.components \ components /\ cfs'.desired[x] \in CfsConfig \cup {Absent}
    BY <1>1, <1>8, ComponentsStep
  <2>3. /\ cfsRun'.plan.sources = cfsRun.plan.sources /\ cfsRun'.plan.configs = cfsRun.plan.configs
        /\ cfsRun'.plan.components = components
    BY <1>1, <2>2 DEF CfsPlan
  <2>4. \A x \in components : /\ x \in Named /\ x \in cfsRun.plan.components
                              /\ DesiredExported(x) => DesiredExported(x)'
                              /\ FreeComponent(x) => FreeComponent(x)'
    BY <1>3, <1>4, <2>2 DEF DesiredExported, FreeComponent
  <2>5. \A x \in Named : \/ cfs'.desired[x] = cfs.desired[x] /\ (x \in components \/ x \notin cfsRun.plan.components)
                         \/ cfs'.desired[x] # Unset
    BY <1>4, <2>2, CfsAssumption DEF Unset, Absent
  <2>6. CfsSafe'
    BY <1>2, <1>3, <1>4, <2>1, <2>3, <2>4 DEF FreeConfig
  <2>7. CopyHolds'
    BY <1>2, <1>3, <2>1, <2>5 DEF CopyHolds
  <2>8. cfsRun.plan.configs = {}
    BY <2>1 DEF CfsIInv, PlanIsSound
  <2>9. PlanIsComplete'
    BY <1>2, <1>3, <2>1, <2>2, <2>3, <2>5, <2>8 DEF PlanIsComplete, There, OptionIsSet
  <2>. QED BY <2>6, <2>7, <2>9
<1>. QED BY <1>5, <1>6, <1>7, <1>8

LEMMA CfsBothNext == CfsBoth /\ [CfsNext]_cfsVars => CfsBoth'
<1>. SUFFICES ASSUME CfsBoth, [CfsNext]_cfsVars PROVE CfsBoth'
  OBVIOUS
<1>1. CfsIInv /\ CfsIInv' /\ CfsTyped /\ CfsSafe /\ CfsComplete
  BY CfsIInvNext DEF CfsBoth, CfsIInv
<1>2. CASE UNCHANGED cfsVars
  <2>. USE <1>2 DEF cfsVars
  <2>1. CfsSafe'
    BY <1>1 DEF CfsSafe, CfsStagesFollow, CfsPlanIsExported, CfsPlanIsNew, ExportTaken, ExportHas, DesiredExported,
                ConfigExported, CfsOptionExported, SourceExported, FreeConfig, FreeComponent
  <2>2. CfsComplete'
    BY <1>1 DEF CfsComplete, CopyHolds, PlanIsComplete, There, OptionIsSet
  <2>. QED BY <1>1, <2>1, <2>2 DEF CfsBoth
<1>3. CASE CfsScript
  <2>1. CASE load_cfs_data \/ snapshot_cfs_data
    BY <1>1, <2>1, BothReading DEF CfsBoth
  <2>2. CASE ~(load_cfs_data \/ snapshot_cfs_data)
    <3>1. Same /\ cfsRun.at \notin Reading
      BY <1>1, <1>3, <2>2, CfsCheckStep, ClearComponentsStep, ClearConfigsStep, PlanComponentsStep,
         PlanOptionsStep, PlanSourcesStep, OptionsStep, SourcesStep, ConfigsStep, ComponentsStep
         DEF CfsScript, Reading
    <3>2. CASE cfsRun'.at = "failed"
      BY <1>1, <3>1, <3>2, FailIsBoth DEF CfsBoth
    <3>3. CASE cfsRun'.at # "failed"
      BY <1>1, <1>3, <2>2, <3>3, BothClearing, BothPlanning, BothWriting DEF CfsScript, CfsBoth
    <3>. QED BY <3>2, <3>3
  <2>. QED BY <2>1, <2>2
<1>4. CASE CfsUsers
  BY <1>1, <1>4, BothUsers DEF CfsBoth
<1>5. ASSUME NEW clear \in BOOLEAN, NEW ignore \in BOOLEAN, StartImport(clear, ignore)
      PROVE  CfsBoth'
  BY <1>1, <1>5, BothStart DEF CfsBoth
<1>. QED BY <1>2, <1>3, <1>4, <1>5 DEF CfsNext

\* What a step of the script may change, by where the run is.
LEMMA CfsScriptChanges ==
    ASSUME CfsIInv, CfsScript
    PROVE  /\ \A x \in CfsComponent : \/ cfs'.desired[x] = cfs.desired[x]
                                      \/ cfsRun.at = "clear_components" /\ x # EmptyId
                                      \/ cfsRun.at = "components" /\ x \in cfsRun.plan.components
           /\ \A c \in CfsConfig : \/ cfs'.configs[c] = cfs.configs[c]
                                   \/ cfsRun.at = "clear_configs"
                                   \/ cfsRun.at = "configs" /\ c \in cfsRun.plan.configs
           /\ \A o \in CfsOption : \/ cfs'.options[o] = cfs.options[o]
                                   \/ cfsRun.at = "options_v2"
                                   \/ cfsRun.at = "options_v3" /\ o # ReadOnlyInV3
           /\ \A s \in CfsSource : \/ cfs'.sources[s] = cfs.sources[s]
                                   \/ cfsRun.at = "sources" /\ s \in cfsRun.plan.sources
<1>1. CfsTyped
  BY DEF CfsIInv
<1>2. CASE clear_components
  BY <1>1, <1>2, ClearComponentsStep DEF SameBut
<1>3. CASE clear_configs
  BY <1>1, <1>3, ClearConfigsStep DEF SameBut
<1>4. CASE change_options
  BY <1>1, <1>4, OptionsStep DEF SameBut
<1>5. CASE restore_sources
  BY <1>1, <1>5, SourcesStep DEF SameBut
<1>6. CASE create_configs
  BY <1>6, ConfigsStep DEF SameBut
<1>7. CASE update_components
  BY <1>1, <1>7, ComponentsStep DEF SameBut
<1>8. CASE \/ load_cfs_data \/ snapshot_cfs_data \/ check_before_clear
           \/ plan_components \/ plan_options \/ plan_sources
  <2>1. cfs' = cfs
    BY <1>1, <1>8, ReadStep, CfsCheckStep, PlanComponentsStep, PlanOptionsStep, PlanSourcesStep
  <2>. QED BY <2>1
<1>. QED BY <1>2, <1>3, <1>4, <1>5, <1>6, <1>7, <1>8 DEF CfsScript

\* Whatever a run clears or replaces in CFS is in the export that it took before,
\* unless a user changed it after the export.
THEOREM RemovedWasExported == CfsSpec => RemovedIsExported
<1>1. CfsBoth /\ [CfsNext]_cfsVars =>
        [CfsScript => Gone("desired", Unset) /\ Gone("configs", NoConfig)
                      /\ Gone("options", Absent) /\ Gone("sources", Absent)]_cfsVars
  <2>. SUFFICES ASSUME CfsBoth, CfsScript
                PROVE  Gone("desired", Unset) /\ Gone("configs", NoConfig)
                       /\ Gone("options", Absent) /\ Gone("sources", Absent)
    OBVIOUS
  <2>1. cfs \in CfsContents /\ cfsRun.plan \in CfsPlan /\ CfsIInv /\ CfsPlanIsExported
    BY DEF CfsBoth, CfsSafe, CfsIInv, CfsTyped, CfsRunRecord
  <2>2. Gone("desired", Unset)
    <3>1. \A x \in CfsComponent : cfs'.desired[x] # cfs.desired[x] => DesiredExported(x)
      BY <2>1, CfsScriptChanges DEF CfsPlanIsExported, ExportTaken, Clearing, Named
    <3>. QED BY <2>1, <3>1 DEF Gone, DesiredExported, CfsContents
  <2>3. Gone("configs", NoConfig)
    <3>1. \A c \in CfsConfig : cfs'.configs[c] # cfs.configs[c] => ConfigExported(c)
      BY <2>1, CfsScriptChanges DEF CfsPlanIsExported, ExportTaken, Clearing
    <3>. QED BY <2>1, <3>1 DEF Gone, ConfigExported, CfsContents
  <2>4. Gone("options", Absent)
    <3>1. \A o \in CfsOption : cfs'.options[o] # cfs.options[o] => CfsOptionExported(o)
      BY <2>1, CfsScriptChanges DEF CfsPlanIsExported, ExportTaken
    <3>. QED BY <2>1, <3>1 DEF Gone, CfsOptionExported, CfsContents
  <2>5. Gone("sources", Absent)
    <3>1. \A s \in CfsSource : cfs'.sources[s] # cfs.sources[s] => SourceExported(s)
      BY <2>1, CfsScriptChanges DEF CfsPlanIsExported
    <3>. QED BY <2>1, <3>1 DEF Gone, SourceExported, CfsContents
  <2>. QED BY <2>2, <2>3, <2>4, <2>5
<1>2. CfsInit => CfsBoth
  BY CfsIInvInit, CfsBothInit DEF CfsBoth
<1>. QED BY <1>1, <1>2, CfsBothNext, PTL DEF CfsSpec, RemovedIsExported

\* Without --clear-cfs, configurations and desired configurations that were there when
\* the run read CFS stay as they are.
THEOREM ExistingDoesStay == CfsSpec => ExistingIsKept
<1>1. CfsBoth /\ [CfsNext]_cfsVars =>
        [CfsScript /\ ~cfsRun.clear =>
            /\ \A c \in CfsConfig : cfs.configs[c] # NoConfig =>
                 cfs'.configs[c] = cfs.configs[c] \/ <<"configs", c>> \in cfsTouched
            /\ \A x \in CfsComponent : cfs.desired[x] \notin {Unset, Absent} =>
                 cfs'.desired[x] = cfs.desired[x] \/ <<"desired", x>> \in cfsTouched]_cfsVars
  <2>. SUFFICES ASSUME CfsBoth, CfsScript, ~cfsRun.clear
                PROVE  /\ \A c \in CfsConfig : cfs.configs[c] # NoConfig =>
                            cfs'.configs[c] = cfs.configs[c] \/ <<"configs", c>> \in cfsTouched
                       /\ \A x \in CfsComponent : cfs.desired[x] \notin {Unset, Absent} =>
                            cfs'.desired[x] = cfs.desired[x] \/ <<"desired", x>> \in cfsTouched
    OBVIOUS
  <2>1. CfsIInv /\ cfsRun.at \notin Clearing /\ CfsPlanIsNew
    BY DEF CfsBoth, CfsSafe, CfsStagesFollow
  <2>. QED BY <2>1, CfsScriptChanges DEF CfsPlanIsNew, Planned, Clearing, FreeConfig, FreeComponent
<1>2. CfsInit => CfsBoth
  BY CfsIInvInit, CfsBothInit DEF CfsBoth
<1>. QED BY <1>1, <1>2, CfsBothNext, PTL DEF CfsSpec, ExistingIsKept

\* After a run that succeeds every configuration, source and option of the export is in
\* CFS, and every component that is to have a configuration of the export has one.
THEOREM ImportsAreWhole == CfsSpec => []ImportIsComplete
<1>1. CfsBoth => ImportIsComplete
  <2>. SUFFICES ASSUME CfsBoth, cfsRun.at = "done" PROVE ImportIsComplete
    BY DEF ImportIsComplete
  <2>1. PlanIsComplete /\ CfsTyped
    BY DEF CfsBoth, CfsComplete, CfsIInv
  <2>2. \A c \in Names(cfsData.configs, NoConfig) :
          cfs.configs[c] # NoConfig \/ <<"configs", c>> \in cfsTouched
    BY <2>1 DEF PlanIsComplete, There, Planned, AtEnd, Names, CfsTyped, CfsContents
  <2>3. restore_source_supported(cfsVersion) =>
          \A s \in Names(cfsData.sources, Absent) : cfs.sources[s] # Absent
    BY <2>1 DEF PlanIsComplete, Planned, AtEnd, Names, CfsTyped, CfsContents
  <2>4. \A o \in Names(cfsData.options, Absent) : cfs.options[o] = cfsData.options[o]
    BY <2>1 DEF PlanIsComplete, Planned, AtEnd, Names, CfsTyped, CfsContents, OptionIsSet
  <2>5. \A x \in CfsComponent \ {EmptyId} :
          /\ cfsData.desired[x] \in Names(cfsData.configs, NoConfig)
          /\ cfsLocal.desired[x] # Absent
          => cfs.desired[x] # Unset
    BY <2>1 DEF PlanIsComplete, Planned, AtEnd, Named
  <2>. QED BY <2>2, <2>3, <2>4, <2>5 DEF ImportIsComplete
<1>2. CfsInit => CfsBoth
  BY CfsIInvInit, CfsBothInit DEF CfsBoth
<1>. QED BY <1>1, <1>2, CfsBothNext, PTL DEF CfsSpec

=============================================================================
