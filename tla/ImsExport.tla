------------------------------ MODULE ImsExport ------------------------------
(***************************************************************************)
(* Exporting IMS data with the artifacts that it, BOS, BSS and the product *)
(* catalog link to: scripts/operations/configuration/export_ims_data.py    *)
(* and python_lib/ims_import_export.                                       *)
(*                                                                         *)
(* Abstractions: records are their links; all artifacts are in one bucket; *)
(* the JSON data has a fixed size.  Parallel downloads are taken one at a  *)
(* time, in any order: S3TransferPool has the threads.                     *)
(***************************************************************************)
EXTENDS Naturals, FiniteSets, FiniteSetsExt

CONSTANTS
    Url, ManifestName,  \* URLs, and those that end in "manifest.json"
    ManifestLinks,      \* [Url -> SUBSET Url]: what an artifact names, read as a manifest
    Basename,           \* [Url -> name]: its key, without what is odd in a file name
    LinkSystems,        \* [images, recipes, deletedImages, deletedRecipes, bos, bss, catalog, size]
    FreeBytes,          \* what may be free in the file system of the export
    JsonBytes, Headroom,
    MaxUrlEdits

\* Artifacts are in a directory of their own, beside the JSON data.
ASSUME ExportAssumption ==
    /\ IsFiniteSet(Url) /\ "" \notin Url /\ ManifestName \subseteq Url
    /\ ManifestLinks \in [Url -> SUBSET Url]
    /\ \A u \in Url : Basename[u] # "exported-data.json"
    /\ LinkSystems \subseteq
         [images : SUBSET Url, recipes : SUBSET Url, deletedImages : SUBSET Url,
          deletedRecipes : SUBSET Url, bos : SUBSET Url, bss : SUBSET Url,
          catalog : SUBSET Url, size : [Url -> Nat]]
    /\ FreeBytes \subseteq Nat
    /\ JsonBytes \in Nat /\ Headroom \in Nat /\ MaxUrlEdits \in Nat

VARIABLES
    linked,     \* the links, as in LinkSystems
    size,       \* S3: the size of each artifact, 0 when there is none
    export,     \* the run
    files,      \* the output directory: <<name, URL of the contents, bytes>>
    archive,    \* the tar archive, the same
    disk,       \* the size of the file system
    urlEdits

exportVars == <<linked, size, export, files, archive, disk, urlEdits>>

ExportPlaces == {"idle", "bos", "bss", "catalog", "plan", "manifests", "estimate", "download",
                 "json", "tar", "done", "failed"}

\* images and recipes are URLs, todo those to download or to archive; estimates are
\* the additional and the total required space; edited: was S3 changed since it
\* was listed, or has a file more bytes than were listed?
NewExport == [at |-> "idle", artifacts |-> TRUE, tar |-> TRUE, links |-> {}, images |-> {},
              recipes |-> {}, todo |-> {}, relpath |-> <<>>, estimates |-> <<0, 0>>,
              edited |-> FALSE, why |-> "nothing"]

ExportTypeOK ==
    /\ export.at \in ExportPlaces
    /\ export.images \cup export.recipes \cup export.links \subseteq Url
    /\ export.todo \subseteq DOMAIN export.relpath
    /\ export.at \in {"json", "tar", "done"} /\ export.artifacts =>
         export.images \cup export.recipes \subseteq DOMAIN export.relpath
    /\ \A f \in files \cup archive : f[2] \in Url \cup {"data"} /\ f[3] \in Nat
    /\ \A f, g \in files : f[1] = g[1] => f = g
    /\ export.why \in {"nothing", "gone", "unlisted", "no room", "disk full", "file lost"}
    /\ urlEdits \in 0..MaxUrlEdits

ExportInit ==
    /\ \E sys \in LinkSystems :
        /\ linked = [x \in DOMAIN sys \ {"size"} |-> sys[x]]
        /\ size = sys.size
    /\ export = NewExport
    /\ files = {} /\ archive = {}
    /\ disk \in FreeBytes
    /\ urlEdits = 0

-----------------------------------------------------------------------------
(* Helpers.                                                                *)

ExportGo(p) == [export EXCEPT !.at = p]
ExportFail(why) == [export EXCEPT !.at = "failed", !.why = why]
ExportOnly(next) ==
    export' = next /\ UNCHANGED <<linked, size, files, archive, disk, urlEdits>>

Bytes(fs) == MapThenSumSet(LAMBDA f : f[3], fs)
Free == disk - (Bytes(files) + Bytes(archive))

DataFile == <<"exported-data.json", "">>

\* A file is written, in place of one of that name; it may not fit.
WriteFile(name, contents, bytes, next) ==
    LET others == {f \in files : f[1] # name}
    IN  IF Bytes(others) + Bytes(archive) + bytes > disk THEN ExportOnly(ExportFail("disk full"))
        ELSE /\ files' = others \cup {<<name, contents, bytes>>}
             /\ export' = next
             /\ UNCHANGED <<linked, size, archive, disk, urlEdits>>

-----------------------------------------------------------------------------
(* Links.                                                                  *)

StartExport(artifacts, tar, deleted) ==
    /\ export.at = "idle"
    /\ ExportOnly([export EXCEPT
           !.at = IF artifacts THEN "bos" ELSE "json", !.artifacts = artifacts,
           !.tar = artifacts /\ tar,
           !.images = linked.images \cup (IF deleted THEN linked.deletedImages ELSE {}),
           !.recipes = linked.recipes \cup (IF deleted THEN linked.deletedRecipes ELSE {})])

strip_nonexistent_artifacts(urls) == {u \in urls : size[u] > 0}

\* Links of BOS templates, BSS boot parameters and the product catalog, unless an
\* option excludes them.
get_all_s3_links ==
    /\ export.at \in {"bos", "bss", "catalog"}
    /\ \E excluded \in BOOLEAN :
        ExportOnly([export EXCEPT
            !.at = CASE @ = "bos" -> "bss" [] @ = "bss" -> "catalog" [] OTHER -> "plan",
            !.links = @ \cup IF excluded THEN {}
                             ELSE strip_nonexistent_artifacts(linked[export.at])])

-----------------------------------------------------------------------------
(* Artifacts.                                                              *)

\* Mutant: the name is that of the key.
NameOfKey(u) == <<Basename[u], "">>

\* Another name is chosen when there is such a file.
generate_artifact_local_path(u) ==
    <<Basename[u], IF \E f \in files : f[1] = <<Basename[u], "">> THEN u ELSE "">>

ToDownload(next, urls) ==
    [next EXCEPT !.todo = urls,
        !.relpath = [u \in urls \cup DOMAIN next.relpath |->
                        IF u \in urls THEN generate_artifact_local_path(u) ELSE next.relpath[u]]]

\* Links with another ending count as those of recipes.
get_image_recipe_s3_urls ==
    [export EXCEPT !.images = @ \cup (export.links \cap ManifestName),
                   !.recipes = @ \cup (export.links \ ManifestName)]

plan_manifests ==
    /\ export.at = "plan"
    /\ LET next == get_image_recipe_s3_urls
       IN  ExportOnly(ToDownload([next EXCEPT !.at = "manifests"], next.images))

\* A download, and the description of what was downloaded.
download ==
    /\ export.at \in {"manifests", "download"}
    /\ \/ /\ export.todo = {}
          /\ ExportOnly(ExportGo(IF export.at = "manifests" THEN "estimate" ELSE "json"))
       \/ \E u \in export.todo :
            IF size[u] = 0 THEN ExportOnly(ExportFail("gone"))
            ELSE WriteFile(export.relpath[u], u, size[u], [export EXCEPT !.todo = @ \ {u}])

get_child_urls_from_manifests == UNION {ManifestLinks[u] : u \in export.images}
undownloaded_s3_urls ==
    (export.recipes \cup get_child_urls_from_manifests) \ export.images

\* Additional and total space, by the listing of the buckets at that time.
estimate_required_space ==
    LET fs(urls) == {<<u, u, size[u]>> : u \in urls}
        all == fs(undownloaded_s3_urls \cup export.images)
        archived == IF export.tar THEN Max({JsonBytes} \cup {f[3] : f \in all}) ELSE 0
        base == JsonBytes + archived + Headroom
    IN  <<base + Bytes(fs(undownloaded_s3_urls)), base + Bytes(all)>>

\* Something was replaced by a smaller artifact after its download.
Outgrown == \E f \in files : f[3] > size[f[2]]

\* Artifacts that are not in the listing of the bucket: S3ArtifactNotFound.
Unlisted(urls) == {u \in urls : size[u] = 0}

verify_free_space ==
    /\ export.at = "estimate"
    /\ LET next == [ExportGo("download") EXCEPT !.estimates = estimate_required_space,
                                                !.edited = Outgrown]
       IN  ExportOnly(
             IF Unlisted(undownloaded_s3_urls \cup export.images) # {} THEN ExportFail("unlisted")
             ELSE IF Free < estimate_required_space[1] THEN ExportFail("no room")
             ELSE ToDownload(next, undownloaded_s3_urls))

-----------------------------------------------------------------------------
(* Writing.                                                                *)

write_exported_data ==
    /\ export.at = "json"
    /\ WriteFile(DataFile, "data", JsonBytes,
                 IF export.tar THEN [ExportGo("tar") EXCEPT !.todo = DOMAIN export.relpath]
                 ELSE ExportGo("done"))

\* File after file is added to the archive, then deleted: for a moment it is there
\* twice.  The data come last.
Archived(name, next) ==
    IF ~ \E f \in files : f[1] = name THEN ExportOnly(ExportFail("file lost"))
    ELSE \E f \in files :
        /\ f[1] = name
        /\ IF Free < f[3] THEN ExportOnly(ExportFail("disk full"))
           ELSE /\ archive' = archive \cup {f}
                /\ files' = files \ {f}
                /\ export' = next
                /\ UNCHANGED <<linked, size, disk, urlEdits>>

write_tarfile ==
    /\ export.at = "tar"
    /\ IF export.todo = {} THEN Archived(DataFile, ExportGo("done"))
       ELSE \E u \in export.todo :
                Archived(export.relpath[u], [export EXCEPT !.todo = @ \ {u}])

do_export ==
    \/ get_all_s3_links \/ plan_manifests \/ download \/ verify_free_space
    \/ write_exported_data \/ write_tarfile

\* External: an artifact is created, replaced by a larger one, or deleted.
UrlEdited(u) ==
    /\ urlEdits < MaxUrlEdits /\ export.at \notin {"idle", "done", "failed"}
    /\ urlEdits' = urlEdits + 1
    /\ \E bytes \in {0, size[u] + 1} : size' = [size EXCEPT ![u] = bytes]
    /\ export' = [export EXCEPT !.edited = TRUE]
    /\ UNCHANGED <<linked, files, archive, disk>>

ExportNext ==
    \/ \E artifacts, tar, deleted \in BOOLEAN : StartExport(artifacts, tar, deleted)
    \/ do_export
    \/ \E u \in Url : UrlEdited(u)

ExportSpec == ExportInit /\ [][ExportNext]_exportVars

-----------------------------------------------------------------------------
(* Properties.                                                             *)

Kept == files \cup archive

\* What an import of the export will want (ExportedData.all_s3_urls): links of
\* images and recipes that are not deleted, the other links, and what they name.
WantedByImport ==
    LET images == linked.images \cup export.links
    IN  linked.recipes \cup images \cup UNION {ManifestLinks[u] : u \in images \cap export.images}

\* An export that reports success can be imported: for every artifact the import
\* looks for, it has a file, and this is the file of that artifact.
ExportCanBeImported ==
    export.at = "done" /\ export.artifacts =>
        \A u \in WantedByImport :
            /\ u \in DOMAIN export.relpath
            /\ \E f \in Kept : f[1] = export.relpath[u] /\ f[2] = u

\* The space an export needs at any time, a tar archive and the directory it is
\* made from included, is not more than was found to be free and was estimated.
SpaceSuffices ==
    export.estimates # <<0, 0>> /\ ~export.edited =>
        /\ export.why # "disk full"
        /\ Bytes(Kept) <= export.estimates[2]
=============================================================================
