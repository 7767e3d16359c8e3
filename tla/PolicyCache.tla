----------------------------- MODULE PolicyCache ----------------------------
(***************************************************************************)
(* The policy cache: policy/cache.py.                                      *)
(*                                                                         *)
(* In memory, a map from names to compiled snapshots, the name of the      *)
(* primary and the time of the last success.  On disk, two layouts: the    *)
(* legacy policy.json with the one policy of the single-policy mode, and   *)
(* manifest.json with a file per policy.  A policy is a name and the       *)
(* revision of the control plane's catalog it was published in; files also *)
(* carry their mtime.  A file or a manifest that cannot be parsed is       *)
(* skipped by the loader exactly as an absent one is, so it is modelled as *)
(* absent.  Each file is written to a temporary and renamed, so a write is *)
(* one step; a persist is several, and the process may die between them.   *)
(***************************************************************************)
EXTENDS Integers, FiniteSets

CONSTANTS
    Names,      \* policy names
    None        \* Python's None

VARIABLES
    snaps,          \* _snapshots, as a set of [name, rev]
    primary,        \* _primary_name
    lastSuccess,    \* _last_success_at, or Never
    legacy,         \* policy.json: None or [name, rev, mtime]
    files,          \* policies/*.json: a set of [name, rev, mtime]
    manifest        \* manifest.json: None or a Manifest

memory == <<snaps, primary, lastSuccess>>
disk   == <<legacy, files, manifest>>

Never == -1

Policy == [name : Names, rev : Nat]
File   == [name : Names, rev : Nat, mtime : Nat]
Manifest == [names : SUBSET Names, primary : Names \cup {None}]

ASSUME NoneAssumption == None \notin Names /\ None \notin File /\ None \notin Manifest

NamesOf(S) == {p.name : p \in S}

CacheTypeOK ==
    /\ snaps \subseteq Policy
    /\ primary \in Names \cup {None}
    /\ lastSuccess \in Nat \cup {Never}
    /\ legacy \in File \cup {None}
    /\ files \subseteq File
    /\ \A f, g \in files : f.name = g.name => f = g
    /\ manifest \in Manifest \cup {None}

(* A cache just constructed.                                               *)
EmptyMemory == [snaps |-> {}, primary |-> None, last |-> Never]

MemoryIs(m) ==
    /\ snaps' = m.snaps
    /\ primary' = m.primary
    /\ lastSuccess' = m.last

-----------------------------------------------------------------------------
(* _load_manifest and _load_legacy, as the memory they would leave.        *)
Snapshot(f) == [name |-> f.name, rev |-> f.rev]

Newest(S) == CHOOSE m \in {f.mtime : f \in S} : \A f \in S : f.mtime <= m

(* A file that is not there, or that does not parse, is passed over; one   *)
(* that raises anything else ends the load.                                *)
ListedFiles ==
    IF manifest = None THEN {} ELSE {f \in files : f.name \in manifest.names}

(* Mutant of PrimaryIfLoaded: the manifest's word is taken for it.         *)
PrimaryAsListed == manifest.primary

(* The primary of the manifest, unless its file could not be loaded.       *)
PrimaryIfLoaded ==
    IF manifest.primary \in NamesOf(ListedFiles) THEN manifest.primary ELSE None

ManifestImage ==
    [snaps   |-> {Snapshot(f) : f \in ListedFiles},
     primary |-> PrimaryIfLoaded,
     last    |-> Newest(ListedFiles)]

LegacyImage ==
    [snaps |-> {Snapshot(legacy)}, primary |-> legacy.name, last |-> legacy.mtime]

(* load_from_disk: the manifest unless nothing could be loaded from it,    *)
(* then policy.json.                                                       *)
DiskImage ==
    IF ListedFiles # {} THEN ManifestImage
    ELSE IF legacy # None THEN LegacyImage
    ELSE EmptyMemory

-----------------------------------------------------------------------------
(* Mutant of Swap: the map is updated in place.                            *)
SwapMerging(policies, prim, now) ==
    /\ snaps' = {s \in snaps : s.name \notin NamesOf(policies)} \cup policies
    /\ primary' = IF prim \in NamesOf(policies) THEN prim ELSE None
    /\ lastSuccess' = now

(* The swap of replace and replace_all, before anything is written.  A     *)
(* primary that is not among the policies is cleared.                      *)
Swap(policies, prim, now) ==
    /\ snaps' = policies
    /\ primary' = IF prim \in NamesOf(policies) THEN prim ELSE None
    /\ lastSuccess' = now

FileOf(p, now) == [name |-> p.name, rev |-> p.rev, mtime |-> now]

(* _persist_legacy_to_disk                                                 *)
PersistLegacy(p, now) ==
    /\ legacy' = FileOf(p, now)
    /\ UNCHANGED <<files, manifest>>

(* Mutant of WriteFile: a new file beside the old one.                     *)
WriteFileBeside(p, now) ==
    /\ files' = files \cup {FileOf(p, now)}
    /\ UNCHANGED <<legacy, manifest>>

(* The steps of _persist_manifest_to_disk: overwrite a policy's file, drop *)
(* the file of a policy that is gone, and, last, write the manifest.       *)
WriteFile(p, now) ==
    /\ files' = {f \in files : f.name # p.name} \cup {FileOf(p, now)}
    /\ UNCHANGED <<legacy, manifest>>

DropOrphan(f) ==
    /\ files' = files \ {f}
    /\ UNCHANGED <<legacy, manifest>>

(* Mutant of WriteManifest: the names of the old one are kept.             *)
ManifestGrows(names, prim) ==
    /\ manifest' = [names |-> names \cup (IF manifest = None THEN {} ELSE manifest.names),
                    primary |-> prim]
    /\ UNCHANGED <<legacy, files>>

WriteManifest(names, prim) ==
    /\ manifest' = [names |-> names, primary |-> prim]
    /\ UNCHANGED <<legacy, files>>

-----------------------------------------------------------------------------
(* _persist_manifest_to_disk as one step, for whoever sees the disk only   *)
(* before it and after: PolicySync's steps are shown to come to this.      *)
Orphans(policies) == {f \in files : f.name \notin NamesOf(policies)}

(* The directory once the files of these policies are overwritten.         *)
Written(policies, now) == Orphans(policies) \cup {FileOf(p, now) : p \in policies}

(* Of the orphans, those whose unlink failed are left.                     *)
PersistAll(policies, prim, now) ==
    /\ \E dropped \in SUBSET Orphans(policies) : files' = Written(policies, now) \ dropped
    /\ manifest' = [names |-> NamesOf(policies), primary |-> prim]
    /\ UNCHANGED legacy

(* A kill or an OSError cuts it short, among the files or the orphans or   *)
(* before the manifest.                                                    *)
PersistCutShort(policies, now) ==
    /\ \/ \E done \in SUBSET policies : files' = Written(done, now)
       \/ \E dropped \in SUBSET Orphans(policies) : files' = Written(policies, now) \ dropped
    /\ UNCHANGED <<legacy, manifest>>
=============================================================================
