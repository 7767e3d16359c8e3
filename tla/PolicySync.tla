----------------------------- MODULE PolicySync -----------------------------
(***************************************************************************)
(* How the cache follows the control plane:                                *)
(*                                                                         *)
(*   policy/sync.py     sync_once (both modes), warm, run_forever          *)
(*   policy/client.py   fetch, fetch_all, _http_get                        *)
(*   policy/stale.py    status                                             *)
(*   app.py             the part of _lifespan that boots the cache         *)
(*                                                                         *)
(* One sync runs at a time: warm is awaited before the loop is created.    *)
(* The GET is awaited; the swap and the persist that follow run without an *)
(* await, so nothing else of the process happens among their steps, but    *)
(* the process may be killed, or a write may fail, at any of them.         *)
(*                                                                         *)
(* The control plane (external) publishes its catalog of active policies   *)
(* as a sequence of revisions and answers a GET with the latest.           *)
(***************************************************************************)
EXTENDS PolicyCache, Sequences

CONSTANTS
    MultiModes,     \* values multi_policy_enabled may take at a boot
    OldGateway,     \* the gateway may lack /policies/active and answer 404
    OldLegacy,      \* names for which an older image may have left policy.json
    MintMayRaise,   \* reading key.pem or meta.json may fail
    Threshold,      \* settings.policy_stale_threshold_seconds
    MaxRevisions,   \* bound: catalogs published
    MaxClock,       \* bound: time
    MaxFaults,      \* bound: failed requests and file operations
    MaxRestarts     \* bound: times the process is killed

ASSUME SyncAssumption ==
    /\ MultiModes \subseteq BOOLEAN
    /\ OldGateway \in BOOLEAN
    /\ OldLegacy \subseteq Names
    /\ MintMayRaise \in BOOLEAN
    /\ Threshold \in Nat /\ MaxRevisions \in Nat /\ MaxClock \in Nat
    /\ MaxFaults \in Nat /\ MaxRestarts \in Nat

VARIABLES
    catalogs,   \* the catalogs published so far, as [names, primary]
    receivedAt, \* history: when each revision was last received, or published
    clock,
    proc,       \* "down", "warming" (lifespan awaits warm) or "up"
    multi,      \* settings.multi_policy_enabled of this process
    pc,         \* the sync: "idle", "get", "getOne" (singular endpoint),
                \* "got" (answer received), "files", "orphans", "dead"
    got,        \* the answer: [rev, policies, primary]
    todo,       \* names of the files still to write
    result,     \* of the last sync_once of this process
    swapped,    \* history: this process has swapped a fetched catalog in
    faults, restarts

syncVars == <<proc, multi, pc, got, todo, result, swapped>>
plane    == <<catalogs, receivedAt>>
vars == <<memory, disk, plane, clock, syncVars, faults, restarts>>

Rev == Len(catalogs)
PoliciesOf(r) == {[name |-> n, rev |-> r] : n \in catalogs[r].names}
NoAnswer == [rev |-> 0, policies |-> {}, primary |-> None]

(* The state directory is empty, or was left by the image before this one. *)
Init ==
    /\ snaps = {} /\ primary = None /\ lastSuccess = Never
    /\ legacy \in {[name |-> n, rev |-> 1, mtime |-> 0] : n \in OldLegacy}
                  \cup (IF OldLegacy = {} THEN {None} ELSE {})
    /\ files = {} /\ manifest = None
    /\ \E n \in Names : catalogs = <<[names |-> {n}, primary |-> n]>>
    /\ legacy # None => legacy.name \in catalogs[1].names
    /\ receivedAt = <<0>>
    /\ clock = 0
    /\ proc = "down" /\ multi \in MultiModes /\ pc = "idle"
    /\ got = NoAnswer /\ todo = {}
    /\ result = "none" /\ swapped = FALSE
    /\ faults = 0 /\ restarts = 0

Fault == faults < MaxFaults /\ faults' = faults + 1

-----------------------------------------------------------------------------
(* External: an administrator changes the tenant's active policies.        *)
Publish ==
    /\ Rev < MaxRevisions
    /\ \E N \in SUBSET Names : \E p \in N \cup {None} :
          catalogs' = Append(catalogs, [names |-> N, primary |-> p])
    /\ receivedAt' = Append(receivedAt, clock)
    /\ UNCHANGED <<memory, disk, clock, syncVars, faults, restarts>>

(* Time passes, though not while the loop is blocked in a persist.         *)
ClockTick ==
    /\ clock < MaxClock
    /\ pc \notin {"files", "orphans"}
    /\ clock' = clock + 1
    /\ UNCHANGED <<memory, disk, plane, syncVars, faults, restarts>>

-----------------------------------------------------------------------------
(* Mutant of Loaded: the load counts as a success.                         *)
LoadedNow == [DiskImage EXCEPT !.last = IF DiskImage.snaps = {} THEN Never ELSE clock]

(* A process starts: load_from_disk, then warm's sync_once.                *)
Loaded == DiskImage

Boot ==
    /\ proc = "down"
    /\ MemoryIs(Loaded)
    /\ multi' \in MultiModes
    /\ proc' = "warming"
    /\ pc' = IF multi' THEN "get" ELSE "getOne"
    /\ result' = "none" /\ swapped' = FALSE
    /\ UNCHANGED <<disk, plane, clock, got, todo, faults, restarts>>

(* The load raises what it does not catch, an OSError or an exception of   *)
(* _compile, and the startup ends with it.                                 *)
BootRaises ==
    /\ proc = "down"
    /\ manifest # None \/ legacy # None
    /\ Fault
    /\ UNCHANGED <<memory, disk, plane, clock, syncVars, restarts>>

(* run_forever's sleep ends and it calls sync_once.                        *)
SyncStart ==
    /\ proc = "up" /\ pc = "idle"
    /\ pc' = IF multi THEN "get" ELSE "getOne"
    /\ UNCHANGED <<memory, disk, plane, clock, proc, multi, got, todo, result, swapped,
                   faults, restarts>>

(* sync_once returns; the first one ends warm, and the server opens        *)
(* whatever it returned: the lifespan catches the RuntimeError of a cache  *)
(* that stayed cold.                                                       *)
SyncReturns(res) ==
    /\ result' = res
    /\ pc' = "idle"
    /\ proc' = "up"
    /\ got' = NoAnswer
    /\ todo' = {}
    /\ UNCHANGED multi

(* Minting the token reads key.pem and meta.json outside any try.  In the  *)
(* loop the exception ends the task; in warm, EnrollmentMissing counts as  *)
(* a failed warm and any other exception ends the startup.                 *)
MintRaises ==
    /\ MintMayRaise
    /\ pc \in {"get", "getOne"}
    /\ Fault
    /\ \/ proc = "up" /\ pc' = "dead" /\ UNCHANGED <<memory, proc>>
       \/ proc = "warming" /\ pc' = "idle" /\ proc' = "up" /\ UNCHANGED memory
       \/ proc = "warming" /\ pc' = "idle" /\ proc' = "down" /\ MemoryIs(EmptyMemory)
    /\ UNCHANGED <<disk, plane, clock, multi, got, todo, result, swapped, restarts>>

(* Mutant of AnswerAll: the client keeps its first answer.                 *)
AnswerAllOnce ==
    /\ pc = "get"
    /\ got' = IF swapped THEN [rev |-> Rev, policies |-> snaps, primary |-> primary]
              ELSE [rev |-> Rev, policies |-> PoliciesOf(Rev), primary |-> catalogs[Rev].primary]
    /\ pc' = "got"
    /\ UNCHANGED <<memory, disk, plane, clock, proc, multi, todo, result, swapped,
                   faults, restarts>>

(* The plural endpoint answers with every active policy; the primary is    *)
(* the one flagged.                                                        *)
AnswerAll ==
    /\ pc = "get"
    /\ got' = [rev |-> Rev, policies |-> PoliciesOf(Rev), primary |-> catalogs[Rev].primary]
    /\ pc' = "got"
    /\ UNCHANGED <<memory, disk, plane, clock, proc, multi, todo, result, swapped,
                   faults, restarts>>

(* A gateway without it answers 404, and fetch_all asks the singular one.  *)
FallBackToOne ==
    /\ OldGateway
    /\ pc = "get"
    /\ pc' = "getOne"
    /\ UNCHANGED <<memory, disk, plane, clock, proc, multi, got, todo, result,
                   swapped, faults, restarts>>

(* The singular endpoint answers with the tenant's default policy.         *)
AnswerOne ==
    /\ pc = "getOne"
    /\ catalogs[Rev].primary # None
    /\ got' = [rev |-> Rev,
               policies |-> {p \in PoliciesOf(Rev) : p.name = catalogs[Rev].primary},
               primary |-> catalogs[Rev].primary]
    /\ pc' = "got"
    /\ UNCHANGED <<memory, disk, plane, clock, proc, multi, todo, result, swapped,
                   faults, restarts>>

(* PolicyNotFound: there is no such policy.                                *)
SyncNotFound ==
    /\ pc = "getOne"
    /\ catalogs[Rev].primary = None
    /\ SyncReturns("failed")
    /\ UNCHANGED <<memory, disk, plane, clock, swapped, faults, restarts>>

(* Mutant of SyncFails: the snapshot on disk is read again.                *)
FailReloads ==
    /\ pc \in {"get", "getOne", "got"}
    /\ Fault
    /\ MemoryIs(DiskImage)
    /\ SyncReturns("failed")
    /\ UNCHANGED <<disk, plane, clock, swapped, restarts>>

(* PolicyFetchError: transport, status or body.                            *)
SyncFails ==
    /\ pc \in {"get", "getOne", "got"}
    /\ Fault
    /\ SyncReturns("failed")
    /\ UNCHANGED <<memory, disk, plane, clock, swapped, restarts>>

(* replace or replace_all swaps the answer into memory and starts to       *)
(* persist it.                                                             *)
SyncSwaps ==
    /\ pc = "got"
    /\ Swap(got.policies, got.primary, clock)
    /\ swapped' = TRUE
    /\ receivedAt' = [receivedAt EXCEPT ![got.rev] = clock]
    /\ pc' = "files"
    /\ todo' = NamesOf(got.policies)
    /\ UNCHANGED <<disk, catalogs, clock, proc, multi, got, result, faults, restarts>>

(* Single-policy mode: one file, and the sync is done.                     *)
PersistsOne ==
    /\ pc = "files" /\ ~multi
    /\ \E p \in got.policies : PersistLegacy(p, clock)
    /\ SyncReturns("ok")
    /\ UNCHANGED <<memory, plane, clock, swapped, faults, restarts>>

(* Multi-policy mode: the files in the order of the answer, which may be   *)
(* any, then the orphans, then the manifest.                               *)
PersistsFile ==
    /\ pc = "files" /\ multi
    /\ \E p \in got.policies :
          /\ p.name \in todo
          /\ WriteFile(p, clock)
          /\ todo' = todo \ {p.name}
    /\ UNCHANGED <<memory, plane, clock, proc, multi, pc, got, result, swapped,
                   faults, restarts>>

(* Mutant of FilesDone: an orphan is what the last manifest does not list. *)
FilesDoneByManifest ==
    /\ pc = "files" /\ multi /\ todo = {}
    /\ pc' = "orphans"
    /\ todo' = NamesOf(files) \ (IF manifest = None THEN {} ELSE manifest.names)
    /\ UNCHANGED <<memory, disk, plane, clock, proc, multi, got, result, swapped,
                   faults, restarts>>

FilesDone ==
    /\ pc = "files" /\ multi /\ todo = {}
    /\ pc' = "orphans"
    /\ todo' = NamesOf(files) \ NamesOf(got.policies)
    /\ UNCHANGED <<memory, disk, plane, clock, proc, multi, got, result, swapped,
                   faults, restarts>>

(* An unlink that fails is logged and the file stays.                      *)
DropsOrphan ==
    /\ pc = "orphans"
    /\ \E f \in files :
          /\ f.name \in todo
          /\ todo' = todo \ {f.name}
          /\ \/ DropOrphan(f) /\ UNCHANGED faults
             \/ Fault /\ UNCHANGED disk
    /\ UNCHANGED <<memory, plane, clock, proc, multi, pc, got, result, swapped,
                   restarts>>

PersistsManifest ==
    /\ pc = "orphans" /\ todo = {}
    /\ WriteManifest(NamesOf(got.policies), primary)
    /\ SyncReturns("ok")
    /\ UNCHANGED <<memory, plane, clock, swapped, faults, restarts>>

(* A write raises OSError: sync_once logs it and returns False.            *)
PersistRaises ==
    /\ \/ pc = "files" /\ (todo # {} \/ ~multi)
       \/ pc = "orphans" /\ todo = {}
    /\ Fault
    /\ SyncReturns("failed")
    /\ UNCHANGED <<memory, disk, plane, clock, swapped, restarts>>

-----------------------------------------------------------------------------
(* The process is killed, or shut down, in any state.                      *)
Kill ==
    /\ proc # "down"
    /\ restarts < MaxRestarts
    /\ restarts' = restarts + 1
    /\ proc' = "down" /\ pc' = "idle" /\ got' = NoAnswer /\ todo' = {}
    /\ MemoryIs(EmptyMemory)
    /\ result' = "none" /\ swapped' = FALSE
    /\ UNCHANGED <<disk, plane, clock, multi, faults>>

(* External: a file of the state directory is lost, or no longer parses:   *)
(* _load_manifest passes over either.                                      *)
FileLost ==
    /\ proc = "down"
    /\ Fault
    /\ \/ \E f \in files : files' = files \ {f} /\ UNCHANGED <<legacy, manifest>>
       \/ manifest # None /\ manifest' = None /\ UNCHANGED <<legacy, files>>
       \/ legacy # None /\ legacy' = None /\ UNCHANGED <<files, manifest>>
    /\ UNCHANGED <<memory, plane, clock, syncVars, restarts>>

-----------------------------------------------------------------------------
SyncStep ==
    \/ AnswerAll \/ FallBackToOne \/ AnswerOne \/ SyncNotFound \/ SyncSwaps
    \/ PersistsOne \/ PersistsFile \/ FilesDone \/ DropsOrphan \/ PersistsManifest

Next ==
    \/ Publish \/ ClockTick
    \/ Boot \/ BootRaises \/ SyncStart \/ SyncStep
    \/ MintRaises \/ SyncFails \/ PersistRaises
    \/ Kill \/ FileLost

Spec == Init /\ [][Next]_vars

(* A pod that is down is started, the loop's sleep ends, and a request is  *)
(* answered or times out.                                                  *)
Fairness == WF_vars(Boot) /\ WF_vars(SyncStart) /\ WF_vars(SyncStep)

-----------------------------------------------------------------------------
TypeOK ==
    /\ CacheTypeOK
    /\ catalogs \in Seq([names : SUBSET Names, primary : Names \cup {None}])
    /\ Rev >= 1
    /\ \A r \in 1..Rev : catalogs[r].primary \in catalogs[r].names \cup {None}
    /\ receivedAt \in Seq(Nat) /\ Len(receivedAt) = Rev
    /\ clock \in Nat
    /\ proc \in {"down", "warming", "up"}
    /\ multi \in BOOLEAN
    /\ pc \in {"idle", "get", "getOne", "got", "files", "orphans", "dead"}
    /\ got \in [rev : 0..Rev, policies : SUBSET Policy, primary : Names \cup {None}]
    /\ todo \subseteq Names
    /\ result \in {"none", "ok", "failed"}
    /\ swapped \in BOOLEAN
    /\ faults \in Nat /\ restarts \in Nat

(* decide() without a policy_name finds the policy the primary names: the  *)
(* name never dangles, not even when the state directory was left by a     *)
(* persist that a crash or an error cut short (cache.py _load_manifest,    *)
(* replace_all).                                                           *)
PrimaryResolves == primary # None => primary \in NamesOf(snaps)

(* Once a process has swapped a fetched catalog in, it serves exactly one  *)
(* published catalog: no policy of an older one survives in the map, and   *)
(* the primary is that catalog's (replace_all: "Partial state never        *)
(* leaks").  In single-policy mode, or with an old gateway, the catalog is *)
(* its primary alone.                                                      *)
ServesOneCatalog ==
    swapped => \E r \in 1..Rev :
        /\ primary = catalogs[r].primary
        /\ \/ snaps = PoliciesOf(r)
           \/ snaps = {[name |-> primary, rev |-> r]}

(* stale.status.                                                           *)
Stale == lastSuccess = Never \/ clock - lastSuccess > Threshold

(* A process that does not consider its policies stale serves at least one *)
(* that it received from the control plane within the threshold: neither a *)
(* restart nor a failed sync makes an old snapshot look new.               *)
FreshMeansFetched ==
    proc = "up" /\ snaps # {} /\ ~Stale
        => \E s \in snaps : clock - receivedAt[s.rev] <= Threshold

(* After a sync that succeeded, a restart serves what it stored: the files *)
(* and the manifest, written one by one, agree with the memory, as does    *)
(* the time of the last success.  Single-policy mode promises this only as *)
(* long as no manifest of multi-policy mode is there to be loaded first.   *)
RestartServesLastSync ==
    /\ proc = "up" /\ pc = "idle" /\ result = "ok" /\ snaps # {}
    /\ multi \/ manifest = None
    => DiskImage = [snaps |-> snaps, primary |-> primary, last |-> lastSuccess]

(* A running process never goes back to an older revision of a policy.     *)
NeverBackwards ==
    [][proc # "down" /\ proc' # "down"
        => \A s \in snaps, t \in snaps' : s.name = t.name => s.rev <= t.rev]_vars

(* What a sync is to fetch in the end: everything, or the tenant's default *)
(* policy when multi-policy mode is off.                                   *)
Latest == {p \in PoliciesOf(Rev) : multi \/ p.name = catalogs[Rev].primary}

(* Once the catalog stops changing, the process serves it: failed syncs,   *)
(* failed writes, restarts and changes of mode delay it and do not prevent *)
(* it.  With multi-policy mode off and no default policy there is nothing  *)
(* to fetch, and what was served stays (sync.py run_forever).              *)
Converges ==
    <>[](multi \/ catalogs[Rev].primary # None =>
            snaps = Latest /\ primary = catalogs[Rev].primary)

-----------------------------------------------------------------------------
(* What the safety properties rest on: an invariant that every step keeps. *)

Syncing == pc \in {"got", "files", "orphans"}
Persisting == pc \in {"files", "orphans"}

(* Where the process is in its life and where the sync is go together.     *)
PhaseInv ==
    /\ proc = "down" => pc = "idle" /\ snaps = {} /\ lastSuccess = Never /\ ~swapped
    /\ proc = "warming" => result = "none" /\ pc \notin {"idle", "dead"}
    /\ proc = "warming" /\ pc \in {"get", "getOne", "got"} => ~swapped
    /\ pc \in {"get", "orphans"} => multi

(* Nothing has been received in the future, nor is it held or stored from  *)
(* a revision that has not been published; a file is no younger than the   *)
(* last time its revision was received.                                    *)
StoredInv(f) == f.rev \in 1..Rev /\ f.mtime <= receivedAt[f.rev]

RevisionsInv ==
    /\ \A r \in 1..Rev : receivedAt[r] <= clock
    /\ \A s \in snaps : s.rev \in 1..Rev
    /\ \A s, t \in snaps : s.name = t.name => s = t
    /\ \A f \in files : StoredInv(f)
    /\ legacy # None => StoredInv(legacy)

(* What is served was received at the last success or since.               *)
DatedInv ==
    snaps # {} => /\ lastSuccess # Never
                  /\ \E s \in snaps : lastSuccess <= receivedAt[s.rev]

(* The answer the sync holds: one catalog, or, of a catalog with a primary *)
(* and always in single-policy mode, that primary alone.  Nothing served   *)
(* is newer.                                                               *)
AnswerIsPrimary ==
    /\ got.primary # None
    /\ got.policies = {[name |-> got.primary, rev |-> got.rev]}

AnswerInv ==
    Syncing =>
        /\ got.rev \in 1..Rev /\ got.primary = catalogs[got.rev].primary
        /\ (multi /\ got.policies = PoliciesOf(got.rev)) \/ AnswerIsPrimary
        /\ \A s \in snaps : s.rev <= got.rev

(* During a persist the memory is the answer, received now, and the files  *)
(* not left to do are written.                                             *)
FilesWritten(names) ==
    \A p \in got.policies : p.name \in names =>
        [name |-> p.name, rev |-> p.rev, mtime |-> clock] \in files

PersistInv ==
    Persisting =>
        /\ snaps = got.policies /\ primary = got.primary
        /\ lastSuccess = clock /\ receivedAt[got.rev] = clock
        /\ FilesWritten(IF pc = "orphans" THEN Names
                        ELSE IF multi THEN Names \ todo ELSE {})
        /\ pc = "orphans" => todo \cap NamesOf(got.policies) = {}

IInv ==
    /\ TypeOK /\ PhaseInv /\ RevisionsInv /\ DatedInv /\ AnswerInv /\ PersistInv
    /\ PrimaryResolves /\ ServesOneCatalog /\ RestartServesLastSync
=============================================================================
