-------------------------- MODULE PolicySyncProofs --------------------------
(***************************************************************************)
(* The safety of PolicySync for every set of names, every threshold, in    *)
(* both modes and across changes of mode, for any number of catalogs,      *)
(* failures and restarts.                                                  *)
(***************************************************************************)
EXTENDS PolicySyncTurns, PolicyCacheProofs, TLAPS

USE SyncAssumption, NoneAssumption

Catalog == [names : SUBSET Names, primary : Names \cup {None}]

(* The initial states.                                                     *)
LEMMA InitInv == Init => IInv
  <1> SUFFICES ASSUME Init
               PROVE  IInv
    OBVIOUS
  <1> USE DEF Init
  <1>1. PICK n \in Names : catalogs = <<[names |-> {n}, primary |-> n]>>
    OBVIOUS
  <1>2. catalogs \in Seq(Catalog) /\ Len(catalogs) = 1 /\ catalogs[1] = [names |-> {n}, primary |-> n]
    <2>1. [names |-> {n}, primary |-> n] \in Catalog
      BY DEF Catalog
    <2> QED
      BY <1>1, <2>1
  <1>3. receivedAt \in Seq(Nat) /\ Len(receivedAt) = 1 /\ receivedAt[1] = 0
    OBVIOUS
  <1>4. legacy # None => legacy \in File /\ legacy.rev = 1 /\ legacy.mtime = 0
    BY DEF File
  <1>5. TypeOK
    <2>1. CacheTypeOK
      BY <1>4 DEF CacheTypeOK, Policy, Never
    <2>2. got \in [rev : 0..Rev, policies : SUBSET Policy, primary : Names \cup {None}]
      BY <1>2 DEF Rev, NoAnswer
    <2>3. /\ Rev >= 1
          /\ \A r \in 1..Rev : catalogs[r].primary \in catalogs[r].names \cup {None}
          /\ Len(receivedAt) = Rev
      BY <1>2, <1>3 DEF Rev
    <2>4. multi \in BOOLEAN /\ swapped \in BOOLEAN
      OBVIOUS
    <2>5. /\ clock \in Nat /\ proc \in {"down", "warming", "up"}
          /\ pc \in {"idle", "get", "getOne", "got", "files", "orphans", "dead"}
          /\ todo \subseteq Names /\ result \in {"none", "ok", "failed"}
          /\ faults \in Nat /\ restarts \in Nat
      OBVIOUS
    <2> QED
      BY <1>2, <1>3, <2>1, <2>2, <2>3, <2>4, <2>5 DEF TypeOK, Catalog
  <1>6. PhaseInv /\ DatedInv /\ AnswerInv /\ PersistInv
    BY DEF PhaseInv, DatedInv, AnswerInv, PersistInv, Syncing, Persisting
  <1>7. RevisionsInv
    BY <1>2, <1>3, <1>4 DEF RevisionsInv, StoredInv, Rev
  <1> QED
    BY <1>5, <1>6, <1>7 DEF IInv, PrimaryResolves, ServesOneCatalog, RestartServesLastSync

-----------------------------------------------------------------------------
(* What follows from the invariant alone about data that a step leaves as  *)
(* it is: all steps but the swap, the persist's, a boot's, a kill's and    *)
(* the world's.                                                            *)
LEMMA DataStays ==
    ASSUME IInv, UNCHANGED <<memory, disk, plane>>, clock' \in Nat, clock <= clock'
    PROVE  /\ CacheTypeOK'
           /\ catalogs' \in Seq(Catalog) /\ Rev' >= 1
           /\ \A r \in 1..Rev' : catalogs'[r].primary \in catalogs'[r].names \cup {None}
           /\ receivedAt' \in Seq(Nat) /\ Len(receivedAt') = Rev'
           /\ Rev' = Rev
           /\ RevisionsInv' /\ DatedInv' /\ PrimaryResolves'
           /\ (swapped' => swapped) => ServesOneCatalog'
           /\ DiskImage' = DiskImage
  <1> USE DEF memory, disk, plane
  <1>1. CacheTypeOK' /\ PrimaryResolves'
    BY DEF IInv, TypeOK, CacheTypeOK, PrimaryResolves
  <1>2. Rev' = Rev
    BY DEF Rev
  <1>3. /\ catalogs' \in Seq(Catalog) /\ Rev' >= 1
        /\ \A r \in 1..Rev' : catalogs'[r].primary \in catalogs'[r].names \cup {None}
        /\ receivedAt' \in Seq(Nat) /\ Len(receivedAt') = Rev'
    BY <1>2 DEF IInv, TypeOK, Catalog
  <1>4. RevisionsInv'
    <2>1. \A r \in 1..Rev : receivedAt[r] \in Nat /\ receivedAt[r] <= clock'
      BY DEF IInv, TypeOK, RevisionsInv
    <2> QED
      BY <1>2, <2>1 DEF IInv, RevisionsInv, StoredInv
  <1>5. DatedInv'
    BY DEF IInv, DatedInv
  <1>6. (swapped' => swapped) => ServesOneCatalog'
    BY <1>2 DEF IInv, ServesOneCatalog, PoliciesOf
  <1>7. DiskImage' = DiskImage
    <2>1. ListedFiles' = ListedFiles
      BY DEF ListedFiles
    <2>2. PrimaryIfLoaded' = PrimaryIfLoaded
      BY <2>1 DEF PrimaryIfLoaded
    <2> QED
      BY <2>1, <2>2 DEF DiskImage, ManifestImage, LegacyImage
  <1> QED
    BY <1>1, <1>2, <1>3, <1>4, <1>5, <1>6, <1>7

(* What the disk holds decides what a restart would load.                  *)
LEMMA SameDiskSameImage ==
    ASSUME UNCHANGED disk
    PROVE  DiskImage' = DiskImage
  <1>1. ListedFiles' = ListedFiles
    BY DEF ListedFiles, disk
  <1>2. PrimaryIfLoaded' = PrimaryIfLoaded
    BY <1>1 DEF PrimaryIfLoaded, disk
  <1> QED
    BY <1>1, <1>2 DEF DiskImage, ManifestImage, LegacyImage, disk

-----------------------------------------------------------------------------
(* The steps that only move the sync, or the clock.                        *)
Control ==
    /\ proc \in {"down", "warming", "up"} /\ multi \in BOOLEAN
    /\ pc \in {"idle", "get", "getOne", "got", "files", "orphans", "dead"}
    /\ got \in [rev : 0..Rev, policies : SUBSET Policy, primary : Names \cup {None}]
    /\ todo \subseteq Names
    /\ result \in {"none", "ok", "failed"}
    /\ swapped \in BOOLEAN
    /\ faults \in Nat /\ restarts \in Nat

(* Such a step keeps the invariant if it keeps the parts that speak of the *)
(* sync.                                                                   *)
LEMMA QuietKeeps ==
    ASSUME IInv, UNCHANGED <<memory, disk, plane, swapped>>, clock' \in Nat, clock <= clock',
           Control', PhaseInv', AnswerInv', PersistInv', RestartServesLastSync'
    PROVE  IInv'
  <1>1. /\ CacheTypeOK'
        /\ catalogs' \in Seq(Catalog) /\ Rev' >= 1
        /\ \A r \in 1..Rev' : catalogs'[r].primary \in catalogs'[r].names \cup {None}
        /\ receivedAt' \in Seq(Nat) /\ Len(receivedAt') = Rev'
        /\ RevisionsInv' /\ DatedInv' /\ PrimaryResolves' /\ ServesOneCatalog'
    <2>1. UNCHANGED <<memory, disk, plane>> /\ swapped' = swapped
      OBVIOUS
    <2> QED
      BY <2>1, DataStays
  <1>2. TypeOK'
    BY <1>1 DEF TypeOK, Control, Catalog
  <1> QED
    BY <1>1, <1>2 DEF IInv

LEMMA ClockTickKeeps == ASSUME IInv, ClockTick PROVE IInv'
  <1> USE DEF ClockTick, syncVars, plane
  <1>1. clock' \in Nat /\ clock <= clock'
    BY DEF IInv, TypeOK
  <1>2. Control'
    BY DEF IInv, TypeOK, Control, Rev
  <1>3. PhaseInv' /\ AnswerInv'
    BY DEF IInv, PhaseInv, AnswerInv, AnswerIsPrimary, Syncing, memory, Rev, PoliciesOf
  <1>4. PersistInv'
    BY DEF PersistInv, Persisting
  <1>5. RestartServesLastSync'
    <2>1. DiskImage' = DiskImage
      BY SameDiskSameImage
    <2> QED
      BY <2>1 DEF IInv, RestartServesLastSync, memory, disk
  <1> QED
    BY <1>1, <1>2, <1>3, <1>4, <1>5, QuietKeeps

LEMMA SyncStartKeeps == ASSUME IInv, SyncStart PROVE IInv'
  <1> USE DEF SyncStart, plane
  <1>1. Control' /\ clock' \in Nat /\ clock <= clock'
    BY DEF IInv, TypeOK, Control, Rev
  <1>2. PhaseInv' /\ AnswerInv' /\ PersistInv' /\ RestartServesLastSync'
    BY DEF PhaseInv, AnswerInv, PersistInv, RestartServesLastSync, Syncing, Persisting
  <1> QED
    BY <1>1, <1>2, QuietKeeps

LEMMA FallBackKeeps == ASSUME IInv, FallBackToOne PROVE IInv'
  <1> USE DEF FallBackToOne, plane
  <1>1. Control' /\ clock' \in Nat /\ clock <= clock'
    BY DEF IInv, TypeOK, Control, Rev
  <1>2. PhaseInv'
    BY DEF IInv, PhaseInv, memory
  <1>3. AnswerInv' /\ PersistInv' /\ RestartServesLastSync'
    BY DEF AnswerInv, PersistInv, RestartServesLastSync, Syncing, Persisting
  <1> QED
    BY <1>1, <1>2, <1>3, QuietKeeps

(* A sync that failed, in warm or in the loop.                             *)
LEMMA FailedKeeps ==
    ASSUME IInv, SyncReturns("failed"), UNCHANGED <<memory, disk, plane, clock, swapped>>,
           pc \notin {"idle", "dead"}, faults' \in Nat, restarts' \in Nat
    PROVE  IInv'
  <1> USE DEF SyncReturns, plane
  <1>1. Rev' = Rev /\ NoAnswer \in [rev : 0..Rev, policies : SUBSET Policy, primary : Names \cup {None}]
    BY DEF Rev, NoAnswer, IInv, TypeOK
  <1>2. Control' /\ clock' \in Nat /\ clock <= clock'
    BY <1>1 DEF IInv, TypeOK, Control
  <1>3. PhaseInv' /\ AnswerInv' /\ PersistInv' /\ RestartServesLastSync'
    BY DEF PhaseInv, AnswerInv, PersistInv, RestartServesLastSync, Syncing, Persisting
  <1> QED
    BY <1>2, <1>3, QuietKeeps

(* The gateway's latest catalog names its policies and one of them, or     *)
(* none, as the primary.                                                   *)
LEMMA CatalogsTyped ==
    ASSUME IInv
    PROVE  /\ Rev \in Nat /\ Rev \in 1..Rev
           /\ \A r \in 1..Rev : /\ catalogs[r].names \subseteq Names
                               /\ catalogs[r].primary \in catalogs[r].names \cup {None}
                               /\ catalogs[r].primary \in Names \cup {None}
                               /\ PoliciesOf(r) \subseteq Policy
  <1>1. /\ Rev \in Nat /\ Rev \in 1..Rev
        /\ \A r \in 1..Rev : catalogs[r] \in Catalog
    <2>1. catalogs \in Seq(Catalog) /\ Rev >= 1
      BY DEF IInv, TypeOK, Catalog
    <2> HIDE DEF Catalog
    <2> QED
      BY <2>1 DEF Rev
  <1>2. \A r \in 1..Rev : /\ catalogs[r].names \subseteq Names
                         /\ catalogs[r].primary \in catalogs[r].names \cup {None}
                         /\ catalogs[r].primary \in Names \cup {None}
    BY <1>1 DEF IInv, TypeOK, Catalog
  <1>3. \A r \in 1..Rev : PoliciesOf(r) \subseteq Policy
    BY <1>1, <1>2 DEF PoliciesOf, Policy
  <1> QED
    BY <1>1, <1>2, <1>3

LEMMA SyncNotFoundKeeps == ASSUME IInv, SyncNotFound PROVE IInv'
  BY FailedKeeps DEF SyncNotFound, IInv, TypeOK

LEMMA SyncFailsKeeps == ASSUME IInv, SyncFails PROVE IInv'
  BY FailedKeeps DEF SyncFails, Fault, IInv, TypeOK

LEMMA PersistRaisesKeeps == ASSUME IInv, PersistRaises PROVE IInv'
  BY FailedKeeps DEF PersistRaises, Fault, IInv, TypeOK

LEMMA AnswerAllKeeps == ASSUME IInv, AnswerAll PROVE IInv'
  <1> USE DEF AnswerAll, plane
  <1>1. Rev \in 1..Rev /\ Rev' = Rev /\ Rev \in Nat
    BY CatalogsTyped DEF Rev
  <1>2. PoliciesOf(Rev) \subseteq Policy /\ catalogs[Rev].primary \in Names \cup {None}
    BY <1>1, CatalogsTyped
  <1>3. Control' /\ clock' \in Nat /\ clock <= clock'
    BY <1>1, <1>2 DEF IInv, TypeOK, Control
  <1>4. PhaseInv'
    BY DEF IInv, PhaseInv, memory
  <1>5. multi' /\ PoliciesOf(Rev)' = PoliciesOf(Rev) /\ catalogs'[Rev].primary = catalogs[Rev].primary
    BY <1>1 DEF IInv, PhaseInv, PoliciesOf
  <1>6. \A s \in snaps' : s.rev <= Rev
    BY <1>1 DEF memory, IInv, RevisionsInv
  <1>7. AnswerInv'
    BY <1>1, <1>5, <1>6 DEF AnswerInv, PoliciesOf
  <1>8. PersistInv' /\ RestartServesLastSync'
    BY DEF PersistInv, RestartServesLastSync, Persisting
  <1> QED
    BY <1>3, <1>4, <1>7, <1>8, QuietKeeps

LEMMA AnswerOneKeeps == ASSUME IInv, AnswerOne PROVE IInv'
  <1> USE DEF AnswerOne, plane
  <1> DEFINE default == catalogs[Rev].primary
  <1>1. Rev \in 1..Rev /\ Rev' = Rev /\ Rev \in Nat
    BY CatalogsTyped DEF Rev
  <1>2. default \in catalogs[Rev].names /\ default \in Names
    BY <1>1, CatalogsTyped
  <1>3. {p \in PoliciesOf(Rev) : p.name = default} = {[name |-> default, rev |-> Rev]}
    BY <1>2 DEF PoliciesOf
  <1>4. [name |-> default, rev |-> Rev] \in Policy
    BY <1>1, <1>2 DEF Policy
  <1>5. Control' /\ clock' \in Nat /\ clock <= clock'
    BY <1>1, <1>2, <1>3, <1>4 DEF IInv, TypeOK, Control
  <1>6. PhaseInv'
    BY DEF IInv, PhaseInv, memory
  <1>7. \A s \in snaps' : s.rev <= Rev
    BY <1>1 DEF memory, IInv, RevisionsInv
  <1>8. AnswerInv'
    BY <1>1, <1>3, <1>7 DEF AnswerInv, AnswerIsPrimary
  <1>9. PersistInv' /\ RestartServesLastSync'
    BY DEF PersistInv, RestartServesLastSync, Persisting
  <1> QED
    BY <1>5, <1>6, <1>8, <1>9, QuietKeeps

-----------------------------------------------------------------------------
(* The swap and the persist.                                               *)
LEMMA AnswerTyped ==
    ASSUME IInv, Syncing
    PROVE  /\ got.rev \in 1..Rev /\ got.rev \in Nat
           /\ got.primary \in Names \cup {None}
           /\ got.primary = catalogs[got.rev].primary
           /\ got.primary # None => got.primary \in NamesOf(got.policies)
           /\ \A p \in got.policies : p \in Policy /\ p.name \in Names /\ p.rev = got.rev
           /\ \A p, q \in got.policies : p.name = q.name => p = q
           /\ got.policies = PoliciesOf(got.rev) \/ AnswerIsPrimary
  <1>1. /\ got.rev \in 1..Rev /\ got.primary = catalogs[got.rev].primary
        /\ got.policies = PoliciesOf(got.rev) \/ AnswerIsPrimary
    BY DEF IInv, AnswerInv
  <1>2. /\ got.policies \subseteq Policy /\ got.primary \in Names \cup {None}
        /\ Rev \in Nat
    BY CatalogsTyped DEF IInv, TypeOK
  <1>3. \A p \in got.policies : p = [name |-> p.name, rev |-> got.rev]
    BY <1>1 DEF PoliciesOf, AnswerIsPrimary
  <1>4. \A p \in got.policies : p \in Policy /\ p.name \in Names /\ p.rev = got.rev
    BY <1>2, <1>3 DEF Policy
  <1>5. got.primary # None => got.primary \in NamesOf(got.policies)
    <2>1. CASE got.policies = PoliciesOf(got.rev)
      <3>1. got.primary # None => got.primary \in catalogs[got.rev].names
        BY <1>1, CatalogsTyped
      <3>2. \A n \in catalogs[got.rev].names :
               [name |-> n, rev |-> got.rev] \in got.policies
        BY <2>1 DEF PoliciesOf
      <3>3. \A n \in catalogs[got.rev].names : \E p \in got.policies : p.name = n
        BY <3>2
      <3> QED
        BY <3>1, <3>3 DEF NamesOf
    <2>2. CASE AnswerIsPrimary
      BY <2>2 DEF AnswerIsPrimary, NamesOf
    <2> QED
      BY <1>1, <2>1, <2>2
  <1> QED
    BY <1>1, <1>2, <1>3, <1>4, <1>5

LEMMA SyncSwapsKeeps == ASSUME IInv, SyncSwaps PROVE IInv'
  <1> USE DEF SyncSwaps, Swap
  <1>1. Syncing /\ Rev' = Rev
    BY DEF Syncing, Rev
  <1>2. /\ snaps' = got.policies /\ primary' = got.primary /\ lastSuccess' = clock
        /\ clock \in Nat
    BY <1>1, AnswerTyped DEF IInv, TypeOK
  <1>3. /\ receivedAt' \in Seq(Nat) /\ Len(receivedAt') = Rev
        /\ receivedAt'[got.rev] = clock
        /\ \A r \in 1..Rev : /\ receivedAt[r] \in Nat /\ receivedAt'[r] \in Nat
                            /\ receivedAt[r] <= receivedAt'[r] /\ receivedAt'[r] <= clock
    <2>1. /\ receivedAt \in Seq(Nat) /\ Len(receivedAt) = Rev /\ clock \in Nat
          /\ \A r \in 1..Rev : receivedAt[r] <= clock
      BY DEF IInv, TypeOK, RevisionsInv
    <2>2. got.rev \in 1..Rev /\ receivedAt' = [receivedAt EXCEPT ![got.rev] = clock]
      BY <1>1, AnswerTyped
    <2> QED
      BY <2>1, <2>2
  <1>4. CacheTypeOK'
    BY <1>1, <1>2, AnswerTyped DEF IInv, TypeOK, CacheTypeOK, disk
  <1>5. NamesOf(got.policies) \subseteq Names
    BY <1>1, AnswerTyped DEF NamesOf
  <1>6. Control'
    BY <1>1, <1>5 DEF IInv, TypeOK, Control
  <1>7. TypeOK'
    BY <1>1, <1>3, <1>4, <1>6 DEF IInv, TypeOK, Control
  <1>8. PhaseInv'
    BY DEF IInv, PhaseInv
  <1>9. RevisionsInv'
    <2>1. \A f \in File : StoredInv(f) => StoredInv(f)'
      BY <1>1, <1>3 DEF StoredInv, File
    <2>2. files' = files /\ legacy' = legacy /\ files \subseteq File
          /\ (legacy # None => legacy \in File)
      BY DEF disk, IInv, TypeOK, CacheTypeOK
    <2>3. (\A f \in files' : StoredInv(f)') /\ (legacy' # None => StoredInv(legacy)')
      BY <2>1, <2>2 DEF IInv, RevisionsInv, StoredInv
    <2>4. /\ \A t \in snaps' : t.rev \in 1..Rev'
          /\ \A t, u \in snaps' : t.name = u.name => t = u
      BY <1>1, <1>2, AnswerTyped
    <2> QED
      BY <1>1, <1>3, <2>3, <2>4 DEF RevisionsInv, StoredInv
  <1>10. DatedInv'
    BY <1>1, <1>2, <1>3, AnswerTyped DEF DatedInv, Never
  <1>11. AnswerInv'
    <2>1. \A t \in snaps' : t.rev <= got.rev
      BY <1>1, <1>2, AnswerTyped
    <2> QED
      BY <1>1, <2>1 DEF IInv, AnswerInv, AnswerIsPrimary, PoliciesOf, Syncing
  <1>12. PersistInv'
    <2>1. \A p \in got.policies : p.name \in NamesOf(got.policies)
      BY DEF NamesOf
    <2> QED
      BY <1>2, <1>3, <2>1 DEF PersistInv, FilesWritten
  <1>13. PrimaryResolves'
    BY <1>1, <1>2, AnswerTyped DEF PrimaryResolves
  <1>14. ServesOneCatalog'
    BY <1>1, <1>2, AnswerTyped DEF ServesOneCatalog, AnswerIsPrimary, PoliciesOf
  <1>15. RestartServesLastSync'
    BY DEF RestartServesLastSync
  <1> QED
    BY <1>7, <1>8, <1>9, <1>10, <1>11, <1>12, <1>13, <1>14, <1>15 DEF IInv

(* What the persist leaves alone: the plane, the clock and the memory.     *)
LEMMA FilesDoneKeeps == ASSUME IInv, FilesDone PROVE IInv'
  <1> USE DEF FilesDone, plane
  <1>1. Rev' = Rev /\ NamesOf(files) \subseteq Names
    BY DEF Rev, NamesOf, IInv, TypeOK, CacheTypeOK, File
  <1>2. Control' /\ clock' \in Nat /\ clock <= clock'
    BY <1>1 DEF IInv, TypeOK, Control
  <1>3. PhaseInv'
    BY DEF IInv, PhaseInv, memory
  <1>4. AnswerInv'
    BY DEF IInv, AnswerInv, AnswerIsPrimary, Syncing, memory, Rev, PoliciesOf
  <1>5. PersistInv'
    <2>1. Persisting /\ FilesWritten(Names \ {})
      BY DEF IInv, PersistInv, Persisting
    <2>2. FilesWritten(Names)'
      BY <2>1 DEF FilesWritten, disk
    <2>3. todo' \cap NamesOf(got'.policies) = {}
      OBVIOUS
    <2> QED
      BY <2>1, <2>2, <2>3 DEF IInv, PersistInv, memory
  <1>6. RestartServesLastSync'
    BY DEF RestartServesLastSync
  <1> QED
    BY <1>2, <1>3, <1>4, <1>5, <1>6, QuietKeeps

(* A step of a persist: the invariant's parts that the files on disk do    *)
(* not touch.                                                              *)
LEMMA PersistKeeps ==
    ASSUME IInv, Persisting, UNCHANGED <<memory, plane, clock, swapped>>,
           Control',
           legacy' \in File \cup {None}, files' \subseteq File,
           \A f, g \in files' : f.name = g.name => f = g,
           manifest' \in Manifest \cup {None},
           \A f \in files' : f \in files \/ StoredInv(f),
           legacy' = legacy \/ StoredInv(legacy'),
           PhaseInv', AnswerInv', PersistInv', RestartServesLastSync'
    PROVE  IInv'
  <1> USE DEF plane
  <1>1. Rev' = Rev
    BY DEF Rev
  <1>2. CacheTypeOK'
    BY DEF IInv, TypeOK, CacheTypeOK, memory
  <1>3. TypeOK'
    BY <1>1, <1>2 DEF IInv, TypeOK, Control
  <1>4. RevisionsInv'
    BY <1>1 DEF IInv, RevisionsInv, StoredInv, memory
  <1>5. DatedInv' /\ PrimaryResolves' /\ ServesOneCatalog'
    BY <1>1 DEF IInv, DatedInv, PrimaryResolves, ServesOneCatalog, PoliciesOf, memory
  <1> QED
    BY <1>3, <1>4, <1>5 DEF IInv

(* What was just received is what is stored.                               *)
LEMMA StoresNow ==
    ASSUME IInv, Persisting, NEW p \in got.policies
    PROVE  LET f == [name |-> p.name, rev |-> p.rev, mtime |-> clock]
           IN  f \in File /\ StoredInv(f)
  <1>1. Syncing
    BY DEF Syncing, Persisting
  <1>2. /\ p \in Policy /\ p.name \in Names /\ p.rev = got.rev /\ got.rev \in 1..Rev
        /\ got.rev \in Nat
    BY <1>1, AnswerTyped
  <1>3. clock \in Nat /\ receivedAt[got.rev] = clock
    BY DEF IInv, TypeOK, PersistInv
  <1> QED
    BY <1>2, <1>3 DEF File, StoredInv

LEMMA PersistsOneKeeps == ASSUME IInv, PersistsOne PROVE IInv'
  <1> USE DEF PersistsOne, SyncReturns, plane
  <1>1. PICK p \in got.policies : PersistLegacy(p, clock)
    OBVIOUS
  <1>2. Persisting /\ Syncing
    BY DEF Persisting, Syncing
  <1>3. legacy' \in File /\ StoredInv(legacy') /\ UNCHANGED <<files, manifest>>
    BY <1>1, <1>2, StoresNow DEF PersistLegacy, FileOf
  <1>4. Rev' = Rev /\ NoAnswer \in [rev : 0..Rev, policies : SUBSET Policy, primary : Names \cup {None}]
    BY DEF Rev, NoAnswer, IInv, TypeOK
  <1>5. Control'
    BY <1>4 DEF IInv, TypeOK, Control
  <1>6. PhaseInv' /\ AnswerInv' /\ PersistInv'
    BY DEF PhaseInv, AnswerInv, PersistInv, Syncing, Persisting
  <1>7. RestartServesLastSync'
    <2> SUFFICES ASSUME manifest' = None
                 PROVE  DiskImage' = [snaps |-> snaps', primary |-> primary',
                                      last |-> lastSuccess']
      BY DEF RestartServesLastSync, IInv, TypeOK
    <2>1. /\ snaps = got.policies /\ primary = got.primary /\ lastSuccess = clock
          /\ got.policies = {[name |-> got.primary, rev |-> got.rev]}
      BY <1>2 DEF IInv, PersistInv, AnswerInv, AnswerIsPrimary
    <2>2. /\ p = [name |-> got.primary, rev |-> got.rev]
          /\ legacy' = [name |-> got.primary, rev |-> got.rev, mtime |-> clock]
      BY <1>1, <2>1 DEF PersistLegacy, FileOf
    <2>3. ListedFiles' = {} /\ legacy' # None
      BY <2>2, <1>3 DEF ListedFiles, PersistLegacy
    <2>4. LegacyImage' = [snaps |-> {[name |-> got.primary, rev |-> got.rev]},
                          primary |-> got.primary, last |-> clock]
      BY <2>2 DEF LegacyImage, Snapshot
    <2> QED
      BY <2>1, <2>3, <2>4 DEF DiskImage, memory
  <1> QED
    BY <1>2, <1>3, <1>5, <1>6, <1>7, PersistKeeps DEF IInv, TypeOK, CacheTypeOK

LEMMA PersistsFileKeeps == ASSUME IInv, PersistsFile PROVE IInv'
  <1> USE DEF PersistsFile, plane
  <1>1. Persisting /\ Syncing
    BY DEF Persisting, Syncing
  <1>2. PICK p \in got.policies :
           p.name \in todo /\ WriteFile(p, clock) /\ todo' = todo \ {p.name}
    OBVIOUS
  <1> DEFINE f == [name |-> p.name, rev |-> p.rev, mtime |-> clock]
  <1>3. f \in File /\ StoredInv(f)
    BY <1>1, StoresNow
  <1>4. /\ files' = {g \in files : g.name # p.name} \cup {f}
        /\ UNCHANGED <<legacy, manifest>>
    BY <1>2 DEF WriteFile, FileOf
  <1>5. /\ legacy \in File \cup {None} /\ files \subseteq File
        /\ \A g, h \in files : g.name = h.name => g = h
        /\ manifest \in Manifest \cup {None}
    BY DEF IInv, TypeOK, CacheTypeOK
  <1>6. /\ files' \subseteq File /\ \A g, h \in files' : g.name = h.name => g = h
        /\ \A g \in files' : g \in files \/ StoredInv(g)
    BY <1>3, <1>4, <1>5
  <1>7. Control'
    BY <1>2 DEF IInv, TypeOK, Control, Rev
  <1>8. PhaseInv'
    BY DEF IInv, PhaseInv, memory
  <1>9. AnswerInv'
    BY DEF IInv, AnswerInv, AnswerIsPrimary, Syncing, memory, Rev, PoliciesOf
  <1>10. PersistInv'
    <2>1. FilesWritten(Names \ todo)
      BY DEF IInv, PersistInv, Persisting
    <2>2. ASSUME NEW q \in got.policies, q.name \in Names \ todo'
          PROVE  [name |-> q.name, rev |-> q.rev, mtime |-> clock] \in files'
      <3>1. CASE q.name = p.name
        <4>1. q = p
          BY <1>1, <3>1, AnswerTyped
        <4> QED
          BY <4>1, <1>4
      <3>2. CASE q.name # p.name
        BY <3>2, <2>1, <2>2, <1>2, <1>4 DEF FilesWritten
      <3> QED
        BY <3>1, <3>2
    <2>3. FilesWritten(Names \ todo)'
      BY <2>2 DEF FilesWritten
    <2> QED
      BY <1>1, <2>3 DEF IInv, PersistInv, memory
  <1>11. RestartServesLastSync'
    BY DEF RestartServesLastSync
  <1> QED
    BY <1>1, <1>4, <1>5, <1>6, <1>7, <1>8, <1>9, <1>10, <1>11, PersistKeeps

LEMMA DropsOrphanKeeps == ASSUME IInv, DropsOrphan PROVE IInv'
  <1> USE DEF DropsOrphan, plane
  <1>1. Persisting /\ Syncing
    BY DEF Persisting, Syncing
  <1>2. PICK f \in files : /\ f.name \in todo /\ todo' = todo \ {f.name}
                          /\ \/ DropOrphan(f) /\ UNCHANGED faults
                             \/ Fault /\ UNCHANGED disk
    OBVIOUS
  <1>3. /\ files' \subseteq files /\ UNCHANGED <<legacy, manifest>>
        /\ \A g \in files : g.name # f.name => g \in files'
    BY <1>2 DEF DropOrphan, disk
  <1>4. faults' \in Nat
    BY <1>2 DEF Fault, IInv, TypeOK
  <1>5. /\ legacy \in File \cup {None} /\ files \subseteq File
        /\ \A g, h \in files : g.name = h.name => g = h
        /\ manifest \in Manifest \cup {None}
    BY DEF IInv, TypeOK, CacheTypeOK
  <1>6. Control'
    BY <1>2, <1>4 DEF IInv, TypeOK, Control, Rev
  <1>7. PhaseInv'
    BY DEF IInv, PhaseInv, memory
  <1>8. AnswerInv'
    BY DEF IInv, AnswerInv, AnswerIsPrimary, Syncing, memory, Rev, PoliciesOf
  <1>9. PersistInv'
    <2>1. FilesWritten(Names) /\ todo \cap NamesOf(got.policies) = {}
      BY DEF IInv, PersistInv, Persisting
    <2>2. \A q \in got.policies : q.name # f.name
      <3>1. \A q \in got.policies : q.name \in NamesOf(got.policies)
        BY DEF NamesOf
      <3> QED
        BY <1>2, <2>1, <3>1
    <2>3. FilesWritten(Names)'
      BY <1>3, <2>1, <2>2 DEF FilesWritten
    <2>4. todo' \cap NamesOf(got.policies) = {}
      BY <1>2, <2>1
    <2> QED
      BY <1>1, <2>3, <2>4 DEF IInv, PersistInv, memory
  <1>10. RestartServesLastSync'
    BY DEF RestartServesLastSync
  <1> QED
    BY <1>1, <1>3, <1>5, <1>6, <1>7, <1>8, <1>9, <1>10, PersistKeeps

(* With the manifest written, a restart would load what is served.         *)
LEMMA ManifestCompletes ==
    ASSUME IInv, PersistsManifest, snaps # {}
    PROVE  DiskImage' = [snaps |-> snaps, primary |-> primary, last |-> clock]
  <1> USE DEF PersistsManifest
  <1> DEFINE S == ListedFiles'
             Names1 == NamesOf(got.policies)
  <1>1. Persisting /\ Syncing
    BY DEF Persisting, Syncing
  <1>2. /\ manifest' = [names |-> Names1, primary |-> primary]
        /\ files' = files /\ manifest' # None
    <2>1. primary \in Names \cup {None} /\ Names1 \subseteq Names
      BY <1>1, AnswerTyped DEF IInv, TypeOK, CacheTypeOK, NamesOf
    <2>2. manifest' = [names |-> Names1, primary |-> primary] /\ files' = files
      BY DEF WriteManifest
    <2>3. manifest' \in Manifest
      BY <2>1, <2>2 DEF Manifest
    <2> QED
      BY <2>2, <2>3
  <1>3. /\ snaps = got.policies /\ clock \in Nat /\ FilesWritten(Names)
        /\ files \subseteq File /\ \A g, h \in files : g.name = h.name => g = h
        /\ primary # None => primary \in NamesOf(snaps)
    BY <1>1 DEF IInv, TypeOK, CacheTypeOK, PersistInv, PrimaryResolves
  <1>4. S = {g \in files : g.name \in Names1}
    BY <1>2 DEF ListedFiles
  <1>5. ASSUME NEW p \in got.policies
        PROVE  [name |-> p.name, rev |-> p.rev, mtime |-> clock] \in S
    <2>1. p.name \in Names /\ p.name \in Names1
      BY <1>1, AnswerTyped DEF NamesOf
    <2> QED
      BY <1>3, <1>4, <2>1 DEF FilesWritten
  <1>6. ASSUME NEW g \in S
        PROVE  g.mtime = clock /\ Snapshot(g) \in got.policies
    <2>1. PICK p \in got.policies : g.name = p.name
      BY <1>4 DEF NamesOf
    <2>2. g = [name |-> p.name, rev |-> p.rev, mtime |-> clock]
      BY <1>3, <1>4, <1>5, <2>1
    <2>3. p \in Policy
      BY <1>1, AnswerTyped
    <2> QED
      BY <2>2, <2>3 DEF Snapshot, Policy
  <1>7. {Snapshot(g) : g \in S} = snaps
    <2>1. ASSUME NEW p \in snaps
          PROVE  \E g \in S : Snapshot(g) = p
      <3>1. p \in Policy
        BY <1>1, <1>3, AnswerTyped
      <3>2. Snapshot([name |-> p.name, rev |-> p.rev, mtime |-> clock]) = p
        BY <3>1 DEF Snapshot, Policy
      <3> QED
        BY <1>3, <1>5, <3>2
    <2> QED
      BY <1>3, <1>6, <2>1
  <1>8. S # {} /\ Newest(S) = clock
    <2>1. S # {} /\ S \subseteq File /\ \A g \in S : g.mtime <= clock
      <3>1. S # {}
        <4>1. PICK p : p \in got.policies
          BY <1>3
        <4> QED
          BY <1>5, <4>1
      <3>2. \A g \in S : g.mtime <= clock
        BY <1>3, <1>6
      <3> QED
        BY <1>3, <1>4, <3>1, <3>2
    <2>2. \E g \in S : Newest(S) = g.mtime
      BY <1>3, <2>1, NewestExists
    <2> QED
      BY <1>6, <2>1, <2>2
  <1>9. PrimaryIfLoaded' = primary
    <2>1. PrimaryIfLoaded' = IF primary \in NamesOf(S) THEN primary ELSE None
      BY <1>2 DEF PrimaryIfLoaded
    <2>2. ASSUME primary # None
          PROVE  primary \in NamesOf(S)
      <3>1. PICK p \in got.policies : p.name = primary
        BY <1>3, <2>2 DEF NamesOf
      <3>2. \E g \in S : g.name = primary
        BY <1>5, <3>1
      <3> HIDE DEF S
      <3> QED
        BY <3>2 DEF NamesOf
    <2> QED
      BY <2>1, <2>2
  <1> QED
    BY <1>7, <1>8, <1>9 DEF DiskImage, ManifestImage

LEMMA PersistsManifestKeeps == ASSUME IInv, PersistsManifest PROVE IInv'
  <1> USE DEF PersistsManifest, SyncReturns, plane
  <1>1. Persisting /\ Syncing
    BY DEF Persisting, Syncing
  <1>2. /\ files' = files /\ legacy' = legacy
        /\ manifest' = [names |-> NamesOf(got.policies), primary |-> primary]
    BY DEF WriteManifest
  <1>3. manifest' \in Manifest
    <2>1. primary \in Names \cup {None} /\ NamesOf(got.policies) \subseteq Names
      BY <1>1, AnswerTyped DEF IInv, TypeOK, CacheTypeOK, NamesOf
    <2> QED
      BY <1>2, <2>1 DEF Manifest
  <1>4. Rev' = Rev /\ NoAnswer \in [rev : 0..Rev, policies : SUBSET Policy, primary : Names \cup {None}]
    BY DEF Rev, NoAnswer, IInv, TypeOK
  <1>5. Control'
    BY <1>4 DEF IInv, TypeOK, Control
  <1>6. PhaseInv' /\ AnswerInv' /\ PersistInv'
    BY DEF PhaseInv, AnswerInv, PersistInv, Syncing, Persisting
  <1>7. RestartServesLastSync'
    BY <1>1, ManifestCompletes DEF RestartServesLastSync, memory, IInv, PersistInv
  <1> QED
    BY <1>1, <1>2, <1>3, <1>5, <1>6, <1>7, PersistKeeps DEF IInv, TypeOK, CacheTypeOK

-----------------------------------------------------------------------------
(* The process and the world.                                              *)
LEMMA BootKeeps == ASSUME IInv, Boot PROVE IInv'
  <1> USE DEF Boot, plane, disk
  <1>1. \A f \in StoredFiles : /\ f \in File /\ StoredInv(f) /\ f.mtime \in Nat
                              /\ receivedAt[f.rev] \in Nat /\ f.mtime <= clock
    <2>1. \A f \in StoredFiles : f \in File /\ StoredInv(f)
      BY DEF StoredFiles, IInv, TypeOK, CacheTypeOK, RevisionsInv
    <2>2. \A r \in 1..Rev : receivedAt[r] \in Nat /\ receivedAt[r] <= clock
      BY DEF IInv, TypeOK, RevisionsInv
    <2>3. clock \in Nat
      BY DEF IInv, TypeOK
    <2> QED
      BY <2>1, <2>2, <2>3 DEF StoredInv, File
  <1>2. CacheTypeOK /\ clock \in Nat /\ \A f \in files : f.mtime <= clock
    BY <1>1 DEF IInv, TypeOK, StoredFiles
  <1>3. snaps' = DiskImage.snaps /\ primary' = DiskImage.primary /\ lastSuccess' = DiskImage.last
    BY DEF MemoryIs, Loaded
  <1>4. Rev' = Rev
    BY DEF Rev
  <1>5. CacheTypeOK'
    BY <1>2, <1>3, ImageOfDisk DEF CacheTypeOK
  <1>6. multi' \in BOOLEAN /\ pc' = (IF multi' THEN "get" ELSE "getOne")
    OBVIOUS
  <1>7. Control'
    BY <1>4, <1>6 DEF IInv, TypeOK, Control
  <1>8. TypeOK'
    BY <1>4, <1>5, <1>7 DEF IInv, TypeOK, Control
  <1>9. PhaseInv'
    BY <1>6 DEF PhaseInv
  <1>10. RevisionsInv'
    <2>1. \A s \in snaps' : s.rev \in 1..Rev
      BY <1>1, <1>2, <1>3, ImageOfDisk DEF StoredInv
    <2>2. \A s, t \in snaps' : s.name = t.name => s = t
      BY <1>2, <1>3, ImageOfDisk
    <2> QED
      BY <1>4, <2>1, <2>2 DEF IInv, RevisionsInv, StoredInv
  <1>11. DatedInv'
    <2> SUFFICES ASSUME snaps' # {}
                 PROVE  lastSuccess' # Never /\ \E s \in snaps' : lastSuccess' <= receivedAt'[s.rev]
      BY DEF DatedInv
    <2>1. PICK f \in StoredFiles : Snapshot(f) \in snaps' /\ lastSuccess' = f.mtime
      BY <1>2, <1>3, ImageOfDisk
    <2>2. Snapshot(f).rev = f.rev
      BY DEF Snapshot
    <2> QED
      BY <1>1, <2>1, <2>2 DEF StoredInv, Never
  <1>12. PrimaryResolves'
    BY <1>2, <1>3, ImageOfDisk DEF PrimaryResolves
  <1>13. AnswerInv' /\ PersistInv' /\ ServesOneCatalog' /\ RestartServesLastSync'
    BY <1>6 DEF AnswerInv, PersistInv, ServesOneCatalog, RestartServesLastSync,
                Syncing, Persisting
  <1> QED
    BY <1>8, <1>9, <1>10, <1>11, <1>12, <1>13 DEF IInv

(* The process is gone: nothing in memory, nothing in flight.              *)
LEMMA EndedKeeps ==
    ASSUME IInv, MemoryIs(EmptyMemory), UNCHANGED <<plane, clock>>,
           files' \subseteq files, legacy' \in {legacy, None}, manifest' \in {manifest, None},
           Control', proc' = "down", pc' = "idle", ~swapped'
    PROVE  IInv'
  <1> USE DEF plane
  <1>1. snaps' = {} /\ primary' = None /\ lastSuccess' = Never
    BY DEF MemoryIs, EmptyMemory
  <1>2. Rev' = Rev
    BY DEF Rev
  <1>3. CacheTypeOK'
    BY <1>1 DEF IInv, TypeOK, CacheTypeOK
  <1>4. TypeOK'
    BY <1>2, <1>3 DEF IInv, TypeOK, Control
  <1>5. RevisionsInv'
    BY <1>1, <1>2 DEF IInv, RevisionsInv, StoredInv
  <1>6. PhaseInv' /\ DatedInv' /\ AnswerInv' /\ PersistInv' /\ PrimaryResolves'
        /\ ServesOneCatalog' /\ RestartServesLastSync'
    BY <1>1 DEF PhaseInv, DatedInv, AnswerInv, PersistInv, PrimaryResolves,
                ServesOneCatalog, RestartServesLastSync, Syncing, Persisting
  <1> QED
    BY <1>4, <1>5, <1>6 DEF IInv

LEMMA KillKeeps == ASSUME IInv, Kill PROVE IInv'
  <1> USE DEF Kill
  <1>1. Rev' = Rev /\ NoAnswer \in [rev : 0..Rev, policies : SUBSET Policy, primary : Names \cup {None}]
    BY DEF Rev, NoAnswer, plane, IInv, TypeOK
  <1>2. swapped' \in BOOLEAN /\ multi' \in BOOLEAN /\ restarts' \in Nat
    <2>1. restarts' \in Nat
      BY DEF IInv, TypeOK
    <2>2. multi \in BOOLEAN /\ multi' = multi
      BY DEF IInv, TypeOK
    <2>3. swapped' \in BOOLEAN
      OBVIOUS
    <2> QED
      BY <2>1, <2>2, <2>3
  <1>3. got' \in [rev : 0..Rev, policies : SUBSET Policy, primary : Names \cup {None}]
    BY <1>1
  <1>4. proc' = "down" /\ pc' = "idle" /\ todo' = {} /\ result' = "none" /\ faults' \in Nat
    BY DEF IInv, TypeOK
  <1>5. Control'
    BY <1>1, <1>2, <1>3, <1>4 DEF Control
  <1> QED
    BY <1>5, EndedKeeps DEF disk

(* The swap of a process that is down has been forgotten with it.          *)
LEMMA FileLostKeeps == ASSUME IInv, FileLost PROVE IInv'
  <1> USE DEF FileLost
  <1>1. /\ UNCHANGED <<memory, plane, clock, syncVars, restarts>>
        /\ faults' \in Nat /\ proc = "down"
    BY DEF Fault, IInv, TypeOK
  <1>2. files' \subseteq files /\ legacy' \in {legacy, None} /\ manifest' \in {manifest, None}
    OBVIOUS
  <1>3. snaps = {} /\ lastSuccess = Never /\ pc = "idle" /\ primary = None
    BY <1>1 DEF IInv, PhaseInv, PrimaryResolves, NamesOf
  <1>4. MemoryIs(EmptyMemory)
    BY <1>1, <1>3 DEF MemoryIs, EmptyMemory, memory
  <1>5. Control' /\ proc' = "down" /\ pc' = "idle"
    BY <1>1, <1>3 DEF IInv, TypeOK, Control, syncVars, plane, Rev
  <1>6. ~swapped'
    BY <1>1 DEF IInv, PhaseInv, syncVars
  <1> QED
    BY <1>1, <1>2, <1>4, <1>5, <1>6, EndedKeeps

LEMMA MintRaisesKeeps == ASSUME IInv, MintRaises PROVE IInv'
  <1> USE DEF MintRaises, plane
  <1>1. faults' \in Nat /\ clock' \in Nat /\ clock <= clock' /\ Rev' = Rev
    BY DEF Fault, IInv, TypeOK, Rev
  <1>2. Control'
    BY <1>1 DEF IInv, TypeOK, Control
  <1>3. pc' \in {"idle", "dead"}
    OBVIOUS
  <1>4. AnswerInv' /\ PersistInv'
    BY <1>3 DEF AnswerInv, PersistInv, Syncing, Persisting
  <1>5. CASE proc = "up" /\ pc' = "dead" /\ UNCHANGED <<memory, proc>>
    <2>1. PhaseInv' /\ RestartServesLastSync'
      BY <1>5 DEF PhaseInv, RestartServesLastSync
    <2> QED
      BY <1>1, <1>2, <1>4, <1>5, <2>1, QuietKeeps
  <1>6. CASE proc = "warming" /\ pc' = "idle" /\ proc' = "up" /\ UNCHANGED memory
    <2>1. PhaseInv' /\ RestartServesLastSync'
      BY <1>6 DEF PhaseInv, RestartServesLastSync, IInv
    <2> QED
      BY <1>1, <1>2, <1>4, <1>6, <2>1, QuietKeeps
  <1>7. CASE proc = "warming" /\ pc' = "idle" /\ proc' = "down" /\ MemoryIs(EmptyMemory)
    <2>1. ~swapped'
      BY <1>7 DEF IInv, PhaseInv
    <2> QED
      BY <1>2, <1>7, <2>1, EndedKeeps DEF disk
  <1> QED
    BY <1>5, <1>6, <1>7

LEMMA PublishKeeps == ASSUME IInv, Publish PROVE IInv'
  <1> USE DEF Publish, syncVars
  <1>1. PICK N \in SUBSET Names : \E p \in N \cup {None} :
           catalogs' = Append(catalogs, [names |-> N, primary |-> p])
    OBVIOUS
  <1>2. PICK p \in N \cup {None} : catalogs' = Append(catalogs, [names |-> N, primary |-> p])
    BY <1>1
  <1>3. /\ catalogs \in Seq(Catalog) /\ receivedAt \in Seq(Nat) /\ Rev \in Nat /\ Rev >= 1
        /\ Len(receivedAt) = Rev /\ Rev = Len(catalogs) /\ clock \in Nat
    BY CatalogsTyped DEF IInv, TypeOK, Catalog, Rev
  <1>4. [names |-> N, primary |-> p] \in Catalog
    BY DEF Catalog
  <1>5. /\ catalogs' \in Seq(Catalog) /\ Rev' = Rev + 1
        /\ \A r \in 1..Rev : catalogs'[r] = catalogs[r]
        /\ catalogs'[Rev + 1] = [names |-> N, primary |-> p]
    <2> HIDE DEF Catalog
    <2> QED
      BY <1>2, <1>3, <1>4 DEF Rev
  <1>6. /\ receivedAt' \in Seq(Nat) /\ Len(receivedAt') = Rev'
        /\ \A r \in 1..Rev : receivedAt'[r] = receivedAt[r]
        /\ receivedAt'[Rev + 1] = clock
    BY <1>3, <1>5
  <1>7. \A r \in 1..Rev' : r \in 1..Rev \/ r = Rev + 1
    BY <1>3, <1>5
  <1>8. \A r \in 1..Rev : r \in 1..Rev'
    BY <1>3, <1>5
  <1>9. \A r \in 1..Rev : PoliciesOf(r)' = PoliciesOf(r)
    <2> SUFFICES ASSUME NEW r \in 1..Rev
                 PROVE  PoliciesOf(r)' = PoliciesOf(r)
      OBVIOUS
    <2>1. catalogs'[r] = catalogs[r]
      BY <1>5
    <2> QED
      BY <2>1 DEF PoliciesOf
  <1>10. TypeOK'
    <2>1. \A r \in 1..Rev' : catalogs'[r].primary \in catalogs'[r].names \cup {None}
      <3>1. \A r \in 1..Rev : catalogs'[r].primary \in catalogs'[r].names \cup {None}
        BY <1>5, CatalogsTyped
      <3>2. catalogs'[Rev + 1].primary \in catalogs'[Rev + 1].names \cup {None}
        <4>1. catalogs'[Rev + 1] = [names |-> N, primary |-> p] /\ p \in N \cup {None}
          BY <1>2, <1>5
        <4> HIDE DEF Publish
        <4> QED
          BY <4>1
      <3> QED
        BY <1>7, <3>1, <3>2
    <2>2. CacheTypeOK'
      BY DEF IInv, TypeOK, CacheTypeOK, memory, disk
    <2>3. Control'
      BY <1>3, <1>5 DEF IInv, TypeOK, Control
    <2> QED
      BY <1>3, <1>5, <1>6, <2>1, <2>2, <2>3 DEF TypeOK, Control, Catalog
  <1>11. PhaseInv' /\ PrimaryResolves'
    BY DEF IInv, PhaseInv, PrimaryResolves, memory
  <1>12. RevisionsInv'
    <2>1. \A f : StoredInv(f) => StoredInv(f)'
      BY <1>6, <1>8 DEF StoredInv
    <2>2. \A r \in 1..Rev' : receivedAt'[r] <= clock
      BY <1>3, <1>6, <1>7 DEF IInv, RevisionsInv
    <2>3. /\ \A s \in snaps : s.rev \in 1..Rev
          /\ \A s, t \in snaps : s.name = t.name => s = t
          /\ \A f \in files : StoredInv(f)
          /\ legacy # None => StoredInv(legacy)
      BY DEF IInv, RevisionsInv
    <2>4. /\ \A s \in snaps : s.rev \in 1..Rev'
          /\ \A f \in files : StoredInv(f)'
          /\ legacy # None => /\ legacy.rev \in 1..Rev'
                             /\ legacy.mtime <= receivedAt'[legacy.rev]
      BY <1>6, <1>8, <2>1, <2>3 DEF StoredInv
    <2> QED
      BY <2>2, <2>3, <2>4 DEF RevisionsInv, StoredInv, memory, disk
  <1>13. DatedInv'
    BY <1>6 DEF IInv, DatedInv, RevisionsInv, memory
  <1>14. AnswerInv'
    BY <1>5, <1>8, <1>9 DEF IInv, AnswerInv, AnswerIsPrimary, Syncing, memory
  <1>15. PersistInv'
    <2>1. Persisting => receivedAt'[got.rev] = receivedAt[got.rev]
      BY <1>6 DEF Syncing, Persisting, IInv, AnswerInv
    <2> QED
      BY <2>1 DEF IInv, PersistInv, FilesWritten, Persisting, memory, disk
  <1>16. ServesOneCatalog'
    BY <1>5, <1>8, <1>9 DEF IInv, ServesOneCatalog, memory
  <1>17. RestartServesLastSync'
    <2>1. DiskImage' = DiskImage
      BY SameDiskSameImage
    <2> QED
      BY <2>1 DEF IInv, RestartServesLastSync, memory, disk
  <1> QED
    BY <1>10, <1>11, <1>12, <1>13, <1>14, <1>15, <1>16, <1>17 DEF IInv

-----------------------------------------------------------------------------
LEMMA StepKeeps == ASSUME IInv, [Next]_vars PROVE IInv'
  <1>1. CASE SyncStep
    BY <1>1, AnswerAllKeeps, FallBackKeeps, AnswerOneKeeps, SyncNotFoundKeeps, SyncSwapsKeeps,
       PersistsOneKeeps, PersistsFileKeeps, FilesDoneKeeps, DropsOrphanKeeps,
       PersistsManifestKeeps DEF SyncStep
  <1>2. CASE UNCHANGED vars \/ BootRaises
    <2>1. /\ UNCHANGED <<memory, disk, plane, swapped>> /\ clock' = clock
          /\ UNCHANGED <<syncVars, restarts>> /\ faults' \in Nat
      BY <1>2 DEF vars, syncVars, BootRaises, Fault, IInv, TypeOK
    <2>2. clock' \in Nat /\ clock <= clock' /\ Control'
      BY <2>1 DEF IInv, TypeOK, Control, syncVars, plane, Rev
    <2>3. PhaseInv' /\ AnswerInv'
      BY <2>1 DEF IInv, PhaseInv, AnswerInv, AnswerIsPrimary, Syncing, memory, Rev,
                  PoliciesOf, syncVars, plane
    <2>4. PersistInv'
      BY <2>1 DEF IInv, PersistInv, FilesWritten, Persisting, memory, disk, syncVars, plane
    <2>5. RestartServesLastSync'
      BY <2>1, SameDiskSameImage DEF IInv, RestartServesLastSync, memory, disk, syncVars
    <2> QED
      BY <2>1, <2>2, <2>3, <2>4, <2>5, QuietKeeps
  <1> QED
    BY <1>1, <1>2, PublishKeeps, ClockTickKeeps, BootKeeps, SyncStartKeeps, MintRaisesKeeps,
       SyncFailsKeeps, PersistRaisesKeeps, KillKeeps, FileLostKeeps DEF Next

THEOREM Invariant == Spec => []IInv
  <1>1. Init => IInv
    BY InitInv
  <1>2. IInv /\ [Next]_vars => IInv'
    BY StepKeeps
  <1> QED
    BY <1>1, <1>2, PTL DEF Spec

(* Every variable keeps its type, for any names and bounds.                *)
THEOREM TypeCorrect == Spec => []TypeOK
  <1>1. IInv => TypeOK
    BY DEF IInv
  <1> QED
    BY <1>1, Invariant, PTL

(* The primary's name never dangles: not after a swap, nor after a boot    *)
(* from a directory that a persist cut short has left (cache.py            *)
(* _load_manifest, replace_all).                                           *)
THEOREM PrimaryAlwaysResolves == Spec => []PrimaryResolves
  <1>1. IInv => PrimaryResolves
    BY DEF IInv
  <1> QED
    BY <1>1, Invariant, PTL

(* After its first swap a process serves one published catalog, whatever   *)
(* is published, fails or is tried again meanwhile (cache.py replace_all). *)
THEOREM NeverAMixture == Spec => []ServesOneCatalog
  <1>1. IInv => ServesOneCatalog
    BY DEF IInv
  <1> QED
    BY <1>1, Invariant, PTL

(* Fresh policies include one received within the threshold, through any   *)
(* restarts and failures (stale.py status, cache.py _load_manifest).       *)
THEOREM FreshAlwaysFetched == Spec => []FreshMeansFetched
  <1>1. IInv => FreshMeansFetched
    <2> SUFFICES ASSUME IInv, snaps # {}, ~Stale
                 PROVE  \E s \in snaps : clock - receivedAt[s.rev] <= Threshold
      BY DEF FreshMeansFetched
    <2>1. PICK s \in snaps : lastSuccess <= receivedAt[s.rev]
      BY DEF IInv, DatedInv
    <2>2. lastSuccess \in Nat /\ clock \in Nat /\ receivedAt[s.rev] \in Nat
      BY DEF IInv, TypeOK, CacheTypeOK, DatedInv, RevisionsInv
    <2>3. clock - lastSuccess <= Threshold
      BY <2>2 DEF Stale
    <2> QED
      BY <2>1, <2>2, <2>3
  <1> QED
    BY <1>1, Invariant, PTL

(* The files and the manifest that a sync has written one by one agree     *)
(* with the memory once it reports success (cache.py                       *)
(* _persist_manifest_to_disk, load_from_disk).                             *)
THEOREM StoredIsServed == Spec => []RestartServesLastSync
  <1>1. IInv => RestartServesLastSync
    BY DEF IInv
  <1> QED
    BY <1>1, Invariant, PTL

(* A running process never returns to an older revision of a policy:       *)
(* answers overtaken by a newer catalog included (sync.py sync_once).      *)
THEOREM NeverGoesBack == Spec => NeverBackwards
  <1> DEFINE Forward ==
        proc # "down" /\ proc' # "down"
            => \A s \in snaps, t \in snaps' : s.name = t.name => s.rev <= t.rev
  <1>1. IInv /\ [Next]_vars => [Forward]_vars
    <2> SUFFICES ASSUME IInv, Next, proc # "down", proc' # "down",
                        NEW s \in snaps, NEW t \in snaps', s.name = t.name
                 PROVE  s.rev <= t.rev
      OBVIOUS
    <2>1. \A u, v \in snaps : u.name = v.name => u.rev <= v.rev
      <3>1. \A u \in snaps : u.rev \in Nat
        BY DEF IInv, TypeOK, CacheTypeOK, Policy
      <3>2. \A u, v \in snaps : u.name = v.name => u = v
        BY DEF IInv, RevisionsInv
      <3> QED
        BY <3>1, <3>2
    <2>2. CASE UNCHANGED memory
      BY <2>1, <2>2 DEF memory
    <2>3. CASE SyncSwaps
      <3>1. Syncing /\ t \in got.policies
        BY <2>3 DEF SyncSwaps, Swap, Syncing
      <3> QED
        BY <3>1, AnswerTyped DEF IInv, AnswerInv
    <2>4. \/ UNCHANGED memory \/ SyncSwaps \/ Boot \/ Kill \/ MintRaises
      BY DEF Next, SyncStep, Publish, ClockTick, BootRaises, SyncStart, AnswerAll, FallBackToOne,
             AnswerOne, SyncNotFound, PersistsOne, PersistsFile, FilesDone, DropsOrphan,
             PersistsManifest, SyncFails, PersistRaises, FileLost
    <2>5. Boot \/ Kill => FALSE
      BY DEF Boot, Kill
    <2>6. MintRaises => UNCHANGED memory
      BY DEF MintRaises
    <2> QED
      BY <2>2, <2>3, <2>4, <2>5, <2>6
  <1> QED
    BY <1>1, Invariant, PTL DEF Spec, NeverBackwards

-----------------------------------------------------------------------------
(* The turns of the event loop.                                            *)

(* Only the swap begins a persist, and nothing but its own steps, and a    *)
(* publication elsewhere, happens until it ends.                           *)
LEMMA PersistIsUndisturbed ==
    ASSUME IInv, Next, Persisting'
    PROVE  SyncSwaps \/ PersistsFile \/ FilesDone \/ DropsOrphan \/ (Publish /\ Persisting)
  <1>1. ~ (Boot \/ BootRaises \/ SyncStart \/ MintRaises \/ Kill)
    BY DEF Persisting, Boot, BootRaises, SyncStart, MintRaises, Kill, syncVars, IInv, PhaseInv
  <1>2. ~ (SyncFails \/ PersistRaises \/ SyncNotFound \/ PersistsOne \/ PersistsManifest)
    BY DEF Persisting, SyncFails, PersistRaises, SyncNotFound, PersistsOne, PersistsManifest,
           SyncReturns
  <1>3. ~ (AnswerAll \/ FallBackToOne \/ AnswerOne)
    BY DEF Persisting, AnswerAll, FallBackToOne, AnswerOne
  <1>4. Publish => Persisting
    BY DEF Persisting, Publish, syncVars
  <1>5. ~ ClockTick
    BY DEF Persisting, ClockTick, syncVars
  <1>6. FileLost => Persisting /\ proc = "down"
    BY DEF Persisting, FileLost, syncVars
  <1>7. ~ FileLost
    BY <1>6 DEF Persisting, IInv, PhaseInv
  <1> QED
    BY <1>1, <1>2, <1>3, <1>4, <1>5, <1>7 DEF Next, SyncStep

(* What a persist that is at work has in common with the turn's beginning. *)
LEMMA PersistStepNoted ==
    ASSUME IInv, TurnInv, Next, Noted, Persisting'
    PROVE  TurnInv'
  <1>1. turn' = turn
    BY DEF Noted
  <1>2. CASE SyncSwaps
    <2>1. turn = Cache /\ UNCHANGED <<legacy, files, manifest>> /\ got' = got /\ clock' = clock
      BY <1>2 DEF SyncSwaps, TurnInv, Persisting, disk
    <2>2. turn.legacy = legacy /\ turn.files = files /\ turn.manifest = manifest /\ turn.snaps = snaps
      BY <2>1 DEF Cache
    <2>3. \A s \in turn.snaps : s.rev <= got.rev
      BY <1>2, <2>2 DEF SyncSwaps, IInv, AnswerInv, Syncing
    <2>4. pc' = "files" /\ todo' = NamesOf(got.policies)
      BY <1>2 DEF SyncSwaps
    <2>5. Turns!Written(got.policies \ StillToWrite, clock)' = files'
      <3>1. (got.policies \ StillToWrite)' = {}
        BY <2>1, <2>4 DEF StillToWrite, NamesOf
      <3> QED
        BY <1>1, <2>1, <2>2, <3>1 DEF Turns!Written, Turns!Orphans, Turns!NamesOf
    <2> QED
      BY <1>1, <2>1, <2>2, <2>3, <2>4, <2>5 DEF TurnInv
  <1>3. CASE PersistsFile
    <2>1. PICK p \in got.policies :
             p.name \in todo /\ WriteFile(p, clock) /\ todo' = todo \ {p.name}
      BY <1>3 DEF PersistsFile
    <2>2. /\ pc = "files" /\ pc' = "files" /\ multi /\ multi' = multi /\ Persisting /\ Syncing
          /\ got' = got /\ clock' = clock
      BY <1>3 DEF PersistsFile, Persisting, Syncing
    <2>3. /\ files' = {f \in files : f.name # p.name} \cup {FileOf(p, clock)}
          /\ UNCHANGED <<legacy, manifest>>
      BY <2>1 DEF WriteFile
    <2> DEFINE done  == got.policies \ StillToWrite
    <2>4. files = Turns!Written(done, clock)
      BY <2>2 DEF TurnInv
    <2>5. done' = done \cup {p}
      <3>1. \A q \in got.policies : q.name = p.name => q = p
        BY <2>2, AnswerTyped
      <3> QED
        BY <2>1, <2>2, <3>1 DEF StillToWrite
    <2>6. files' = Turns!Written(done', clock)
      <3>1. \A q \in done : q.name # p.name
        BY <2>1 DEF StillToWrite
      <3>2. files = {f \in turn.files : f.name \notin NamesOf(done)} \cup {FileOf(q, clock) : q \in done}
        BY <2>4 DEF Turns!Written, Turns!Orphans, Turns!NamesOf, NamesOf, Turns!FileOf, FileOf
      <3>3. \A q : FileOf(q, clock).name = q.name
        BY DEF FileOf
      <3>4. NamesOf(done') = NamesOf(done) \cup {p.name}
        BY <2>5 DEF NamesOf
      <3>5. files' = {f \in turn.files : f.name \notin NamesOf(done')}
                     \cup {FileOf(q, clock) : q \in done'}
        <4> HIDE DEF done
        <4>1. ASSUME NEW f PROVE f \in files' <=>
                 \/ f \in turn.files /\ f.name \notin NamesOf(done')
                 \/ \E q \in done' : f = FileOf(q, clock)
          BY <2>3, <2>5, <3>1, <3>2, <3>3, <3>4
        <4> QED
          BY <4>1
      <3> QED
        BY <3>5 DEF Turns!Written, Turns!Orphans, Turns!NamesOf, NamesOf, Turns!FileOf, FileOf
    <2>7. Turns!Written(done, clock)' = Turns!Written(done', clock)
      BY <1>1, <2>2 DEF Turns!Written, Turns!Orphans, Turns!NamesOf, Turns!FileOf
    <2> QED
      BY <1>1, <2>2, <2>3, <2>6, <2>7 DEF TurnInv
  <1>4. CASE FilesDone
    <2>1. /\ pc = "files" /\ pc' = "orphans" /\ multi /\ todo = {} /\ Persisting /\ got' = got
          /\ clock' = clock /\ multi' = multi /\ UNCHANGED <<legacy, files, manifest>>
      BY <1>4 DEF FilesDone, Persisting, disk
    <2>2. files = Turns!Written(got.policies, clock)
      <3>1. got.policies \ StillToWrite = got.policies
        BY <2>1 DEF StillToWrite
      <3> QED
        BY <2>1, <3>1 DEF TurnInv
    <2>3. /\ Turns!Written(got.policies, clock)' = Turns!Written(got.policies, clock)
          /\ Turns!Orphans(got.policies)' = Turns!Orphans(got.policies)
      BY <1>1, <2>1 DEF Turns!Written, Turns!Orphans, Turns!NamesOf, Turns!FileOf
    <2>4. files' = Turns!Written(got.policies, clock)' \ {}
      BY <2>1, <2>2, <2>3
    <2> QED
      BY <1>1, <2>1, <2>4 DEF TurnInv
  <1>5. CASE DropsOrphan
    <2>1. PICK f \in files : /\ f.name \in todo
                             /\ DropOrphan(f) \/ UNCHANGED disk
      BY <1>5 DEF DropsOrphan
    <2>2. /\ pc = "orphans" /\ pc' = "orphans" /\ Persisting /\ got' = got
          /\ clock' = clock /\ multi' = multi /\ UNCHANGED <<legacy, manifest>>
          /\ files' = files \ {f} \/ files' = files
      BY <1>5, <2>1 DEF DropsOrphan, DropOrphan, Persisting, disk
    <2>3. PICK dropped \in SUBSET Turns!Orphans(got.policies) :
             files = Turns!Written(got.policies, clock) \ dropped
      BY <2>2 DEF TurnInv
    <2>4. f \in Turns!Orphans(got.policies)
      <3>1. f.name \notin NamesOf(got.policies)
        BY <2>1, <2>2 DEF IInv, PersistInv
      <3>2. \A p \in got.policies : f # Turns!FileOf(p, clock)
        BY <3>1 DEF NamesOf, Turns!FileOf
      <3> QED
        BY <2>3, <3>2 DEF Turns!Written
    <2>5. \E more \in SUBSET Turns!Orphans(got.policies) :
             files' = Turns!Written(got.policies, clock) \ more
      <3>1. CASE files' = files \ {f}
        <4>1. /\ dropped \cup {f} \in SUBSET Turns!Orphans(got.policies)
              /\ files' = Turns!Written(got.policies, clock) \ (dropped \cup {f})
          BY <2>3, <2>4, <3>1
        <4> QED
          BY <4>1
      <3>2. CASE files' = files
        BY <2>3, <3>2
      <3> QED
        BY <2>2, <3>1, <3>2
    <2>6. /\ Turns!Written(got.policies, clock)' = Turns!Written(got.policies, clock)
          /\ Turns!Orphans(got.policies)' = Turns!Orphans(got.policies)
      BY <1>1, <2>2 DEF Turns!Written, Turns!Orphans, Turns!NamesOf, Turns!FileOf
    <2>7. \A t \in turn.snaps : t.rev <= got.rev
      BY <2>2 DEF TurnInv
    <2>8. multi' /\ legacy' = turn'.legacy /\ manifest' = turn'.manifest
      BY <1>1, <2>2 DEF TurnInv, IInv, PhaseInv
    <2>9. \E more \in SUBSET Turns!Orphans(got.policies)' :
             files' = Turns!Written(got.policies, clock)' \ more
      BY <2>5, <2>6
    <2> QED
      BY <1>1, <2>2, <2>7, <2>8, <2>9 DEF TurnInv
  <1>6. CASE Publish /\ Persisting
    <2>1. UNCHANGED <<legacy, files, manifest, got, clock, multi, pc, todo>>
      BY <1>6 DEF Publish, disk, syncVars
    <2>2. /\ Turns!Written(got.policies \ StillToWrite, clock)'
                = Turns!Written(got.policies \ StillToWrite, clock)
          /\ Turns!Written(got.policies, clock)' = Turns!Written(got.policies, clock)
          /\ Turns!Orphans(got.policies)' = Turns!Orphans(got.policies)
      BY <1>1, <2>1 DEF StillToWrite, Turns!Written, Turns!Orphans, Turns!NamesOf, Turns!FileOf
    <2> QED
      BY <1>1, <1>6, <2>1, <2>2 DEF TurnInv, Persisting
  <1> QED
    BY <1>2, <1>3, <1>4, <1>5, <1>6, PersistIsUndisturbed

LEMMA TurnStepKeeps == ASSUME IInv, TurnInv, [Next /\ Noted]_<<vars, turn>> PROVE TurnInv'
  <1>1. CASE UNCHANGED <<vars, turn>>
    BY <1>1 DEF vars, memory, disk, syncVars, TurnInv, Persisting, StillToWrite, Cache,
                Turns!Written, Turns!Orphans, Turns!NamesOf, Turns!FileOf
  <1>2. CASE Next /\ Noted /\ Persisting'
    BY <1>2, PersistStepNoted
  <1>3. CASE Next /\ Noted /\ ~ Persisting'
    BY <1>3 DEF Noted, TurnInv
  <1> QED
    BY <1>1, <1>2, <1>3

-----------------------------------------------------------------------------
(* The end of a turn in which a sync persists: seen from outside, its      *)
(* answer, which was still to come when the turn began, is swapped in.     *)
LEMMA SwapIsSeen ==
    ASSUME IInv, TurnInv, Persisting
    PROVE  /\ got.rev \in 1..Turns!Rev /\ Turns!Current(got.rev)
           /\ got.policies \in Turns!Answers(got.rev)
           /\ turn' = Cache' /\ UNCHANGED memory
                 => Turns!Swap(got.policies, catalogs[got.rev].primary, clock)
  <1>1. /\ got.rev \in 1..Rev /\ got.primary = catalogs[got.rev].primary
        /\ (multi /\ got.policies = PoliciesOf(got.rev)) \/ AnswerIsPrimary
    BY DEF IInv, AnswerInv, Syncing, Persisting
  <1>2. snaps = got.policies /\ primary = got.primary /\ lastSuccess = clock
    BY DEF IInv, PersistInv
  <1>3. got.rev \in 1..Turns!Rev /\ Turns!Current(got.rev)
    BY <1>1 DEF TurnInv, Turns!Current, Turns!Rev, Rev
  <1>4. got.policies \in Turns!Answers(got.rev)
    <2>1. CASE multi /\ got.policies = PoliciesOf(got.rev)
      BY <2>1 DEF Turns!Answers, Turns!Whole, PoliciesOf
    <2>2. CASE AnswerIsPrimary
      <3>1. Turns!Alone(got.rev) = {[name |-> got.primary, rev |-> got.rev]}
        BY <1>1, <2>2 DEF Turns!Alone, AnswerIsPrimary
      <3> QED
        BY <2>2, <3>1 DEF Turns!Answers, AnswerIsPrimary
    <2> QED
      BY <1>1, <2>1, <2>2
  <1>5. ASSUME turn' = Cache', UNCHANGED memory
        PROVE  Turns!Swap(got.policies, catalogs[got.rev].primary, clock)
    <2>1. turn'.snaps = snaps /\ turn'.primary = primary /\ turn'.last = lastSuccess
      BY <1>5 DEF Cache, memory
    <2>2. primary # None => primary \in NamesOf(snaps)
      BY DEF IInv, PrimaryResolves
    <2> QED
      BY <1>1, <1>2, <2>1, <2>2 DEF Turns!Swap, Turns!NamesOf, NamesOf
  <1> QED
    BY <1>3, <1>4, <1>5

(* A persist that goes no further has left the disk cut short, or, in      *)
(* single-policy mode, as it was.                                          *)
LEMMA CutIsSeen ==
    ASSUME IInv, TurnInv, Persisting, turn' = Cache', UNCHANGED disk
    PROVE  /\ multi => Turns!PersistCutShort(got.policies, clock)
           /\ ~ multi => UNCHANGED Turns!disk
  <1>1. /\ turn'.legacy = legacy /\ turn'.files = files /\ turn'.manifest = manifest
        /\ legacy = turn.legacy /\ manifest = turn.manifest
    BY DEF Cache, disk, TurnInv
  <1>2. CASE ~ multi
    BY <1>1, <1>2 DEF TurnInv, Turns!disk
  <1>3. CASE multi /\ pc = "files"
    <2>1. got.policies \ StillToWrite \in SUBSET got.policies
      OBVIOUS
    <2>2. files = Turns!Written(got.policies \ StillToWrite, clock)
      BY <1>3 DEF TurnInv, Persisting
    <2> QED
      BY <1>1, <1>3, <2>1, <2>2 DEF Turns!PersistCutShort
  <1>4. CASE multi /\ pc = "orphans"
    BY <1>1, <1>4 DEF TurnInv, Persisting, Turns!PersistCutShort
  <1> QED
    BY <1>2, <1>3, <1>4 DEF Persisting

(* What a boot loads, seen from outside, is what PolicySync loads.         *)
LEMMA ImageIsSeen ==
    ASSUME turn = Cache
    PROVE  Turns!DiskImage = DiskImage
  <1>1. turn.legacy = legacy /\ turn.files = files /\ turn.manifest = manifest
    BY DEF Cache
  <1>2. Turns!ListedFiles = ListedFiles
    BY <1>1 DEF Turns!ListedFiles, ListedFiles
  <1>3. Turns!PrimaryIfLoaded = PrimaryIfLoaded
    BY <1>1, <1>2 DEF Turns!PrimaryIfLoaded, PrimaryIfLoaded, Turns!NamesOf, NamesOf
  <1>4. Turns!Newest(ListedFiles) = Newest(ListedFiles)
    BY DEF Turns!Newest, Newest
  <1>5. /\ Turns!ManifestImage = ManifestImage /\ Turns!LegacyImage = LegacyImage
        /\ Turns!EmptyMemory = EmptyMemory
    BY <1>1, <1>2, <1>3, <1>4
    DEF Turns!ManifestImage, ManifestImage, Turns!LegacyImage, LegacyImage, Turns!Snapshot,
        Snapshot, Turns!EmptyMemory, EmptyMemory, Turns!Never, Never
  <1> QED
    BY <1>1, <1>2, <1>5 DEF Turns!DiskImage, DiskImage

(* Between two turns: every step is one that is seen, or none.             *)
LEMMA BetweenTurns ==
    ASSUME IInv, TurnInv, Next, ~ Persisting, ~ Persisting', turn' = Cache'
    PROVE  [Turns!Next]_(Turns!turnVars)
  <1>1. turn = Cache
    BY DEF TurnInv
  <1>2. ASSUME UNCHANGED memory
        PROVE  UNCHANGED Turns!memory
    BY <1>1, <1>2 DEF memory, Turns!memory, Cache
  <1>3. ASSUME UNCHANGED disk
        PROVE  UNCHANGED Turns!disk
    BY <1>1, <1>3 DEF disk, Turns!disk, Cache
  <1>4. ASSUME UNCHANGED <<memory, disk, plane, clock, multi>>
        PROVE  UNCHANGED Turns!turnVars
    BY <1>2, <1>3, <1>4 DEF plane, Turns!turnVars
  <1>5. CASE Publish
    BY <1>2, <1>3, <1>5 DEF Publish, syncVars, Turns!Publish, Turns!Next
  <1>6. CASE ClockTick
    BY <1>2, <1>3, <1>6 DEF ClockTick, plane, syncVars, Turns!ClockTick, Turns!Next
  <1>7. CASE Boot
    <2>1. Turns!MemoryIs(Turns!DiskImage)
      BY <1>1, <1>7, ImageIsSeen DEF Boot, Loaded, MemoryIs, Turns!MemoryIs, Cache
    <2>2. Turns!Cold
      BY <1>1, <1>7 DEF Boot, IInv, PhaseInv, Cache, Turns!Cold, Never, Turns!Never
    <2> QED
      BY <1>3, <1>7, <2>1, <2>2 DEF Boot, plane, Turns!Boot, Turns!Next
  <1>8. ASSUME MemoryIs(EmptyMemory), UNCHANGED <<disk, plane, clock, multi>>
        PROVE  Turns!Ends
    <2>1. Turns!MemoryIs(Turns!EmptyMemory)
      BY <1>8 DEF MemoryIs, EmptyMemory, Turns!MemoryIs, Turns!EmptyMemory, Cache, Never,
                  Turns!Never
    <2> QED
      BY <1>3, <1>8, <2>1 DEF plane, Turns!Ends
  <1>9. CASE Kill
    BY <1>8, <1>9 DEF Kill, Turns!Next
  <1>10. CASE MintRaises
    <2>1. UNCHANGED memory \/ MemoryIs(EmptyMemory)
      BY <1>10 DEF MintRaises
    <2>2. UNCHANGED <<disk, plane, clock, multi>>
      BY <1>10 DEF MintRaises
    <2> QED
      BY <1>4, <1>8, <2>1, <2>2 DEF Turns!Next
  <1>11. CASE FileLost
    <2>1. snaps = {} /\ lastSuccess = Never
      BY <1>11 DEF FileLost, IInv, PhaseInv
    <2>2. /\ Turns!Cold /\ turn.files = files
          /\ turn.legacy = legacy /\ turn.manifest = manifest
          /\ turn'.files = files' /\ turn'.legacy = legacy' /\ turn'.manifest = manifest'
      BY <1>1, <2>1 DEF Cache, Turns!Cold, Never, Turns!Never
    <2>3. UNCHANGED <<memory, catalogs, clock, multi>>
      BY <1>11 DEF FileLost, plane, syncVars
    <2>4. \/ \E f \in files : files' = files \ {f} /\ UNCHANGED <<legacy, manifest>>
          \/ manifest' = None /\ UNCHANGED <<legacy, files>>
          \/ legacy' = None /\ UNCHANGED <<files, manifest>>
      BY <1>11 DEF FileLost
    <2>5. Turns!FileLost
      BY <1>2, <2>2, <2>3, <2>4 DEF Turns!FileLost, Turns!DropOrphan
    <2> QED
      BY <2>5 DEF Turns!Next
  <1>12. CASE BootRaises \/ SyncStart \/ AnswerAll \/ FallBackToOne \/ AnswerOne
    BY <1>4, <1>12 DEF BootRaises, SyncStart, AnswerAll, FallBackToOne, AnswerOne, syncVars
  <1>13. CASE SyncNotFound \/ SyncFails
    BY <1>4, <1>13 DEF SyncNotFound, SyncFails, SyncReturns
  <1>14. CASE SyncSwaps
    BY <1>14 DEF SyncSwaps, Persisting
  <1>15. ~ (PersistsOne \/ PersistsFile \/ FilesDone \/ DropsOrphan \/ PersistsManifest
            \/ PersistRaises)
    BY DEF Persisting, PersistsOne, PersistsFile, FilesDone, DropsOrphan, PersistsManifest,
           PersistRaises
  <1> QED
    BY <1>5, <1>6, <1>7, <1>9, <1>10, <1>11, <1>12, <1>13, <1>14, <1>15 DEF Next, SyncStep

(* Inside a turn: nothing is seen but what happens elsewhere.              *)
LEMMA WithinTurn ==
    ASSUME IInv, Next, turn' = turn, Persisting'
    PROVE  [Turns!Next]_(Turns!turnVars)
  <1>1. UNCHANGED <<Turns!memory, Turns!disk>>
    BY DEF Turns!memory, Turns!disk
  <1>2. CASE Publish
    BY <1>1, <1>2 DEF Publish, syncVars, Turns!Publish, Turns!Next
  <1>3. CASE SyncSwaps \/ PersistsFile \/ FilesDone \/ DropsOrphan
    <2>1. UNCHANGED <<catalogs, clock, multi>>
      BY <1>3 DEF SyncSwaps, PersistsFile, FilesDone, DropsOrphan, plane
    <2> QED
      BY <1>1, <2>1 DEF Turns!turnVars
  <1> QED
    BY <1>2, <1>3, PersistIsUndisturbed

(* A turn ends: the sync returns, or the process with it.                  *)
LEMMA TurnEnds ==
    ASSUME IInv, TurnInv, Next, Persisting, ~ Persisting', turn' = Cache'
    PROVE  Turns!Next
  <1>1. PersistsOne \/ PersistsManifest \/ PersistRaises \/ Kill
    <2>1. ~ (Publish \/ ClockTick)
      BY DEF Persisting, Publish, ClockTick, syncVars
    <2>2. ~ (Boot \/ BootRaises \/ FileLost)
      BY DEF Persisting, Boot, BootRaises, FileLost, IInv, PhaseInv
    <2>3. ~ (SyncStart \/ AnswerAll \/ FallBackToOne \/ AnswerOne \/ SyncNotFound \/ SyncSwaps)
      BY DEF Persisting, SyncStart, AnswerAll, FallBackToOne, AnswerOne, SyncNotFound, SyncSwaps
    <2>4. ~ (MintRaises \/ SyncFails \/ PersistsFile \/ FilesDone \/ DropsOrphan)
      BY DEF Persisting, MintRaises, SyncFails, PersistsFile, FilesDone, DropsOrphan
    <2> QED
      BY <2>1, <2>2, <2>3, <2>4 DEF Next, SyncStep
  <1>2. /\ got.rev \in 1..Turns!Rev /\ Turns!Current(got.rev)
        /\ got.policies \in Turns!Answers(got.rev)
        /\ got.primary = catalogs[got.rev].primary
    BY SwapIsSeen DEF IInv, AnswerInv, Syncing, Persisting
  <1>3. ASSUME UNCHANGED <<memory, plane, clock, multi>>,
               Turns!Stored(got.policies, catalogs[got.rev].primary)
        PROVE  Turns!Next
    <2>1. Turns!Swap(got.policies, catalogs[got.rev].primary, clock)
      BY <1>3, SwapIsSeen
    <2>2. Turns!Sync
      BY <1>2, <1>3, <2>1 DEF Turns!Sync, plane
    <2> QED
      BY <2>2 DEF Turns!Next
  <1>4. CASE PersistsOne
    <2>1. ~ multi /\ UNCHANGED <<memory, plane, clock, multi>>
      BY <1>4 DEF PersistsOne, SyncReturns
    <2>2. PICK p \in got.policies : PersistLegacy(p, clock)
      BY <1>4 DEF PersistsOne
    <2>3. Turns!PersistLegacy(p, clock)
      BY <2>1, <2>2 DEF PersistLegacy, FileOf, Turns!PersistLegacy, Turns!FileOf, Cache,
                       TurnInv
    <2> QED
      BY <1>3, <2>1, <2>3 DEF Turns!Stored
  <1>5. CASE PersistsManifest
    <2>1. /\ pc = "orphans" /\ multi /\ UNCHANGED <<memory, plane, clock, multi>>
          /\ primary = got.primary
      BY <1>5 DEF PersistsManifest, SyncReturns, IInv, PhaseInv, PersistInv, Persisting
    <2>2. /\ turn'.manifest = [names |-> NamesOf(got.policies), primary |-> primary]
          /\ turn'.files = files /\ turn'.legacy = legacy
      BY <1>5 DEF PersistsManifest, WriteManifest, Cache
    <2>3. Turns!PersistAll(got.policies, catalogs[got.rev].primary, clock)
      BY <1>2, <2>1, <2>2 DEF TurnInv, Turns!PersistAll, Turns!NamesOf, NamesOf
    <2> QED
      BY <1>3, <2>1, <2>3 DEF Turns!Stored
  <1>6. CASE PersistRaises
    <2>1. UNCHANGED <<memory, disk, plane, clock, multi>>
      BY <1>6 DEF PersistRaises, SyncReturns
    <2>2. Turns!Stored(got.policies, catalogs[got.rev].primary)
      BY <2>1, CutIsSeen DEF Turns!Stored
    <2> QED
      BY <1>3, <2>1, <2>2
  <1>7. CASE Kill
    <2>1. MemoryIs(EmptyMemory) /\ UNCHANGED <<disk, plane, clock, multi>>
      BY <1>7 DEF Kill
    <2>2. Turns!MemoryIs(Turns!EmptyMemory)
      BY <2>1 DEF MemoryIs, EmptyMemory, Turns!MemoryIs, Turns!EmptyMemory, Cache, Never,
                  Turns!Never
    <2>3. Turns!Ends
      BY <1>2, <2>1, <2>2, CutIsSeen DEF Turns!Ends, plane
    <2> QED
      BY <2>3 DEF Turns!Next
  <1> QED
    BY <1>1, <1>4, <1>5, <1>6, <1>7

LEMMA StepIsSeen ==
    ASSUME IInv, TurnInv, [Next /\ Noted]_<<vars, turn>>
    PROVE  [Turns!Next]_(Turns!turnVars)
  <1>1. CASE UNCHANGED <<vars, turn>>
    BY <1>1 DEF vars, plane, syncVars, Turns!turnVars, Turns!memory, Turns!disk
  <1>2. CASE Next /\ Noted /\ Persisting'
    BY <1>2, WithinTurn DEF Noted
  <1>3. CASE Next /\ Noted /\ ~ Persisting' /\ Persisting
    BY <1>3, TurnEnds DEF Noted
  <1>4. CASE Next /\ Noted /\ ~ Persisting' /\ ~ Persisting
    BY <1>4, BetweenTurns DEF Noted
  <1> QED
    BY <1>1, <1>2, <1>3, <1>4

LEMMA InitIsSeen == TurnsInit => TurnInv /\ Turns!Init
  <1> SUFFICES ASSUME TurnsInit
               PROVE  TurnInv /\ Turns!Init
    OBVIOUS
  <1> USE DEF TurnsInit, Init
  <1>1. TurnInv
    BY DEF TurnInv, Persisting
  <1>2. PICK n \in Names : catalogs = <<[names |-> {n}, primary |-> n]>>
    OBVIOUS
  <1>3. Len(catalogs) = 1 /\ catalogs[1].names = {n}
    BY <1>2
  <1>4. legacy # None => legacy = [name |-> n, rev |-> 1, mtime |-> 0]
    BY <1>3
  <1>5. legacy \in {None} \cup {Turns!FileOf(p, 0) : p \in Turns!Whole(1)}
    <2>1. [name |-> n, rev |-> 1] \in Turns!Whole(1)
      BY <1>3 DEF Turns!Whole
    <2>2. Turns!FileOf([name |-> n, rev |-> 1], 0) = [name |-> n, rev |-> 1, mtime |-> 0]
      BY DEF Turns!FileOf
    <2> HIDE DEF Init, TurnsInit
    <2> QED
      BY <1>4, <2>1, <2>2
  <1>6. /\ turn.snaps = {} /\ turn.primary = None /\ turn.last = Never
        /\ turn.legacy = legacy /\ turn.files = {} /\ turn.manifest = None
    BY DEF Cache
  <1> QED
    BY <1>1, <1>3, <1>5, <1>6 DEF Turns!Init, Turns!Rev, Turns!Never, Never

(* No request handler meets a sync half done, and no boot a state          *)
(* directory that one sync, done or cut short, has not left: swap, files,  *)
(* orphans and manifest come to one step of the cache and its disk, for    *)
(* any policies, in both modes (sync.py sync_once; cache.py replace,       *)
(* replace_all, _persist_manifest_to_disk).                                *)
THEOREM SyncIsOneTurn == TurnsSpec => KeepsTurns
  <1>1. TurnsInit => IInv /\ TurnInv /\ Turns!Init
    BY InitInv, InitIsSeen DEF TurnsInit
  <1>2. IInv /\ TurnInv /\ [Next /\ Noted]_<<vars, turn>> => IInv' /\ TurnInv'
    <2>1. [Next /\ Noted]_<<vars, turn>> => [Next]_vars
      OBVIOUS
    <2> QED
      BY <2>1, StepKeeps, TurnStepKeeps
  <1>3. IInv /\ TurnInv /\ [Next /\ Noted]_<<vars, turn>> => [Turns!Next]_(Turns!turnVars)
    BY StepIsSeen
  <1> QED
    BY <1>1, <1>2, <1>3, PTL DEF TurnsSpec, KeepsTurns, Turns!Spec
=============================================================================
