-------------------------- MODULE PolicyCacheProofs --------------------------
(***************************************************************************)
(* What the cache loads from any state directory, whatever the names.      *)
(***************************************************************************)
EXTENDS PolicyCache, FiniteSetTheorems, WellFoundedInduction, TLAPS

(* Of the dates of some files, none later than n, one is the newest: the   *)
(* one with the fewest instants after it.                                  *)
LEMMA NewestExists ==
    ASSUME NEW S, S \subseteq File, S # {}, NEW n \in Nat, \A f \in S : f.mtime <= n
    PROVE  \E f \in S : Newest(S) = f.mtime
  <1> DEFINE I        == 0..n
             After(f) == {m \in I : m > f.mtime}
             T        == {After(f) : f \in S}
  <1>1. IsFiniteSet(I)
    BY FS_Interval
  <1>2. \A f \in S : f.mtime \in I
    BY DEF File
  <1>3. T \subseteq FiniteSubsetsOf(I) /\ T # {}
    <2>1. \A f \in S : After(f) \in SUBSET I
      OBVIOUS
    <2>2. \A f \in S : IsFiniteSet(After(f))
      BY <1>1, <2>1, FS_Subset
    <2>3. \A f \in S : After(f) \in FiniteSubsetsOf(I)
      BY <2>1, <2>2 DEF FiniteSubsetsOf
    <2> HIDE DEF After, I
    <2> QED
      BY <2>3
  <1>4. IsWellFoundedOn(StrictSubsetOrdering(I), FiniteSubsetsOf(I))
    BY FS_StrictSubsetOrderingWellFounded
  <1>5. PICK A \in T : \A B \in T : ~ (<<B, A>> \in StrictSubsetOrdering(I))
    BY <1>3, <1>4, WFMin
  <1>6. PICK f \in S : A = After(f)
    OBVIOUS
  <1>7. ASSUME NEW g \in S, ~ (g.mtime <= f.mtime)
        PROVE  FALSE
    <2>1. g.mtime \in I /\ f.mtime \in I /\ f.mtime < g.mtime
      BY <1>2, <1>7
    <2>2. After(g) \subseteq After(f)
      BY <2>1
    <2>3. g.mtime \in After(f) /\ g.mtime \notin After(g)
      BY <2>1
    <2>4. <<After(g), After(f)>> \in StrictSubsetOrdering(I)
      BY <2>2, <2>3 DEF StrictSubsetOrdering
    <2> QED
      BY <1>5, <1>6, <2>4
  <1>8. \E m \in {g.mtime : g \in S} : \A g \in S : g.mtime <= m
    BY <1>7
  <1> QED
    BY <1>8 DEF Newest

(* The files that load_from_disk may read.                                 *)
StoredFiles == files \cup ({legacy} \ {None})

(* What a boot loads (cache.py load_from_disk) is well-formed, comes from  *)
(* the stored files, is dated by one of those it comes from, and has its   *)
(* primary in the map.                                                     *)
LEMMA ImageOfDisk ==
    ASSUME CacheTypeOK, NEW n \in Nat, \A f \in files : f.mtime <= n
    PROVE  /\ DiskImage.snaps \subseteq Policy
           /\ DiskImage.primary \in Names \cup {None}
           /\ DiskImage.last \in Nat \cup {Never}
           /\ DiskImage.primary # None => DiskImage.primary \in NamesOf(DiskImage.snaps)
           /\ \A s \in DiskImage.snaps : \E f \in StoredFiles : s.rev = f.rev
           /\ \A s, t \in DiskImage.snaps : s.name = t.name => s = t
           /\ DiskImage.snaps # {} =>
                 \E f \in StoredFiles : /\ Snapshot(f) \in DiskImage.snaps
                                        /\ DiskImage.last = f.mtime
           /\ DiskImage.snaps = {} => DiskImage = EmptyMemory
  <1>1. CASE ListedFiles # {}
    <2>1. ListedFiles \subseteq File /\ ListedFiles \subseteq files
      BY DEF CacheTypeOK, ListedFiles
    <2>2. PICK f \in ListedFiles : Newest(ListedFiles) = f.mtime
      BY <1>1, <2>1, NewestExists
    <2>3. DiskImage = [snaps   |-> {Snapshot(g) : g \in ListedFiles},
                       primary |-> PrimaryIfLoaded,
                       last    |-> f.mtime]
      BY <1>1, <2>2 DEF DiskImage, ManifestImage
    <2>4. \A g \in ListedFiles : /\ Snapshot(g) \in Policy
                                 /\ Snapshot(g).rev = g.rev /\ Snapshot(g).name = g.name
      BY <2>1 DEF Snapshot, File, Policy
    <2>5. PrimaryIfLoaded # None => \E g \in ListedFiles : g.name = PrimaryIfLoaded
      BY DEF PrimaryIfLoaded, NamesOf
    <2>6. PrimaryIfLoaded \in Names \cup {None}
      BY <2>1, <2>5 DEF File
    <2>7. PrimaryIfLoaded # None => PrimaryIfLoaded \in NamesOf(DiskImage.snaps)
      BY <2>3, <2>4, <2>5 DEF NamesOf
    <2>8. f.mtime \in Nat
      BY <2>1 DEF File
    <2>9. \A s \in DiskImage.snaps : s \in Policy /\ \E g \in StoredFiles : s.rev = g.rev
      BY <2>1, <2>3, <2>4 DEF StoredFiles
    <2>10. \A s, t \in DiskImage.snaps : s.name = t.name => s = t
      BY <2>1, <2>3, <2>4 DEF CacheTypeOK
    <2>11. f \in StoredFiles /\ Snapshot(f) \in DiskImage.snaps
      BY <2>1, <2>3 DEF StoredFiles
    <2> QED
      BY <2>3, <2>6, <2>7, <2>8, <2>9, <2>10, <2>11
  <1>2. CASE ListedFiles = {} /\ legacy # None
    <2>1. legacy \in File
      BY <1>2 DEF CacheTypeOK
    <2>2. DiskImage = [snaps |-> {Snapshot(legacy)}, primary |-> legacy.name,
                       last |-> legacy.mtime]
      BY <1>2 DEF DiskImage, LegacyImage
    <2>3. /\ Snapshot(legacy) \in Policy
          /\ Snapshot(legacy).rev = legacy.rev /\ Snapshot(legacy).name = legacy.name
          /\ legacy.name \in Names /\ legacy.mtime \in Nat
      BY <2>1 DEF Snapshot, File, Policy
    <2>4. legacy \in StoredFiles
      BY <1>2 DEF StoredFiles
    <2>5. legacy.name \in NamesOf(DiskImage.snaps)
      BY <2>2, <2>3 DEF NamesOf
    <2> QED
      BY <2>2, <2>3, <2>4, <2>5
  <1>3. CASE ListedFiles = {} /\ legacy = None
    BY <1>3 DEF DiskImage, EmptyMemory, NamesOf
  <1> QED
    BY <1>1, <1>2, <1>3

(* A persist, done or cut short, leaves one file per name, and none that   *)
(* it neither found nor wrote (cache.py _persist_manifest_to_disk).        *)
LEMMA PersistLeavesFiles ==
    ASSUME CacheTypeOK, NEW now \in Nat, NEW prim \in Names \cup {None},
           NEW policies \in SUBSET Policy,
           \A p, q \in policies : p.name = q.name => p = q,
           PersistAll(policies, prim, now) \/ PersistCutShort(policies, now)
    PROVE  /\ files' \subseteq File
           /\ \A f, g \in files' : f.name = g.name => f = g
           /\ \A f \in files' : f \in files \/ \E p \in policies : f = FileOf(p, now)
           /\ legacy' = legacy /\ manifest' \in Manifest \cup {None}
  <1>1. PICK done \in SUBSET policies : files' \subseteq Written(done, now)
    <2>1. CASE \E done \in SUBSET policies : files' = Written(done, now)
      BY <2>1
    <2>2. CASE \E dropped \in SUBSET Orphans(policies) : files' = Written(policies, now) \ dropped
      BY <2>2
    <2> QED
      BY <2>1, <2>2 DEF PersistAll, PersistCutShort
  <1>2. \A p \in policies : FileOf(p, now) \in File /\ FileOf(p, now).name = p.name
    BY DEF FileOf, File, Policy
  <1>3. \A f \in files' : \/ f \in files /\ f.name \notin NamesOf(done)
                          \/ \E p \in done : f = FileOf(p, now)
    BY <1>1 DEF Written, Orphans
  <1>4. \A p \in done : p \in policies /\ p.name \in NamesOf(done)
    BY DEF NamesOf
  <1>5. \A f, g \in files : f.name = g.name => f = g
    BY DEF CacheTypeOK
  <1>6. \A f, g \in files' : f.name = g.name => f = g
    <2>1. ASSUME NEW f \in files', NEW g \in files', f.name = g.name
          PROVE  f = g
      BY <1>2, <1>3, <1>4, <1>5, <2>1
    <2> QED
      BY <2>1
  <1>7. files' \subseteq File
    BY <1>2, <1>3, <1>4 DEF CacheTypeOK
  <1>8. NamesOf(policies) \subseteq Names
    BY DEF NamesOf, Policy
  <1>9. legacy' = legacy /\ manifest' \in Manifest \cup {None}
    BY <1>8 DEF PersistAll, PersistCutShort, Manifest, CacheTypeOK
  <1> QED
    BY <1>3, <1>4, <1>6, <1>7, <1>9
=============================================================================
