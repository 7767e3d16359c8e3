-------------------------- MODULE EdgeDecideProofs --------------------------
(***************************************************************************)
(* The safety of EdgeDecide for every set of policies, clients and scopes, *)
(* every threshold and token life, and any number of syncs, restarts and   *)
(* tokens.                                                                 *)
(***************************************************************************)
EXTENDS EdgeDecide, PolicyCacheProofs, TLAPS

(* Whatever it answers, the gateway's lists of clients are lists, and an   *)
(* answer is dated now.                                                    *)
LEMMA AnswersTyped ==
    ASSUME TypeOK, NEW names \in SUBSET Names, NEW prim \in names \cup {None},
           NEW l \in Listings
    PROVE  /\ \A n \in Names : Single(n, l) \in Answer /\ Single(n, l).at = clock
           /\ \A a \in Answered(names, prim, l) : a \in Answer /\ a.at = clock
  <1>1. l \in SUBSET Entry
    BY DecideAssumption
  <1>2. clock \in Nat
    BY DEF TypeOK
  <1>3. \A m \in Names : Single(m, l) \in Answer /\ Single(m, l).at = clock
    BY <1>1, <1>2 DEF Single, Answer
  <1>4. \A a \in Answered(names, prim, l) :
           \/ \E m \in Names : a = Single(m, l)
           \/ a = [at |-> clock, plural |-> TRUE, names |-> names,
                   primary |-> prim, listed |-> l]
    BY DEF Answered
  <1>5. LET a == [at |-> clock, plural |-> TRUE, names |-> names,
                  primary |-> prim, listed |-> l]
        IN  a \in Answer /\ a.at = clock
    BY <1>1, <1>2 DEF Answer
  <1> QED
    BY <1>3, <1>4, <1>5

(* Who may be served a token comes from a list.                            *)
LEMMA AuthorizedAreEntries ==
    ASSUME TypeOK, ServedInv
    PROVE  AuthorizedClients \subseteq Entry
  <1> SUFFICES ASSUME NEW s \in snaps, NEW e \in Carried(answers[s.rev])
               PROVE  e \in Entry
    BY DEF AuthorizedClients
  <1>1. answers[s.rev] \in Answer
    BY DEF TypeOK, ServedInv
  <1> QED
    BY <1>1 DEF Carried, Answer

-----------------------------------------------------------------------------
(* The swap of an answer leaves a well-formed memory that came with it.    *)
LEMMA ReceiveStep ==
    ASSUME TypeOK, AnswersInv, NEW a \in Answer, a.at = clock, Receives(a)
    PROVE  /\ answers' \in Seq(Answer)
           /\ DOMAIN answers \subseteq DOMAIN answers'
           /\ \A r \in DOMAIN answers : answers'[r] = answers[r]
           /\ Len(answers) + 1 \in DOMAIN answers'
           /\ answers'[Len(answers) + 1] = a
           /\ snaps' \subseteq Policy
           /\ primary' \in Names \cup {None}
           /\ lastSuccess' = clock
           /\ AnswersInv' /\ ServedInv'
  <1> DEFINE r == Len(answers) + 1
  <1>1. /\ answers \in Seq(Answer) /\ clock \in Nat /\ clock' = clock
        /\ answers' = Append(answers, a)
        /\ Len(answers) \in Nat
    BY DEF TypeOK, Receives
  <1>2. /\ answers' \in Seq(Answer)
        /\ DOMAIN answers = 1..Len(answers)
        /\ DOMAIN answers' = 1..r
        /\ \A q \in 1..Len(answers) : answers'[q] = answers[q]
        /\ answers'[r] = a
    BY <1>1
  <1>3. r \in DOMAIN answers' /\ DOMAIN answers \subseteq DOMAIN answers'
    BY <1>1, <1>2
  <1>4. a.names \subseteq Names /\ a.primary \in Names \cup {None}
    BY DEF Answer
  <1>5. /\ snaps' = {[name |-> n, rev |-> r] : n \in a.names}
        /\ primary' \in Names \cup {None}
        /\ lastSuccess' = clock
    BY <1>4 DEF Receives, Swap, PoliciesOf
  <1>6. snaps' \subseteq Policy
    BY <1>1, <1>4, <1>5 DEF Policy
  <1>7. AnswersInv'
    BY <1>1, <1>2 DEF AnswersInv
  <1>8. \A s \in snaps' : s.rev = r
    BY <1>5
  <1>9. ServedInv'
    BY <1>2, <1>3, <1>5, <1>8 DEF ServedInv
  <1> QED
    BY <1>2, <1>3, <1>5, <1>6, <1>7, <1>9

(* A file of an answer is one of it for good.                              *)
LEMMA FilesKeepTheirAnswer ==
    ASSUME NEW f, IsOfAnswer(f),
           DOMAIN answers \subseteq DOMAIN answers',
           \A r \in DOMAIN answers : answers'[r] = answers[r]
    PROVE  IsOfAnswer(f)'
  BY DEF IsOfAnswer

(* A file that the persist of an answer has written is one of it.          *)
LEMMA WrittenIsOfAnswer ==
    ASSUME TypeOK, AnswersInv, NEW a \in Answer, a.at = clock, Receives(a),
           NEW p \in PoliciesOf(a, Len(answers) + 1), NEW f, f = FileOf(p, clock)
    PROVE  IsOfAnswer(f)'
  <1>1. Len(answers) + 1 \in DOMAIN answers' /\ answers'[Len(answers) + 1] = a
    BY ReceiveStep
  <1>2. f.rev = Len(answers) + 1 /\ f.mtime = clock
    BY DEF PoliciesOf, FileOf
  <1> QED
    BY <1>1, <1>2 DEF IsOfAnswer

-----------------------------------------------------------------------------
(* What a boot loads is well-formed, and dated by one of its files.        *)
LEMMA LoadedImage ==
    ASSUME TypeOK, AnswersInv, DiskInv
    PROVE  /\ DiskImage.snaps \subseteq Policy
           /\ DiskImage.primary \in Names \cup {None}
           /\ DiskImage.last \in Nat \cup {Never}
           /\ \A s \in DiskImage.snaps : s.rev \in DOMAIN answers
           /\ DiskImage.snaps # {} =>
                 \E s \in DiskImage.snaps : DiskImage.last = answers[s.rev].at
  <1>1. CASE ListedFiles # {}
    <2>1. ListedFiles \subseteq File /\ \A f \in ListedFiles : f \in files /\ IsOfAnswer(f)
      BY DEF TypeOK, CacheTypeOK, ListedFiles, DiskInv
    <2>2. clock \in Nat /\ \A f \in ListedFiles : f.mtime <= clock
      BY <2>1 DEF TypeOK, AnswersInv, IsOfAnswer
    <2>3. PICK f \in ListedFiles : Newest(ListedFiles) = f.mtime
      BY <1>1, <2>1, <2>2, NewestExists
    <2>4. /\ DiskImage.snaps = {Snapshot(g) : g \in ListedFiles}
          /\ DiskImage.primary = PrimaryIfLoaded
          /\ DiskImage.last = f.mtime
      BY <1>1, <2>3 DEF DiskImage, ManifestImage
    <2>5. \A g \in ListedFiles : Snapshot(g) \in Policy /\ Snapshot(g).rev = g.rev
      BY <2>1 DEF Snapshot, File, Policy
    <2>6. PrimaryIfLoaded \in Names \cup {None}
      BY <2>1 DEF PrimaryIfLoaded, NamesOf, File
    <2>7. f.mtime \in Nat /\ f.mtime = answers[f.rev].at
      BY <2>1 DEF File, IsOfAnswer
    <2>8. \A g \in ListedFiles : g.rev \in DOMAIN answers
      BY <2>1 DEF IsOfAnswer
    <2>9. Snapshot(f) \in DiskImage.snaps /\ DiskImage.last = answers[Snapshot(f).rev].at
      BY <2>4, <2>5, <2>7
    <2> QED
      BY <2>4, <2>5, <2>6, <2>7, <2>8, <2>9
  <1>2. CASE ListedFiles = {} /\ legacy # None
    <2>1. legacy \in File /\ IsOfAnswer(legacy)
      BY <1>2 DEF TypeOK, CacheTypeOK, DiskInv
    <2>2. /\ DiskImage.snaps = {Snapshot(legacy)}
          /\ DiskImage.primary = legacy.name
          /\ DiskImage.last = legacy.mtime
      BY <1>2 DEF DiskImage, LegacyImage
    <2>3. Snapshot(legacy) \in Policy /\ Snapshot(legacy).rev = legacy.rev
      BY <2>1 DEF Snapshot, File, Policy
    <2>4. legacy.name \in Names /\ legacy.mtime \in Nat
      BY <2>1 DEF File
    <2> QED
      BY <2>1, <2>2, <2>3, <2>4 DEF IsOfAnswer
  <1>3. CASE ListedFiles = {} /\ legacy = None
    BY <1>3 DEF DiskImage, EmptyMemory
  <1> QED
    BY <1>1, <1>2, <1>3

-----------------------------------------------------------------------------
(* What the handlers of data keep: the cache, its files and the answers.   *)
DataInv == CacheTypeOK /\ answers \in Seq(Answer) /\ AnswersInv /\ DiskInv /\ ServedInv

LEMMA SyncOneStep ==
    ASSUME IInv, NEW n \in Names, NEW l \in Listings, SyncOne(n, l)
    PROVE  DataInv'
  <1> DEFINE a == Single(n, l)
  <1>1. PICK b \in Answer : b = a /\ b.at = clock
    <2>1. None \in {} \cup {None} /\ {} \in SUBSET Names
      OBVIOUS
    <2> QED
      BY <2>1, AnswersTyped DEF IInv
  <1>2. Receives(b)
    BY <1>1 DEF SyncOne
  <1>3. /\ answers' \in Seq(Answer)
        /\ DOMAIN answers \subseteq DOMAIN answers'
        /\ \A q \in DOMAIN answers : answers'[q] = answers[q]
        /\ Len(answers) + 1 \in DOMAIN answers'
        /\ answers'[Len(answers) + 1] = b
        /\ snaps' \subseteq Policy
        /\ primary' \in Names \cup {None}
        /\ lastSuccess' = clock
        /\ AnswersInv' /\ ServedInv'
    BY <1>1, <1>2, ReceiveStep DEF IInv
  <1>4. files' = files /\ manifest' = manifest
    BY DEF SyncOne, PersistLegacy, FileOf, disk
  <1>5. \/ legacy' = legacy
        \/ legacy' = [name |-> n, rev |-> Len(answers) + 1, mtime |-> clock]
    BY DEF SyncOne, PersistLegacy, FileOf, disk
  <1>6. clock \in Nat /\ Len(answers) + 1 \in Nat
    BY DEF IInv, TypeOK
  <1>7. legacy' # None => legacy' \in File /\ IsOfAnswer(legacy)'
    <2>1. CASE legacy' = legacy
      BY <1>3, <2>1 DEF IInv, TypeOK, CacheTypeOK, DiskInv, IsOfAnswer
    <2>2. CASE legacy' = [name |-> n, rev |-> Len(answers) + 1, mtime |-> clock]
      <3>1. legacy' \in File /\ legacy'.rev = Len(answers) + 1 /\ legacy'.mtime = clock
        BY <1>6, <2>2 DEF File
      <3> QED
        BY <1>1, <1>3, <3>1 DEF IsOfAnswer
    <2> QED
      BY <1>5, <2>1, <2>2
  <1>8. \A f \in files : IsOfAnswer(f)'
    BY <1>3, FilesKeepTheirAnswer DEF IInv, DiskInv
  <1>9. CacheTypeOK'
    BY <1>3, <1>4, <1>6, <1>7 DEF IInv, TypeOK, CacheTypeOK
  <1>10. DiskInv'
    BY <1>4, <1>7, <1>8 DEF DiskInv
  <1> QED
    BY <1>3, <1>9, <1>10 DEF DataInv

LEMMA SyncAllStep ==
    ASSUME IInv, NEW names \in SUBSET Names, NEW prim \in names \cup {None},
           NEW l \in Listings, SyncAll(names, prim, l)
    PROVE  DataInv'
  <1>1. PICK a \in Answered(names, prim, l) :
           /\ Receives(a)
           /\ LET policies == PoliciesOf(a, Len(answers) + 1)
              IN  PersistAll(policies, prim, clock) \/ PersistCutShort(policies, clock)
    BY DEF SyncAll
  <1> DEFINE policies == PoliciesOf(a, Len(answers) + 1)
  <1>2. a \in Answer /\ a.at = clock
    BY <1>1, AnswersTyped DEF IInv
  <1>3. /\ answers' \in Seq(Answer)
        /\ DOMAIN answers \subseteq DOMAIN answers'
        /\ \A q \in DOMAIN answers : answers'[q] = answers[q]
        /\ snaps' \subseteq Policy
        /\ primary' \in Names \cup {None}
        /\ lastSuccess' = clock
        /\ AnswersInv' /\ ServedInv'
    BY <1>1, <1>2, ReceiveStep DEF IInv
  <1>4. /\ policies \in SUBSET Policy /\ \A p, q \in policies : p.name = q.name => p = q
        /\ clock \in Nat /\ CacheTypeOK
    <2>1. Len(answers) + 1 \in Nat /\ a.names \subseteq Names
      BY <1>2 DEF IInv, TypeOK, Answer
    <2> QED
      BY <2>1 DEF PoliciesOf, Policy, IInv, TypeOK
  <1>5. /\ files' \subseteq File
        /\ \A f, g \in files' : f.name = g.name => f = g
        /\ \A f \in files' : f \in files \/ \E p \in policies : f = FileOf(p, clock)
        /\ legacy' = legacy /\ manifest' \in Manifest \cup {None}
    <2> HIDE DEF policies
    <2>1. PersistAll(policies, prim, clock) \/ PersistCutShort(policies, clock)
      BY <1>1 DEF policies
    <2> QED
      BY <1>4, <2>1, PersistLeavesFiles
  <1>6. \A f \in files' : IsOfAnswer(f)'
    <2> SUFFICES ASSUME NEW f \in files'
                 PROVE  IsOfAnswer(f)'
      OBVIOUS
    <2>1. CASE f \in files
      BY <1>3, <2>1, FilesKeepTheirAnswer DEF IInv, DiskInv
    <2>2. CASE \E p \in policies : f = FileOf(p, clock)
      BY <1>1, <1>2, <2>2, WrittenIsOfAnswer DEF IInv
    <2> QED
      BY <1>5, <2>1, <2>2
  <1>7. legacy' \in File \cup {None} /\ (legacy' # None => IsOfAnswer(legacy)')
    BY <1>3, <1>5 DEF IInv, TypeOK, CacheTypeOK, DiskInv, IsOfAnswer
  <1>8. lastSuccess' \in Nat \cup {Never}
    BY <1>3 DEF IInv, TypeOK
  <1>9. CacheTypeOK'
    BY <1>3, <1>5, <1>7, <1>8 DEF CacheTypeOK
  <1>10. DiskInv'
    BY <1>6, <1>7 DEF DiskInv
  <1> QED
    BY <1>3, <1>9, <1>10 DEF DataInv

LEMMA RestartStep ==
    ASSUME IInv, Restart
    PROVE  DataInv'
  <1>1. /\ snaps' = DiskImage.snaps /\ primary' = DiskImage.primary
        /\ lastSuccess' = DiskImage.last
        /\ legacy' = legacy /\ files' = files /\ manifest' = manifest
        /\ answers' = answers /\ clock' = clock
    BY DEF Restart, MemoryIs, disk
  <1>2. /\ DiskImage.snaps \subseteq Policy
        /\ DiskImage.primary \in Names \cup {None}
        /\ DiskImage.last \in Nat \cup {Never}
        /\ \A s \in DiskImage.snaps : s.rev \in DOMAIN answers
        /\ DiskImage.snaps # {} =>
              \E s \in DiskImage.snaps : DiskImage.last = answers[s.rev].at
    BY LoadedImage DEF IInv
  <1>3. CacheTypeOK'
    BY <1>1, <1>2 DEF IInv, TypeOK, CacheTypeOK
  <1>4. ServedInv'
    BY <1>1, <1>2 DEF ServedInv
  <1>5. AnswersInv' /\ DiskInv' /\ answers' \in Seq(Answer)
    BY <1>1 DEF IInv, TypeOK, AnswersInv, DiskInv, IsOfAnswer
  <1> QED
    BY <1>3, <1>4, <1>5 DEF DataInv

(* The other steps leave the cache and the answers alone.                  *)
LEMMA QuietStep ==
    ASSUME IInv, UNCHANGED <<memory, disk, answers>>, clock' \in Nat, clock' >= clock
    PROVE  DataInv'
  <1>1. /\ snaps' = snaps /\ primary' = primary /\ lastSuccess' = lastSuccess
        /\ legacy' = legacy /\ files' = files /\ manifest' = manifest
        /\ answers' = answers
    BY DEF memory, disk
  <1>2. CacheTypeOK' /\ answers' \in Seq(Answer) /\ DiskInv' /\ ServedInv'
    BY <1>1 DEF IInv, TypeOK, CacheTypeOK, DiskInv, IsOfAnswer, ServedInv
  <1>3. AnswersInv'
    <2>1. \A r \in DOMAIN answers : answers[r].at \in Nat /\ answers[r].at <= clock
      <3>1. \A r \in DOMAIN answers : answers[r] \in Answer
        BY DEF IInv, TypeOK
      <3>2. \A a \in Answer : a.at \in Nat
        BY DEF Answer
      <3> QED
        BY <3>1, <3>2 DEF IInv, AnswersInv
    <2>2. clock \in Nat
      BY DEF IInv, TypeOK
    <2> QED
      BY <1>1, <2>1, <2>2 DEF AnswersInv
  <1> QED
    BY <1>2, <1>3 DEF DataInv

-----------------------------------------------------------------------------
(* Each step is one of these; all but IssueToken leave the tokens alone.   *)
LEMMA Steps ==
    ASSUME TypeOK, Next
    PROVE  /\ Noted
           /\ clock' \in Nat /\ clock' >= clock
           /\ multi' \in BOOLEAN /\ failMode' \in {"open", "closed"}
           /\ restarts' \in Nat
           /\ \/ \E n \in Names, l \in Listings : SyncOne(n, l)
              \/ \E l \in Listings, names \in SUBSET Names :
                    \E prim \in names \cup {None} : SyncAll(names, prim, l)
              \/ Restart
              \/ UNCHANGED <<memory, disk, answers>>
           /\ \/ tokens' = tokens
              \/ Issues
  <1>1. /\ clock \in Nat /\ multi \in BOOLEAN /\ failMode \in {"open", "closed"}
        /\ restarts \in Nat
    BY DEF TypeOK
  <1>2. Noted
    BY DEF Next
  <1>3. CASE Syncs
    <2>1. \/ \E n \in Names, l \in Listings : SyncOne(n, l)
          \/ \E l \in Listings, names \in SUBSET Names :
                \E prim \in names \cup {None} : SyncAll(names, prim, l)
      BY <1>3 DEF Syncs
    <2>2. \E a : Receives(a)
      BY <2>1 DEF SyncOne, SyncAll
    <2>3. UNCHANGED <<clock, multi, failMode, tokens, restarts>>
      BY <2>2 DEF Receives, settings
    <2> QED
      BY <1>1, <1>2, <2>1, <2>3
  <1>4. CASE Restart
    <2>1. /\ clock' = clock /\ tokens' = tokens
          /\ multi' \in BOOLEAN /\ failMode' \in {"open", "closed"}
          /\ restarts' = restarts + 1
      BY <1>4, DecideAssumption DEF Restart
    <2> QED
      BY <1>1, <1>2, <1>4, <2>1
  <1>5. CASE TimePasses
    <2>1. /\ clock' = clock + 1 /\ tokens' = tokens
          /\ UNCHANGED <<memory, disk, answers>>
          /\ UNCHANGED <<multi, failMode, restarts>>
      BY <1>5 DEF TimePasses, settings
    <2> QED
      BY <1>1, <1>2, <2>1
  <1>6. CASE Issues
    <2>1. UNCHANGED <<memory, disk, answers>> /\ UNCHANGED <<clock, multi, failMode, restarts>>
      BY <1>6 DEF Issues, IssueToken, settings
    <2> QED
      BY <1>1, <1>2, <1>6, <2>1
  <1> QED
    BY <1>3, <1>4, <1>5, <1>6 DEF Next

(* The history is of the clients, and only grows, up to now.               *)
LEMMA NotedStep ==
    ASSUME TypeOK, GrantInv, Noted, clock' \in Nat, clock' >= clock
    PROVE  /\ lastGrant' \in [Clients -> Nat \cup {Never}]
           /\ \A c \in Clients :
                 /\ lastGrant[c] <= lastGrant'[c] /\ lastGrant'[c] <= clock'
                 /\ MayEnforce(c)' => lastGrant'[c] = clock'
  <1>1. \A c \in Clients : lastGrant[c] \in Nat \cup {Never} /\ lastGrant[c] <= clock
    BY DEF TypeOK, GrantInv
  <1>2. clock \in Nat
    BY DEF TypeOK
  <1>3. \A c \in Clients : lastGrant'[c] \in {clock', lastGrant[c]}
    BY DEF Noted
  <1>4. lastGrant' \in [Clients -> Nat \cup {Never}]
    BY <1>1 DEF Noted
  <1>5. \A c \in Clients : MayEnforce(c)' => lastGrant'[c] = clock'
    BY DEF Noted
  <1>6. \A c \in Clients : lastGrant[c] <= lastGrant'[c] /\ lastGrant'[c] <= clock'
    BY <1>1, <1>2, <1>3 DEF Never
  <1> QED
    BY <1>4, <1>5, <1>6

(* A token is narrowed to what its client may ask for now.                 *)
LEMMA IssueStep ==
    ASSUME IInv, Issues
    PROVE  \E t \in Token :
              /\ tokens' = tokens \cup {t}
              /\ t.exp = clock + TTL
              /\ Enforce \in t.scopes => MayEnforce(t.client)
  <1>1. PICK e \in AuthorizedClients, requested \in SUBSET Scopes : IssueToken(e, requested)
    BY DEF Issues
  <1>2. e \in Entry
    BY AuthorizedAreEntries DEF IInv
  <1> DEFINE t == [client |-> e.client, scopes |-> requested \cap e.scopes,
                   exp |-> clock + TTL]
  <1>3. tokens' = tokens \cup {t}
    BY <1>1 DEF IssueToken, Narrowed
  <1>4. clock + TTL \in Nat
    BY DecideAssumption DEF IInv, TypeOK
  <1>5. t \in Token
    BY <1>2, <1>4 DEF Token, Entry
  <1>6. Enforce \in t.scopes => MayEnforce(t.client)
    BY DEF MayEnforce
  <1> QED
    BY <1>3, <1>5, <1>6

LEMMA TokensStep ==
    ASSUME IInv, Next
    PROVE  GrantInv' /\ tokens' \subseteq Token
  <1>1. /\ clock \in Nat /\ clock' \in Nat /\ clock' >= clock
        /\ tokens' = tokens \/ Issues
        /\ TTL \in Nat
        /\ tokens \subseteq Token
    BY Steps, DecideAssumption DEF IInv, TypeOK
  <1>2. /\ lastGrant' \in [Clients -> Nat \cup {Never}]
        /\ \A c \in Clients :
              /\ lastGrant[c] <= lastGrant'[c] /\ lastGrant'[c] <= clock'
              /\ MayEnforce(c)' => lastGrant'[c] = clock'
    BY Steps, NotedStep DEF IInv
  <1>3. lastGrant \in [Clients -> Nat \cup {Never}]
    BY DEF IInv, TypeOK
  <1>4. ASSUME NEW t \in tokens, Enforce \in t.scopes
        PROVE  lastGrant'[t.client] # Never /\ t.exp <= lastGrant'[t.client] + TTL
    <2>1. t.client \in Clients /\ t.exp \in Nat
      BY <1>1 DEF Token
    <2>2. lastGrant[t.client] # Never /\ t.exp <= lastGrant[t.client] + TTL
      BY <1>4 DEF IInv, GrantInv
    <2> QED
      BY <1>1, <1>2, <1>3, <2>1, <2>2 DEF Never
  <1>5. CASE tokens' = tokens
    BY <1>1, <1>2, <1>4, <1>5 DEF GrantInv
  <1>6. CASE Issues
    <2>1. PICK t \in Token : /\ tokens' = tokens \cup {t}
                             /\ t.exp = clock + TTL
                             /\ Enforce \in t.scopes => MayEnforce(t.client)
      BY <1>6, IssueStep
    <2>2. t.client \in Clients
      BY DEF Token
    <2>3. Enforce \in t.scopes =>
             lastGrant'[t.client] # Never /\ t.exp <= lastGrant'[t.client] + TTL
      <3>1. Enforce \in t.scopes => lastGrant[t.client] = clock
        BY <2>1, <2>2 DEF IInv, GrantInv
      <3> QED
        BY <1>1, <1>2, <1>3, <2>1, <2>2, <3>1 DEF Never
    <2> QED
      BY <1>1, <1>2, <1>4, <2>1, <2>3 DEF GrantInv
  <1> QED
    BY <1>1, <1>5, <1>6

LEMMA InitInv == Init => IInv
  <1> SUFFICES ASSUME Init PROVE IInv
    OBVIOUS
  <1>1. CacheTypeOK
    BY DEF Init, CacheTypeOK
  <1>2. TypeOK
    BY <1>1, DecideAssumption DEF Init, TypeOK
  <1>3. AuthorizedClients = {}
    BY DEF Init, AuthorizedClients
  <1>4. GrantInv
    BY <1>3 DEF Init, GrantInv, MayEnforce, Never
  <1>5. AnswersInv /\ DiskInv /\ ServedInv
    BY DEF Init, AnswersInv, DiskInv, ServedInv
  <1> QED
    BY <1>2, <1>4, <1>5 DEF IInv

LEMMA NextInv == IInv /\ [Next]_vars => IInv'
  <1> SUFFICES ASSUME IInv, [Next]_vars PROVE IInv'
    OBVIOUS
  <1>1. CASE Next
    <2>1. DataInv'
      <3>1. CASE \E n \in Names, l \in Listings : SyncOne(n, l)
        BY <3>1, SyncOneStep
      <3>2. CASE \E l \in Listings, names \in SUBSET Names :
                   \E prim \in names \cup {None} : SyncAll(names, prim, l)
        BY <3>2, SyncAllStep
      <3>3. CASE Restart
        BY <3>3, RestartStep
      <3>4. CASE UNCHANGED <<memory, disk, answers>>
        BY <1>1, <3>4, Steps, QuietStep DEF IInv
      <3> QED
        BY <1>1, <3>1, <3>2, <3>3, <3>4, Steps DEF IInv
    <2>2. GrantInv' /\ tokens' \subseteq Token
      BY <1>1, TokensStep
    <2>3. lastGrant' \in [Clients -> Nat \cup {Never}]
      BY <1>1, Steps, NotedStep DEF IInv
    <2>4. /\ clock' \in Nat /\ multi' \in BOOLEAN /\ failMode' \in {"open", "closed"}
          /\ restarts' \in Nat
      BY <1>1, Steps DEF IInv
    <2> QED
      BY <2>1, <2>2, <2>3, <2>4 DEF IInv, TypeOK, DataInv
  <1>2. CASE UNCHANGED vars
    <2>1. DataInv'
      BY <1>2, QuietStep DEF vars, IInv, TypeOK
    <2>2. UNCHANGED <<snaps, primary, answers, clock, multi, failMode, tokens, lastGrant, restarts>>
      BY <1>2 DEF vars, memory, settings
    <2>3. GrantInv'
      BY <2>2 DEF IInv, GrantInv, MayEnforce, AuthorizedClients, Carried
    <2> QED
      BY <2>1, <2>2, <2>3 DEF IInv, TypeOK, DataInv
  <1> QED
    BY <1>1, <1>2

LEMMA Inductive == Spec => []IInv
  BY InitInv, NextInv, PTL DEF Spec

(* EdgeDecide's type invariant.                                            *)
THEOREM TypeCorrect == Spec => []TypeOK
  <1>1. IInv => TypeOK
    BY DEF IInv
  <1> QED
    BY <1>1, Inductive, PTL

-----------------------------------------------------------------------------
(* routes/oauth.py and routes/decide.py, for every token life and number   *)
(* of tokens, syncs and restarts: whoever is answered was listed for       *)
(* Enforce less than TTL before.                                           *)
THEOREM NoDecisionWithoutGrant == Spec => []GrantBehindDecision
  <1>1. IInv => GrantBehindDecision
    <2> SUFFICES ASSUME IInv, NEW t \in tokens, NEW name \in Names \cup {None},
                        Decide(t, name) # {}
                 PROVE  lastGrant[t.client] # Never /\ clock - lastGrant[t.client] < TTL
      BY DEF GrantBehindDecision
    <2>1. t.exp > clock /\ Enforce \in t.scopes
      BY DEF Decide, Admitted
    <2>2. t.client \in Clients /\ t.exp \in Nat /\ clock \in Nat /\ TTL \in Nat
      BY DecideAssumption DEF IInv, TypeOK, Token
    <2>3. lastGrant[t.client] # Never /\ t.exp <= lastGrant[t.client] + TTL
      BY <2>1 DEF IInv, GrantInv
    <2>4. lastGrant[t.client] \in Nat
      BY <2>2, <2>3 DEF IInv, TypeOK
    <2> QED
      BY <2>1, <2>2, <2>3, <2>4
  <1> QED
    BY <1>1, Inductive, PTL

(* routes/decide.py and policy/stale.py, for every threshold: in closed    *)
(* mode, and on a memory of one answer, an allow is that of a policy no    *)
(* older than the threshold.                                               *)
THEOREM NoStaleAllow == Spec => []AllowIsRecent
  <1>1. IInv => AllowIsRecent
    <2> SUFFICES ASSUME IInv, failMode = "closed", ~ Mixed,
                        NEW t \in tokens, NEW name \in Names \cup {None},
                        NEW d \in Decide(t, name), d.verdict = "allow"
                 PROVE  \E s \in d.evaluated : clock - answers[s.rev].at <= Threshold
      BY DEF AllowIsRecent
    <2>1. Blind.verdict = "deny"
      BY DEF Blind
    <2>2. d # Blind
      BY <2>1
    <2>3. /\ Routed(name) # {} /\ ~ Stale
          /\ d \in [verdict : {"allow", "deny", "redact"}, evaluated : {Routed(name)}]
      BY <2>2 DEF Decide
    <2>4. PICK s \in snaps : s \in Routed(name)
      BY <2>3 DEF Routed
    <2>5. PICK u \in snaps : lastSuccess = answers[u.rev].at
      BY DEF IInv, ServedInv
    <2>6. s.rev = u.rev
      BY DEF Mixed
    <2>7. clock - lastSuccess <= Threshold
      BY <2>3, DecideAssumption DEF Stale, IInv, TypeOK, CacheTypeOK, Never
    <2>8. d.evaluated = Routed(name)
      BY <2>3
    <2> QED
      BY <2>4, <2>5, <2>6, <2>7, <2>8
  <1> QED
    BY <1>1, Inductive, PTL
=============================================================================
