------------------------- MODULE EdgeIdentityProofs -------------------------
(***************************************************************************)
(* The safety of the edge's identity, for every number of tokens, rotations*)
(* failures and restarts.                                                  *)
(*                                                                         *)
(* IInv (EdgeIdentity) is inductive.  The first lemmas say what the        *)
(* gateway's issue of a key changes, and what a step preserves that ends   *)
(* the process or only moves the heartbeat loop; then there is a lemma for *)
(* each of the other kinds of step, and the theorems are at the end.       *)
(***************************************************************************)
EXTENDS EdgeIdentity, TLAPS

USE IdentityAssumption DEF Absent, Torn, Generation, Content

-----------------------------------------------------------------------------
(* An issue adds one generation, which is the current one of its edge, and *)
(* replaces only the key of the edge it was issued to.                     *)
LEMMA IssueAdds ==
    ASSUME TypeOK, EdgesInv, NEW e \in Issued \cup {0}, Issue(e)
    PROVE  /\ edgeOf' \in Seq(Nat \ {0})
           /\ Len(edgeOf') \in Issued' /\ Len(edgeOf') \notin Issued
           /\ Issued \subseteq Issued'
           /\ \A g \in Issued : edgeOf'[g] = edgeOf[g]
           /\ e # 0 => edgeOf'[Len(edgeOf')] = e
           /\ EdgesInv'
           /\ IsCurrent(edgeOf[Len(edgeOf)], Len(edgeOf))'
           /\ e = 0 => \A g \in Issued : IsCurrent(edgeOf[g], g) => IsCurrent(edgeOf[g], g)'
<1> DEFINE n == Len(edgeOf) + 1
           new == IF e = 0 THEN n ELSE e
<1>1. edgeOf \in Seq(Nat \ {0}) /\ Len(edgeOf) \in Nat
  BY DEF TypeOK
<1>2. Issued \subseteq Nat /\ n \notin Issued /\ new \in Nat \ {0}
  BY <1>1 DEF Issued
<1>3. edgeOf' = Append(edgeOf, new)
  BY DEF Issue
<1> HIDE DEF new
<1>4. /\ edgeOf' \in Seq(Nat \ {0}) /\ Len(edgeOf') = n
      /\ \A g \in 1..Len(edgeOf) : edgeOf'[g] = edgeOf[g]
      /\ edgeOf'[n] = new
  BY <1>1, <1>2, <1>3
<1>5. Issued' = Issued \cup {n}
  BY <1>1, <1>4 DEF Issued
<1>6. \A g \in Issued : edgeOf'[g] = edgeOf[g]
  BY <1>4 DEF Issued
<1>7. EdgesInv'
  BY <1>4, <1>5, <1>6 DEF EdgesInv, new
<1>8. IsCurrent(edgeOf[Len(edgeOf)], Len(edgeOf))'
  BY <1>1, <1>4, <1>5 DEF IsCurrent, Issued
<1>9. ASSUME e = 0, NEW g \in Issued, IsCurrent(edgeOf[g], g)
      PROVE  IsCurrent(edgeOf[g], g)'
  <2>1. edgeOf'[g] = edgeOf[g] /\ edgeOf[g] # n /\ edgeOf'[n] = n
    BY <1>2, <1>4, <1>6, <1>9 DEF EdgesInv, new
  <2> QED
    BY <1>5, <1>6, <1>9, <2>1 DEF IsCurrent
<1> QED
  BY <1>2, <1>4, <1>5, <1>6, <1>7, <1>8, <1>9 DEF new

(* The gateway's side of a step that issues nothing.                       *)
LEMMA NothingIssued ==
    ASSUME IInv, edgeOf' = edgeOf
    PROVE  /\ Issued' = Issued /\ EdgesInv' /\ edgeOf' \in Seq(Nat \ {0})
           /\ \A g \in Issued : IsCurrent(edgeOf[g], g) => IsCurrent(edgeOf[g], g)'
BY DEF IInv, TypeOK, Issued, EdgesInv, IsCurrent

(* The end of a process, in any way.  If it cuts a persist short it says   *)
(* so in the history.                                                      *)
LEMMA EndStep ==
    ASSUME IInv, NEW how \in {"clean", "revoked", "failed", "error", "killed"}, Ends(how),
           UNCHANGED <<files, revokedIds, expired>>,
           EdgesInv', edgeOf' \in Seq(Nat \ {0}), Issued \subseteq Issued',
           \A g \in Issued : IsCurrent(edgeOf[g], g) => IsCurrent(edgeOf[g], g)',
           cut' \in BOOLEAN, cut => cut', pc = "writing" => cut',
           tokensUsed' \in Nat, faults' \in Nat, restarts' \in Nat
    PROVE  IInv'
<1> USE DEF Ends
<1>1. TypeOK'
  <2>1. creds' \in [edge : Nat, cert : Content, key : Content]
    BY DEF NoCreds
  <2>2. exit' \in {"none", "clean", "revoked", "failed", "error", "killed"}
    OBVIOUS
  <2>3. /\ files' \in [FileNames -> Content]
        /\ revokedIds' \subseteq Generation /\ expired' \subseteq Generation
    BY DEF IInv, TypeOK
  <2>4. minted' \subseteq Generation /\ oauthKey' \in Content
    OBVIOUS
  <2>5. revoked' \in BOOLEAN /\ cut' \in BOOLEAN
    OBVIOUS
  <2>6. /\ proc' \in {"down", "booting", "up"} /\ bundle' \in Nat /\ written' \in 0..8
        /\ pc' \in {"enrolling", "idle", "rotating", "writing", "returned", "dead"}
    OBVIOUS
  <2> HIDE DEF Ends, Content
  <2> QED
    BY <2>1, <2>2, <2>3, <2>4, <2>5, <2>6 DEF TypeOK
<1>2. LoopInv' /\ WrittenInv' /\ OneIdentity' /\ TokensVerify'
  BY DEF LoopInv, WrittenInv, OneIdentity, TokensVerify, NoCreds
<1>3. DiskInv'
  BY DEF IInv, DiskInv
<1> QED
  BY <1>1, <1>2, <1>3 DEF IInv

(* A tick that goes back to the loop, ends it, or goes on to rotate.  If   *)
(* the gateway issued a key meanwhile, its answer was lost.                *)
LEMMA TickStep ==
    ASSUME IInv, Ticking, NEW where \in {"idle", "rotating", "returned", "dead"},
           TickGoes(where),
           UNCHANGED <<revokedIds, tokensUsed, expired, bundle>>,
           EdgesInv', edgeOf' \in Seq(Nat \ {0}), Issued \subseteq Issued',
           \A g \in Issued : edgeOf'[g] = edgeOf[g],
           cut' \/ (UNCHANGED edgeOf /\ cut' = cut), cut' \in BOOLEAN,
           revoked' \in BOOLEAN, revoked' <=> where = "returned",
           faults' \in Nat, restarts' \in Nat
    PROVE  IInv'
<1> USE DEF TickGoes, Ticking, oauth
<1>1. TypeOK'
  BY DEF IInv, TypeOK
<1>2. LoopInv' /\ WrittenInv'
  BY DEF IInv, LoopInv, WrittenInv
<1>3. OneIdentity' /\ TokensVerify'
  BY DEF IInv, OneIdentity, TokensVerify
<1>4. DiskInv'
  BY DEF IInv, DiskInv, IsCurrent, Issued
<1> QED
  BY <1>1, <1>2, <1>3, <1>4 DEF IInv

-----------------------------------------------------------------------------
(* A start reuses what is on disk, or begins an enrollment.                *)
LEMMA BootStep == ASSUME IInv, Boot PROVE IInv'
<1> USE DEF Boot, gateway, oauth, bounds
<1>1. UNCHANGED edgeOf /\ Issued' = Issued /\ EdgesInv'
  BY DEF IInv, Issued, EdgesInv
<1>2. creds' \in [edge : Nat, cert : Content, key : Content]
  BY DEF IInv, TypeOK, EdgesInv, Reusable, Loaded, NoCreds, FileNames, Issued
<1>3. TypeOK'
  BY <1>2 DEF IInv, TypeOK
<1>4. LoopInv' /\ WrittenInv' /\ TokensVerify'
  BY <1>1 DEF IInv, LoopInv, WrittenInv, TokensVerify
<1>5. OneIdentity'
  BY <1>1 DEF OneIdentity, Reusable, Loaded
<1>6. DiskInv'
  BY <1>1 DEF IInv, LoopInv, DiskInv, IsCurrent
<1> QED
  BY <1>1, <1>3, <1>4, <1>5, <1>6 DEF IInv

LEMMA EnrollAcceptedStep == ASSUME IInv, EnrollAccepted PROVE IInv'
<1> USE DEF EnrollAccepted, oauth, bounds
<1>1. /\ edgeOf' \in Seq(Nat \ {0}) /\ Len(edgeOf') \in Issued' /\ EdgesInv'
  BY IssueAdds DEF IInv
<1>2. proc = "booting" /\ proc' = "booting" /\ written' = 0
  BY DEF IInv, TypeOK, LoopInv
<1>3. Len(edgeOf') \in Nat
  BY <1>1
<1>4. TypeOK'
  BY <1>1, <1>3 DEF IInv, TypeOK
<1>5. LoopInv' /\ WrittenInv'
  BY <1>1, <1>2 DEF IInv, LoopInv, WrittenInv
<1>6. OneIdentity' /\ TokensVerify' /\ DiskInv'
  BY <1>2 DEF IInv, OneIdentity, TokensVerify, DiskInv
<1> QED
  BY <1>1, <1>4, <1>5, <1>6 DEF IInv

LEMMA RotateOkStep == ASSUME IInv, RotateOk PROVE IInv'
<1> USE DEF RotateOk, TickGoes, oauth, bounds
<1>1. creds.edge \in Issued
  BY DEF IInv, OneIdentity, LoopInv, TypeOK, EdgesInv
<1>2. /\ edgeOf' \in Seq(Nat \ {0}) /\ Len(edgeOf') \in Issued' /\ EdgesInv'
      /\ Issued \subseteq Issued' /\ \A g \in Issued : edgeOf'[g] = edgeOf[g]
      /\ edgeOf'[Len(edgeOf')] = creds.edge
  BY <1>1, IssueAdds DEF IInv, Issued
<1>3. proc = "up" /\ written = 0
  BY DEF IInv, TypeOK, LoopInv
<1>4. Len(edgeOf') \in Nat
  BY <1>2
<1>5. TypeOK'
  BY <1>2, <1>4 DEF IInv, TypeOK
<1>6. LoopInv' /\ WrittenInv'
  BY <1>2, <1>3 DEF IInv, LoopInv, WrittenInv
<1>7. OneIdentity' /\ TokensVerify' /\ DiskInv'
  BY DEF IInv, OneIdentity, TokensVerify, DiskInv
<1> QED
  BY <1>2, <1>5, <1>6, <1>7 DEF IInv

LEMMA RotateAnswerLostStep == ASSUME IInv, RotateAnswerLost PROVE IInv'
<1> USE DEF RotateAnswerLost
<1>1. creds.edge \in Issued /\ Ticking
  BY DEF IInv, OneIdentity, LoopInv, TypeOK, EdgesInv, Ticking
<1>2. /\ edgeOf' \in Seq(Nat \ {0}) /\ EdgesInv' /\ Issued \subseteq Issued'
      /\ \A g \in Issued : edgeOf'[g] = edgeOf[g]
  BY <1>1, IssueAdds DEF IInv
<1>3. faults' \in Nat /\ restarts' \in Nat /\ revoked' \in BOOLEAN
  BY DEF IInv, TypeOK, Fault
<1>4. PICK where \in {"idle", "dead"} : TickGoes(where)
  OBVIOUS
<1>5. ~revoked'
  BY DEF IInv, LoopInv
<1> QED
  BY <1>1, <1>2, <1>3, <1>4, <1>5, TickStep

-----------------------------------------------------------------------------
(* persist_credentials, half-step by half-step.                            *)

(* A half-step truncates a file not written yet, or completes one.         *)
LEMMA HalfWrites ==
    ASSUME TypeOK, NEW n \in 1..8
    PROVE  \E i \in 1..4, c \in {Torn, bundle} :
              /\ Half(n) = [files EXCEPT ![FileOrder[i]] = c]
              /\ n = 2 * i => c = bundle
              /\ n # 2 * i => n = 2 * i - 1
<1> DEFINE i == (n + 1) \div 2
           c == IF n % 2 = 1 THEN Torn ELSE bundle
<1>1. i \in 1..4 /\ (n = 2 * i \/ n = 2 * i - 1) /\ (n = 2 * i => n % 2 = 0)
  OBVIOUS
<1>2. Half(n) = [files EXCEPT ![FileOrder[i]] = c]
  BY DEF Half
<1>3. c \in {Torn, bundle} /\ (n = 2 * i => c = bundle)
  BY <1>1
<1> HIDE DEF i, c
<1> QED
  BY <1>1, <1>2, <1>3

LEMMA FileOrderIs ==
    /\ \A i \in 1..4 : FileOrder[i] \in FileNames
    /\ \A i, j \in 1..4 : FileOrder[i] = FileOrder[j] => i = j
    /\ \A f \in FileNames : \E i \in 1..4 : FileOrder[i] = f
<1>1. /\ FileOrder[1] = "cert" /\ FileOrder[2] = "key"
      /\ FileOrder[3] = "ca" /\ FileOrder[4] = "meta"
  BY DEF FileOrder
<1> QED
  BY <1>1 DEF FileNames

LEMMA WritesStep == ASSUME IInv, Writes PROVE IInv'
<1> USE DEF Writes, gateway, oauth, bounds
<1>1. written \in 0..7 /\ written + 1 \in 1..8 /\ bundle \in Nat \ {0}
  BY DEF IInv, TypeOK, LoopInv, Issued
<1>2. PICK i \in 1..4, c \in {Torn, bundle} :
         /\ files' = [files EXCEPT ![FileOrder[i]] = c]
         /\ written + 1 = 2 * i => c = bundle
         /\ written + 1 # 2 * i => written + 1 = 2 * i - 1
  BY <1>1, HalfWrites DEF IInv
<1>3. files \in [FileNames -> Content] /\ c \in Content
  BY <1>1 DEF IInv, TypeOK
<1>4. TypeOK'
  <2>1. files' \in [FileNames -> Content]
    BY <1>2, <1>3, FileOrderIs
  <2>2. written' \in 0..8
    BY <1>1
  <2> QED
    BY <2>1, <2>2 DEF IInv, TypeOK
<1>5. LoopInv'
  BY DEF IInv, LoopInv, Issued
<1>6. WrittenInv'
  <2> SUFFICES ASSUME NEW j \in 1..4, written' >= 2 * j
               PROVE  files'[FileOrder[j]] = bundle
    BY DEF WrittenInv
  <2>1. CASE j = i
    <3>1. written + 1 = 2 * i
      BY <1>1, <1>2, <2>1
    <3> QED
      BY <1>2, <1>3, <2>1, <3>1, FileOrderIs
  <2>2. CASE j # i
    <3>1. written >= 2 * j
      BY <1>1, <1>2, <2>2
    <3>2. files[FileOrder[j]] = bundle
      BY <3>1 DEF IInv, WrittenInv
    <3> QED
      BY <1>2, <1>3, <2>2, <3>2, FileOrderIs
  <2> QED
    BY <2>1, <2>2
<1>7. OneIdentity' /\ TokensVerify' /\ EdgesInv' /\ DiskInv'
  BY DEF IInv, OneIdentity, TokensVerify, EdgesInv, Issued, DiskInv
<1> QED
  BY <1>4, <1>5, <1>6, <1>7 DEF IInv

(* A persist that is done left all four files with the bundle, which is    *)
(* the edge's current generation: it was the last one issued.              *)
LEMMA PersistedStep == ASSUME IInv, Persisted PROVE IInv'
<1> USE DEF Persisted, gateway, oauth, bounds, Fresh
<1>1. /\ bundle \in Issued /\ bundle = Len(edgeOf) /\ bundle \in Nat \ {0}
      /\ edgeOf[bundle] \in Nat \ {0}
  BY DEF IInv, LoopInv, EdgesInv, Issued
<1>2. \A f \in FileNames : files[f] = bundle
  <2>1. \A i \in 1..4 : files[FileOrder[i]] = bundle
    BY DEF IInv, WrittenInv
  <2> QED
    BY <2>1, FileOrderIs
<1>3. Issued' = Issued /\ EdgesInv'
  BY DEF IInv, EdgesInv, Issued
<1>4. TypeOK'
  BY <1>1 DEF IInv, TypeOK
<1>5. LoopInv' /\ WrittenInv' /\ TokensVerify'
  BY DEF IInv, LoopInv, WrittenInv, TokensVerify
<1>6. OneIdentity'
  BY <1>1, <1>2, <1>3 DEF OneIdentity, FileNames
<1>7. DiskInv'
  <2>1. IsCurrent(edgeOf[bundle], bundle)
    BY <1>1 DEF IsCurrent, Issued
  <2> QED
    BY <1>1, <1>2, <1>3, <2>1 DEF DiskInv, IsCurrent
<1> QED
  BY <1>3, <1>4, <1>5, <1>6, <1>7 DEF IInv

LEMMA WriteFailsStep == ASSUME IInv, EnrollCut \/ RotateCut PROVE IInv'
<1>0. CutShort
  BY DEF EnrollCut, RotateCut
<1> USE <1>0 DEF CutShort, gateway, oauth
<1>1. faults' \in Nat /\ restarts' \in Nat /\ tokensUsed' \in Nat /\ cut'
  BY DEF IInv, TypeOK, Fault
<1>2. /\ Issued' = Issued /\ EdgesInv' /\ edgeOf' \in Seq(Nat \ {0})
      /\ \A g \in Issued : IsCurrent(edgeOf[g], g) => IsCurrent(edgeOf[g], g)'
  BY NothingIssued
<1>3. CASE EnrollCut
  BY <1>1, <1>2, <1>3, EndStep DEF EnrollCut
<1>4. CASE RotateCut
  <2> USE DEF RotateCut
  <2>1. TypeOK'
    BY <1>1, <1>2, <1>4 DEF IInv, TypeOK
  <2>2. LoopInv' /\ WrittenInv' /\ OneIdentity' /\ TokensVerify' /\ DiskInv'
    BY <1>1, <1>4 DEF IInv, LoopInv, WrittenInv, OneIdentity, TokensVerify, DiskInv
  <2> QED
    BY <1>2, <2>1, <2>2 DEF IInv
<1> QED
  BY <1>3, <1>4

-----------------------------------------------------------------------------
(* The other steps.                                                        *)

LEMMA EndingStep ==
    ASSUME IInv, EnrollRefused \/ EnrollFails \/ StartupRaises \/ WarmRaises \/ Shutdown \/ Kill
    PROVE  IInv'
<1>1. faults' \in Nat /\ restarts' \in Nat /\ tokensUsed' \in Nat
  BY DEF IInv, TypeOK, EnrollRefused, EnrollFails, StartupRaises, WarmRaises, Shutdown, Kill, Fault,
         gateway, bounds
<1>2. PICK how \in {"clean", "revoked", "failed", "error", "killed"} : Ends(how)
  BY DEF EnrollRefused, EnrollFails, StartupRaises, WarmRaises, Shutdown, Kill
<1>3. /\ UNCHANGED <<files, revokedIds, expired>>
      /\ cut' \in BOOLEAN /\ (cut => cut') /\ (pc = "writing" => cut')
  BY DEF IInv, TypeOK, EnrollRefused, EnrollFails, StartupRaises, WarmRaises, Shutdown, Kill,
         gateway, Responsive
<1>4. /\ EdgesInv' /\ edgeOf' \in Seq(Nat \ {0}) /\ Issued \subseteq Issued'
      /\ \A g \in Issued : IsCurrent(edgeOf[g], g) => IsCurrent(edgeOf[g], g)'
  <2>1. CASE edgeOf' = edgeOf
    BY <2>1, NothingIssued
  <2>2. CASE Issue(0)
    BY <2>2, IssueAdds DEF IInv
  <2> QED
    BY <2>1, <2>2 DEF EnrollRefused, EnrollFails, StartupRaises, WarmRaises, Shutdown, Kill, gateway
<1> QED
  BY <1>1, <1>2, <1>3, <1>4, EndStep

LEMMA TickingStep ==
    ASSUME IInv, HeartbeatOk \/ TickRefused \/ TickFails
    PROVE  IInv'
<1>1. Ticking
  BY DEF HeartbeatOk, TickRefused, TickFails, Ticking
<1>2. PICK where \in {"idle", "rotating", "returned", "dead"} :
         TickGoes(where) /\ (revoked' <=> where = "returned")
  BY <1>1 DEF HeartbeatOk, TickRefused, TickFails, IInv, LoopInv, Ticking
<1>3. /\ UNCHANGED <<edgeOf, revokedIds, tokensUsed, expired, bundle, cut>>
      /\ revoked' \in BOOLEAN /\ cut' \in BOOLEAN /\ faults' \in Nat /\ restarts' \in Nat
  <2>1. /\ revoked \in BOOLEAN /\ cut \in BOOLEAN /\ faults \in Nat /\ restarts \in Nat
    BY DEF IInv, TypeOK
  <2>2. UNCHANGED <<edgeOf, revokedIds, tokensUsed, expired, bundle, cut>>
    BY DEF HeartbeatOk, TickRefused, TickFails, gateway
  <2>3. revoked' \in {revoked, TRUE}
    BY DEF HeartbeatOk, TickRefused, TickFails
  <2>4. faults' \in {faults, faults + 1} /\ restarts' = restarts
    BY DEF HeartbeatOk, TickRefused, TickFails, Fault, bounds
  <2>5. faults' \in Nat
    BY <2>1, <2>4
  <2>6. revoked' \in BOOLEAN
    BY <2>1, <2>3
  <2> QED
    BY <2>1, <2>2, <2>4, <2>5, <2>6
<1>4. Issued' = Issued /\ EdgesInv' /\ edgeOf' \in Seq(Nat \ {0})
  BY <1>3, NothingIssued
<1> QED
  BY <1>1, <1>2, <1>3, <1>4, TickStep

LEMMA IssuesAccessTokenStep == ASSUME IInv, IssuesAccessToken PROVE IInv'
<1> USE DEF IssuesAccessToken, gateway, loop, bounds
<1>1. KeyState \in Nat \ {0} /\ minted' \subseteq {oauthKey'} /\ oauthKey' = KeyState
  BY DEF KeyState, IInv, TypeOK, TokensVerify, FileNames
<1>2. TypeOK'
  BY <1>1 DEF IInv, TypeOK
<1>3. TokensVerify'
  BY <1>1 DEF TokensVerify
<1>4. LoopInv' /\ WrittenInv' /\ EdgesInv' /\ OneIdentity' /\ DiskInv'
  BY DEF IInv, LoopInv, WrittenInv, EdgesInv, OneIdentity, DiskInv, Issued, IsCurrent
<1> QED
  BY <1>2, <1>3, <1>4 DEF IInv

LEMMA GatewayStep == ASSUME IInv, Revokes \/ CertExpires PROVE IInv'
<1>1. /\ UNCHANGED <<edgeOf, tokensUsed, files, loop, oauth, exit, cut, bounds>>
      /\ revokedIds' \subseteq Nat \ {0} /\ expired' \subseteq Nat \ {0}
  <2>1. /\ revokedIds \subseteq Nat \ {0} /\ expired \subseteq Nat \ {0}
        /\ \A g \in Issued : g \in Nat \ {0} /\ edgeOf[g] \in Nat \ {0}
    BY DEF IInv, TypeOK, EdgesInv, Issued
  <2>2. CASE Revokes
    BY <2>1, <2>2 DEF Revokes
  <2>3. CASE CertExpires
    BY <2>1, <2>3 DEF CertExpires
  <2> QED
    BY <2>2, <2>3
<1>2. TypeOK'
  BY <1>1 DEF IInv, TypeOK, loop, oauth, bounds
<1>3. /\ LoopInv' /\ WrittenInv' /\ EdgesInv'
      /\ OneIdentity' /\ TokensVerify' /\ DiskInv'
  BY <1>1 DEF IInv, LoopInv, WrittenInv, EdgesInv, OneIdentity, TokensVerify, DiskInv,
              Issued, IsCurrent, loop, oauth
<1> QED
  BY <1>2, <1>3 DEF IInv

-----------------------------------------------------------------------------
(* IInv is inductive.                                                      *)

LEMMA InitIInv == Init => IInv
<1> SUFFICES ASSUME Init PROVE IInv
  OBVIOUS
<1> USE DEF Init, NoCreds
<1>1. TypeOK
  <2>1. edgeOf \in Seq(Generation)
    OBVIOUS
  <2>2. files \in [FileNames -> Content]
    OBVIOUS
  <2>3. creds \in [edge : Nat, cert : Content, key : Content]
    OBVIOUS
  <2>4. revoked \in BOOLEAN /\ cut \in BOOLEAN
    OBVIOUS
  <2>5. /\ proc \in {"down", "booting", "up"} /\ bundle \in Nat /\ written \in 0..8
        /\ pc \in {"enrolling", "idle", "rotating", "writing", "returned", "dead"}
        /\ exit \in {"none", "clean", "revoked", "failed", "error", "killed"}
    OBVIOUS
  <2>6. /\ revokedIds \subseteq Generation /\ expired \subseteq Generation
        /\ minted \subseteq Generation /\ oauthKey \in Content
        /\ tokensUsed \in Nat /\ faults \in Nat /\ restarts \in Nat
    OBVIOUS
  <2> HIDE DEF Init, Content
  <2> QED
    BY <2>1, <2>2, <2>3, <2>4, <2>5, <2>6 DEF TypeOK
<1>2. /\ LoopInv /\ WrittenInv /\ EdgesInv
      /\ OneIdentity /\ TokensVerify /\ DiskInv
  BY DEF LoopInv, WrittenInv, EdgesInv, OneIdentity, TokensVerify, DiskInv, Issued
<1> QED
  BY <1>1, <1>2 DEF IInv

LEMMA NextIInv == IInv /\ [Next]_vars => IInv'
<1> SUFFICES ASSUME IInv, [Next]_vars PROVE IInv'
  OBVIOUS
<1>1. CASE Boot
  BY <1>1, BootStep
<1>2. CASE EnrollAccepted
  BY <1>2, EnrollAcceptedStep
<1>3. CASE EnrollRefused \/ EnrollFails \/ StartupRaises \/ WarmRaises \/ Shutdown \/ Kill
  BY <1>3, EndingStep
<1>4. CASE Writes \/ Persisted \/ EnrollCut \/ RotateCut
  BY <1>4, WritesStep, PersistedStep, WriteFailsStep
<1>5. CASE HeartbeatOk \/ TickRefused \/ TickFails
  BY <1>5, TickingStep
<1>6. CASE RotateOk \/ RotateAnswerLost
  BY <1>6, RotateOkStep, RotateAnswerLostStep
<1>7. CASE IssuesAccessToken
  BY <1>7, IssuesAccessTokenStep
<1>8. CASE Revokes \/ CertExpires
  BY <1>8, GatewayStep
<1>9. CASE UNCHANGED vars
  <2> USE <1>9 DEF vars, gateway, loop, oauth, bounds
  <2>1. TypeOK'
    BY DEF IInv, TypeOK
  <2>2. LoopInv' /\ WrittenInv' /\ EdgesInv' /\ OneIdentity' /\ TokensVerify' /\ DiskInv'
    BY DEF IInv, LoopInv, WrittenInv, EdgesInv, OneIdentity, TokensVerify, DiskInv,
           Issued, IsCurrent
  <2> QED
    BY <2>1, <2>2 DEF IInv
<1> QED
  BY <1>1, <1>2, <1>3, <1>4, <1>5, <1>6, <1>7, <1>8, <1>9 DEF Next, Step

LEMMA Inductive == Spec => []IInv
BY InitIInv, NextIInv, PTL DEF Spec

-----------------------------------------------------------------------------
(* Every variable keeps its type; in particular a key that is absent or    *)
(* torn never signs an access token (identity.py persist_credentials,      *)
(* routes/oauth.py _key_state).                                            *)
THEOREM TypeCorrect == Spec => []TypeOK
<1>1. IInv => TypeOK
  BY DEF IInv
<1> QED
  BY <1>1, Inductive, PTL

(* The heartbeat loop and the readers of the files present one identity    *)
(* (heartbeat.py _one_tick, policy/jwt.py mint_cert_jwt).                  *)
THEOREM OneIdentityAlways == Spec => []OneIdentity
<1>1. IInv => OneIdentity
  BY DEF IInv
<1> QED
  BY <1>1, Inductive, PTL

(* An edge is refused only for a revocation, or for a persist cut short or *)
(* a rotation whose answer was lost: the disk is of one generation, that   *)
(* generation is its edge's last, and the process presents what is on disk *)
(* (identity.py persist_credentials, enroll.py bootstrap_if_needed).       *)
THEOREM AcceptedUnlessCut == Spec => []StaysAccepted
<1>1. IInv => StaysAccepted
  <2> SUFFICES ASSUME IInv, proc = "up", pc \in {"idle", "rotating"}, ~cut,
                      creds.edge \notin revokedIds
               PROVE  Accepts(creds)
    BY DEF StaysAccepted
  <2>1. PICK g \in Issued \cup {Absent} :
           /\ \A f \in FileNames : files[f] = g
           /\ g # Absent => IsCurrent(edgeOf[g], g)
    BY DEF IInv, DiskInv
  <2>2. creds.key = g /\ g \in Issued /\ edgeOf[g] = creds.edge
    BY <2>1 DEF IInv, OneIdentity, FileNames, Issued
  <2>3. g # Absent
    BY <2>2 DEF Issued
  <2> QED
    BY <2>1, <2>2, <2>3 DEF Accepts
<1> QED
  BY <1>1, Inductive, PTL

(* The access tokens of a process verify in it to its end (routes/oauth.py *)
(* _key_state).                                                            *)
THEOREM TokensAlwaysVerify == Spec => []TokensVerify
<1>1. IInv => TokensVerify
  BY DEF IInv
<1> QED
  BY <1>1, Inductive, PTL

(* A process that learned of its revocation ends with it, whatever the     *)
(* other calls and the disk do meanwhile: the loop is over, so nothing of  *)
(* it is left to raise (heartbeat.py heartbeat_loop, app.py _lifespan).    *)
THEOREM RevocationAlwaysTold == Spec => RevocationTold
<1> DEFINE Told == revoked /\ ~revoked' => exit' \in {"revoked", "killed"}
<1>1. ASSUME IInv, [Next]_vars
      PROVE  Told
  <2> SUFFICES ASSUME revoked, ~revoked'
               PROVE  exit' \in {"revoked", "killed"}
    OBVIOUS
  <2>1. pc = "returned" /\ proc = "up"
    BY <1>1 DEF IInv, TypeOK, LoopInv
  <2>2. CASE Shutdown \/ Kill
    BY <2>1, <2>2 DEF Shutdown, Kill, Ends
  <2>3. CASE UNCHANGED vars \/ Revokes \/ CertExpires \/ IssuesAccessToken \/ Boot
    BY <2>1, <2>3 DEF vars, loop, Revokes, CertExpires, IssuesAccessToken, Boot
  <2>4. CASE EnrollAccepted \/ EnrollRefused \/ EnrollFails \/ Writes \/ Persisted
             \/ EnrollCut \/ RotateCut
    BY <2>1, <2>4 DEF EnrollAccepted, EnrollRefused, EnrollFails, Writes, Persisted, EnrollCut, RotateCut,
                      CutShort
  <2>5. CASE HeartbeatOk \/ TickRefused \/ TickFails \/ StartupRaises \/ WarmRaises \/ RotateOk
             \/ RotateAnswerLost
    BY <2>1, <2>5 DEF HeartbeatOk, TickRefused, TickFails, StartupRaises, WarmRaises, RotateOk,
                      RotateAnswerLost, Ticking
  <2> QED
    BY <1>1, <2>2, <2>3, <2>4, <2>5 DEF Next, Step
<1>2. IInv /\ [Next]_vars => [Told]_vars
  BY <1>1
<1> QED
  BY <1>2, Inductive, PTL DEF Spec, RevocationTold

-----------------------------------------------------------------------------
(* The identity is one credential (EdgeCredential).  A persist cut short   *)
(* is never forgotten, so until the first one ReuseInv holds too.          *)
LEMMA CutStays == ASSUME Next, cut PROVE cut'
BY DEF Next, Step, Boot, EnrollAccepted, EnrollRefused, Writes, Persisted, StartupRaises, WarmRaises,
       TickRefused, RotateOk, HeartbeatOk, EnrollFails, EnrollCut, RotateCut, CutShort, TickFails,
       RotateAnswerLost, IssuesAccessToken, Revokes, CertExpires, Shutdown, Kill

(* What the disk holds when no persist is at work.                         *)
LEMMA DiskIsHeld ==
    ASSUME IInv, ReuseInv, ~cut, pc # "writing"
    PROVE  /\ files["key"] = files["meta"] /\ files["key"] \in Issued \cup {Absent}
           /\ \A f \in FileNames : files[f] = files["key"]
           /\ files["key"] # Absent => Credential!Latest(files["key"])
           /\ proc = "up" => files["key"] # Absent /\ creds.key = files["key"]
<1>1. PICK g \in Issued \cup {Absent} :
         /\ \A f \in FileNames : files[f] = g
         /\ g # Absent => IsCurrent(edgeOf[g], g)
  BY DEF IInv, DiskInv
<1>2. files["key"] = g /\ files["meta"] = g
  BY <1>1 DEF FileNames
<1>3. g # Absent => Credential!Latest(g)
  BY <1>1 DEF IsCurrent, Issued, Credential!Latest, Credential!Issued
<1>4. ASSUME proc = "up"
      PROVE  g # Absent /\ creds.key = g
  <2>1. CASE pc = "dead"
    BY <1>2, <2>1 DEF ReuseInv
  <2>2. CASE pc # "dead"
    <3>1. pc \in {"idle", "rotating", "returned"}
      BY <1>4, <2>2 DEF IInv, TypeOK, LoopInv
    <3> QED
      BY <1>2, <1>4, <3>1 DEF IInv, OneIdentity, Issued
  <2> QED
    BY <2>1, <2>2
<1> QED
  BY <1>1, <1>2, <1>3, <1>4

LEMMA ReuseStep == ASSUME IInv, ReuseInv, [Next]_vars PROVE ReuseInv'
<1>1. CASE UNCHANGED vars \/ Revokes \/ CertExpires \/ IssuesAccessToken
  BY <1>1 DEF ReuseInv, vars, gateway, loop, Revokes, CertExpires, IssuesAccessToken
<1>2. CASE Boot
  <2>1. ASSUME ~cut
        PROVE  files["key"] \in expired \cup {Absent} \/ Reusable
    <3>1. pc # "writing"
      BY <1>2 DEF Boot, IInv, LoopInv
    <3>2. /\ files["key"] = files["meta"] /\ files["key"] \in Issued \cup {Absent}
          /\ \A f \in FileNames : files[f] = files["key"]
      BY <2>1, <3>1, DiskIsHeld
    <3> QED
      BY <3>2 DEF Reusable, Issued
  <2> QED
    BY <1>2, <2>1 DEF Boot, ReuseInv, gateway
<1>3. CASE EnrollRefused \/ EnrollFails \/ EnrollCut \/ StartupRaises \/ WarmRaises \/ Shutdown \/ Kill
  BY <1>3 DEF EnrollRefused, EnrollFails, EnrollCut, StartupRaises, WarmRaises, Shutdown, Kill, Ends,
              ReuseInv
<1>4. CASE EnrollAccepted \/ Writes \/ Persisted \/ RotateOk \/ TickRefused \/ HeartbeatOk
  BY <1>4 DEF EnrollAccepted, Writes, Persisted, RotateOk, TickRefused, HeartbeatOk, TickGoes,
              ReuseInv
<1>5. CASE RotateCut \/ RotateAnswerLost
  BY <1>5 DEF RotateCut, CutShort, RotateAnswerLost, ReuseInv
<1>6. CASE TickFails
  <2>1. ~cut => files["key"] = creds.key /\ creds.key # Absent
    BY <1>6, DiskIsHeld DEF TickFails, Ticking
  <2> QED
    BY <1>6, <2>1 DEF TickFails, TickGoes, gateway, ReuseInv
<1> QED
  BY <1>1, <1>2, <1>3, <1>4, <1>5, <1>6 DEF Next, Step

(* The steps that issue a credential.                                      *)
LEMMA IssueIsSeen ==
    ASSUME IInv, ReuseInv, ~cut, EnrollAccepted \/ EnrollFails \/ RotateOk
    PROVE  [Credential!Next]_(Credential!credentialVars)
<1> USE DEF Credential!credentialVars, Credential!plane, Credential!Next
<1>1. CASE EnrollAccepted
  <2>1. proc = "booting" /\ pc # "writing" /\ files["key"] \in expired \cup {Absent}
    BY <1>1 DEF EnrollAccepted, IInv, TypeOK, LoopInv, ReuseInv
  <2>2. edgeOf' = Append(edgeOf, Len(edgeOf) + 1) /\ bundle' = Len(edgeOf')
        /\ pc' = "writing" /\ proc' = proc /\ UNCHANGED <<revokedIds, expired>>
    BY <1>1 DEF EnrollAccepted, Issue
  <2>3. Credential!Enroll
    BY <2>1, <2>2 DEF Credential!Enroll
  <2> QED
    BY <2>3
<1>2. CASE EnrollFails
  <2>1. proc = "booting" /\ pc # "writing" /\ files["key"] \in expired \cup {Absent}
    BY <1>2 DEF EnrollFails, IInv, TypeOK, LoopInv, ReuseInv
  <2>2. proc' = "down" /\ pc' = "idle" /\ UNCHANGED <<revokedIds, expired, files>>
    BY <1>2 DEF EnrollFails, Ends
  <2>3. CASE UNCHANGED edgeOf
    BY <2>1, <2>2, <2>3
  <2>4. CASE Issue(0)
    <3>1. edgeOf' = Append(edgeOf, Len(edgeOf) + 1)
      BY <2>4 DEF Issue
    <3>2. Credential!Enroll
      BY <2>1, <2>2, <3>1 DEF Credential!Enroll
    <3> QED
      BY <3>2
  <2> QED
    BY <1>2, <2>3, <2>4 DEF EnrollFails
<1>3. CASE RotateOk
  <2>1. proc = "up" /\ pc = "rotating"
    BY <1>3 DEF RotateOk, IInv, TypeOK, LoopInv
  <2>2. /\ files["key"] = files["meta"] /\ files["key"] # Absent /\ creds.key = files["key"]
        /\ Credential!Latest(files["key"])
    BY <2>1, DiskIsHeld
  <2>3. creds.edge \notin revokedIds /\ creds.edge = edgeOf[files["key"]] /\ creds.edge # 0
    <3>1. creds.edge \notin revokedIds /\ creds.edge = edgeOf[files["key"]]
      BY <1>3, <2>2 DEF RotateOk, Accepts, IsCurrent
    <3> QED
      BY <1>3, <3>1 DEF RotateOk, Accepts, IsCurrent, IInv, EdgesInv, Issued
  <2>4. edgeOf' = Append(edgeOf, creds.edge) /\ bundle' = Len(edgeOf')
        /\ pc' = "writing" /\ proc' = "up" /\ UNCHANGED <<revokedIds, expired>>
    BY <1>3, <2>1, <2>3 DEF RotateOk, Issue, TickGoes
  <2>5. Credential!Rotate
    BY <2>1, <2>2, <2>3, <2>4 DEF Credential!Rotate
  <2> QED
    BY <2>5
<1> QED
  BY <1>1, <1>2, <1>3

(* The steps at either end of a process, and of a persist.                 *)
LEMMA ProcessIsSeen ==
    ASSUME IInv, ReuseInv, ~cut',
           ~cut,
           Boot \/ Writes \/ Persisted \/ EnrollRefused \/ StartupRaises \/ WarmRaises \/ Shutdown \/ Kill
    PROVE  [Credential!Next]_(Credential!credentialVars)
<1> USE DEF Credential!credentialVars, Credential!plane, Credential!Next, gateway
<1>1. CASE Boot
  <2>1. proc = "down" /\ pc = "idle" /\ pc' # "writing" /\ UNCHANGED <<gateway, files>>
    BY <1>1 DEF Boot, IInv, LoopInv
  <2>2. CASE proc' = "up"
    <3>1. Reusable /\ creds' = Loaded
      BY <1>1, <2>2 DEF Boot
    <3>2. files["key"] = files["meta"] /\ files["key"] # Absent
      BY <2>1, <3>1, DiskIsHeld DEF Reusable, FileNames
    <3>3. creds'.key = files["key"]
      BY <3>1 DEF Loaded
    <3>4. Credential!Starts
      BY <2>1, <2>2, <3>2, <3>3 DEF Credential!Starts, Credential!plane
    <3> QED
      BY <3>4
  <2>3. CASE proc' = "booting"
    BY <2>1, <2>3
  <2> QED
    BY <1>1, <2>2, <2>3 DEF Boot
<1>2. CASE Writes
  BY <1>2 DEF Writes
<1>3. CASE Persisted
  <2>1. /\ bundle \in Issued /\ bundle # 0
        /\ files["key"] = bundle /\ files["meta"] = bundle
    <3>1. FileOrder[2] = "key" /\ FileOrder[4] = "meta"
      BY DEF FileOrder
    <3>2. files[FileOrder[2]] = bundle /\ files[FileOrder[4]] = bundle
      BY <1>3 DEF Persisted, IInv, WrittenInv
    <3> QED
      BY <1>3, <3>1, <3>2 DEF Persisted, IInv, LoopInv, Issued
  <2>2. /\ pc = "writing" /\ proc \in {"booting", "up"} /\ proc' = "up" /\ pc' = "idle"
        /\ creds'.key = bundle /\ UNCHANGED <<gateway, files>>
    BY <1>3 DEF Persisted, Fresh, IInv, TypeOK, LoopInv
  <2>3. CASE proc = "up"
    BY <2>1, <2>2, <2>3
  <2>4. CASE proc = "booting"
    <3>1. Credential!Starts
      BY <2>1, <2>2, <2>4 DEF Credential!Starts, Credential!plane
    <3> QED
      BY <3>1
  <2> QED
    BY <2>2, <2>3, <2>4
<1>4. CASE EnrollRefused \/ StartupRaises \/ WarmRaises \/ Shutdown \/ Kill
  <2>1. proc' = "down" /\ pc' = "idle" /\ UNCHANGED <<gateway, files>>
    BY <1>4 DEF EnrollRefused, StartupRaises, WarmRaises, Shutdown, Kill, Ends
  <2>2. pc # "writing"
    BY <1>4 DEF EnrollRefused, StartupRaises, WarmRaises, Shutdown, Kill, Responsive
  <2>3. Credential!Ends
    BY <2>1, <2>2 DEF Credential!Ends, Credential!plane
  <2> QED
    BY <2>3
<1> QED
  BY <1>1, <1>2, <1>3, <1>4

(* The steps of a tick that issue nothing, and what happens elsewhere.     *)
LEMMA OtherIsSeen ==
    ASSUME IInv,
           HeartbeatOk \/ TickRefused \/ TickFails \/ IssuesAccessToken \/ Revokes \/ CertExpires
    PROVE  [Credential!Next]_(Credential!credentialVars)
<1> USE DEF Credential!credentialVars, Credential!plane, Credential!Next, gateway
<1>1. CASE HeartbeatOk \/ TickRefused \/ TickFails
  <2>1. pc # "writing" /\ pc' # "writing" /\ UNCHANGED <<gateway, files, proc, creds>>
    BY <1>1 DEF HeartbeatOk, TickRefused, TickFails, TickGoes, Ticking
  <2> QED
    BY <2>1
<1>2. CASE IssuesAccessToken
  BY <1>2 DEF IssuesAccessToken, loop
<1>3. CASE Revokes
  <2>1. Credential!Revoke
    BY <1>3 DEF Revokes, loop, Credential!Revoke, Issued, Credential!Issued
  <2> QED
    BY <2>1
<1>4. CASE CertExpires
  <2>1. Credential!Expire
    BY <1>4 DEF CertExpires, loop, Credential!Expire, Issued, Credential!Issued
  <2> QED
    BY <2>1
<1> QED
  BY <1>1, <1>2, <1>3, <1>4

LEMMA CredentialStep ==
    ASSUME IInv, ReuseInv, [Next]_vars
    PROVE  [cut' \/ Credential!Next]_(Credential!credentialVars)
<1> SUFFICES ASSUME ~cut'
             PROVE  [Credential!Next]_(Credential!credentialVars)
  OBVIOUS
<1>1. CASE UNCHANGED vars
  BY <1>1 DEF vars, gateway, loop, Credential!credentialVars, Credential!plane
<1>2. CASE Next
  <2>1. ~cut
    BY <1>2, CutStays
  <2>2. ~ (EnrollCut \/ RotateCut \/ RotateAnswerLost)
    BY DEF EnrollCut, RotateCut, CutShort, RotateAnswerLost
  <2> QED
    BY <1>2, <2>1, <2>2, IssueIsSeen, ProcessIsSeen, OtherIsSeen DEF Next, Step
<1> QED
  BY <1>1, <1>2

(* Enrollments, rotations, restarts, reloads and readers come to one       *)
(* credential, exchanged with the control plane in one step, until a       *)
(* persist is cut short or a rotation's answer lost: no interleaving of    *)
(* half-written files, kills and calls is seen from outside (identity.py   *)
(* persist_credentials, enroll.py bootstrap_if_needed, heartbeat.py        *)
(* _one_tick).                                                             *)
THEOREM OneCredential == Spec => KeepsOneCredential
<1>1. Init => ReuseInv /\ Credential!Init
  BY DEF Init, ReuseInv, Credential!Init, FileNames
<1>2. IInv /\ ReuseInv /\ [Next]_vars => ReuseInv'
  BY ReuseStep
<1>3. IInv /\ ReuseInv /\ [Next]_vars
        => [cut' \/ Credential!Next]_(Credential!credentialVars)
  BY CredentialStep
<1> QED
  BY <1>1, <1>2, <1>3, Inductive, PTL DEF Spec, KeepsOneCredential
=============================================================================
