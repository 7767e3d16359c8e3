-------------------------- MODULE EdgeLifespanProofs -------------------------
(***************************************************************************)
(* The lifespan around the identity, for any number of tokens, rotations,  *)
(* failures and restarts.                                                  *)
(*                                                                         *)
(* Every step of EdgeLifespan is a step of EdgeIdentity or leaves it alone,*)
(* so what is proved of the identity holds of the composition, its         *)
(* inductive invariant included.  LifespanInv, inductive with it, adds how *)
(* the lifespan's phases go with the process and that a process which no   *)
(* cut persist precedes has its files; DiskInv then says that a task which *)
(* finds the loop free finds a key that the gateway takes.                 *)
(***************************************************************************)
EXTENDS EdgeLifespan, EdgeIdentityProofs

LEMMA IdentityStep == [LifespanNext]_lifespanVars => [Next]_vars
<1> SUFFICES ASSUME [LifespanNext]_lifespanVars PROVE [Next]_vars
  OBVIOUS
<1>1. CASE StartStep \/ StartDisturbed
  BY <1>1 DEF StartStep, StartDisturbed, Boots, Enrolls, StartFails, Warms, Next, Step
<1>2. CASE Beats \/ BeatGoesOn
  BY <1>2 DEF Beats, BeatGoesOn, Next, Step
<1>3. CASE SyncStep \/ PlaneFails \/ SyncDisturbed
  BY <1>3 DEF SyncStep, SyncWakes, PlaneAnswers, PlaneLacks, PlaneFails, SyncFallsBack,
              SyncApplies, SyncDisturbed, SyncGivesUp, SyncReturns, Next
<1>4. CASE ServesToken \/ Sigterm \/ ShutdownStep \/ Killed \/ Outside
  BY <1>4 DEF ServesToken, Sigterm, ShutdownStep, DrainEnds, Exits, Killed, Outside, Next
<1>5. CASE UNCHANGED lifespanVars
  BY <1>5 DEF lifespanVars
<1> QED
  BY <1>1, <1>2, <1>3, <1>4, <1>5 DEF LifespanNext

-----------------------------------------------------------------------------
(* Where no persist was cut short and none is running, a process signs     *)
(* with what its edge was issued last.                                     *)
LEMMA SignsCurrent ==
    ASSUME IInv, LifespanInv, proc = "up", pc # "writing", ~cut
    PROVE  CanSign /\ IsCurrent(Token.edge, Token.key)
<1>1. PICK g \in Issued \cup {Absent} :
         /\ \A f \in FileNames : files[f] = g
         /\ g # Absent => IsCurrent(edgeOf[g], g)
  BY DEF IInv, DiskInv
<1>2. files["key"] = g /\ files["meta"] = g
  BY <1>1 DEF FileNames
<1>3. g # Absent
  BY <1>2 DEF LifespanInv
<1> QED
  BY <1>1, <1>2, <1>3 DEF CanSign, Token

(* What mint_cert_jwt signs is of an edge, by a whole key.                 *)
LEMMA TokenType ==
    ASSUME IInv, CanSign
    PROVE  Token \in [edge : Nat, key : Content \ {Torn}]
<1>1. files["key"] \in Nat \ {0} /\ edgeOf[files["meta"]] \in Nat \ {0}
  BY DEF IInv, TypeOK, EdgesInv, Issued, CanSign
<1> QED
  BY <1>1 DEF Token, Content, Generation, Torn, Absent

(* The end of the process, at whatever point.                              *)
LEMMA GoneStep ==
    ASSUME IInv', LifespanInv, Gone, proc' = "down"
    PROVE  LifespanInv'
<1>1. NoToken \in [edge : Nat, key : Content \ {Torn}]
  BY DEF NoToken, Content, Generation, Torn, Absent
<1>2. LifespanTypeOK'
  BY <1>1 DEF Gone, LifespanInv, LifespanTypeOK, IInv
<1> QED
  BY <1>2 DEF Gone, LifespanInv, SyncOutlivesRotation

(* A step of the sync, or of nobody, that leaves the identity as it is.    *)
LEMMA SyncTaskStep ==
    ASSUME IInv', LifespanInv, UNCHANGED vars,
           phase' = phase \/ (phase = "warm" /\ phase' = "serve"),
           sync' \in {"none", "sleep", "get", "missing", "getOne", "ok", "no", "dead"},
           signed' \in [edge : Nat, key : Content \ {Torn}],
           cache' \in BOOLEAN, stored' \in BOOLEAN, lost' \in Nat,
           sync' = "dead" => cut
    PROVE  LifespanInv'
<1> USE DEF vars, loop
<1>1. LifespanTypeOK'
  BY DEF LifespanInv, LifespanTypeOK, IInv
<1> QED
  BY <1>1 DEF LifespanInv, SyncOutlivesRotation

(* A step of the identity that leaves the lifespan where it is.            *)
LEMMA BesideStep ==
    ASSUME IInv', LifespanInv, UNCHANGED life, proc' = proc,
           phase # "load" \/ pc' = pc, cut => cut',
           proc = "up" /\ pc' # "writing" /\ ~cut' => files'["meta"] # Absent
    PROVE  LifespanInv'
<1> USE DEF life
<1>1. LifespanTypeOK'
  BY DEF LifespanInv, LifespanTypeOK, IInv
<1> QED
  BY <1>1 DEF LifespanInv, SyncOutlivesRotation

-----------------------------------------------------------------------------
LEMMA StartStepKeeps ==
    ASSUME IInv, IInv', LifespanInv, StartStep \/ StartDisturbed
    PROVE  LifespanInv'
<1>1. CASE Boots
  <2> USE <1>1 DEF Boots, Boot
  <2>1. LifespanTypeOK'
    BY DEF LifespanInv, LifespanTypeOK, IInv
  <2>2. proc' = "up" => files'["meta"] # Absent
    BY DEF Reusable, Issued, Absent
  <2> QED
    BY <2>1, <2>2 DEF LifespanInv, SyncOutlivesRotation
<1>2. CASE Enrolls
  <2>1. proc = "booting"
    BY <1>2 DEF LifespanInv, Enrolls
  <2>2. CASE (EnrollAccepted \/ Writes) /\ UNCHANGED life
    <3>1. proc' = proc /\ cut' = cut
      BY <2>2 DEF EnrollAccepted, Writes
    <3> QED
      BY <1>2, <2>1, <2>2, <3>1, BesideStep DEF Enrolls
  <2>3. CASE Persisted /\ phase' = "load" /\ UNCHANGED <<sync, signed, cache, stored, lost>>
    <3>1. /\ proc' = "up" /\ pc' = "idle" /\ cut' = cut /\ files' = files
          /\ files["meta"] # Absent
      <4>1. files["meta"] = bundle /\ bundle \in Issued
        BY <2>3 DEF Persisted, IInv, WrittenInv, FileOrder, LoopInv
      <4> QED
        BY <2>3, <4>1 DEF Persisted, Issued, Absent
    <3>2. LifespanTypeOK'
      BY <2>3 DEF LifespanInv, LifespanTypeOK, IInv
    <3> QED
      BY <2>3, <3>1, <3>2 DEF LifespanInv, SyncOutlivesRotation
  <2> QED
    BY <1>2, <2>2, <2>3 DEF Enrolls
<1>3. CASE StartFails
  BY <1>3, GoneStep DEF StartFails, EnrollRefused, StartupRaises, Ends
<1>4. CASE StartDisturbed
  BY <1>4, GoneStep DEF StartDisturbed, EnrollFails, EnrollCut, Ends
<1>5. CASE Warms
  <2>1. proc = "up"
    BY <1>5 DEF Warms, LifespanInv, IInv, TypeOK
  <2>2. LifespanTypeOK'
    BY <1>5, TokenType DEF Warms, LifespanInv, LifespanTypeOK, IInv
  <2> QED
    BY <1>5, <2>1, <2>2 DEF Warms, LifespanInv, SyncOutlivesRotation, vars, loop
<1> QED
  BY <1>1, <1>2, <1>3, <1>4, <1>5 DEF StartStep

(* The heartbeat's steps: only a persist that is done ends a persist.      *)
LEMMA BeatKeeps ==
    ASSUME IInv, IInv', LifespanInv, Beats \/ BeatGoesOn
    PROVE  LifespanInv'
<1>1. UNCHANGED life /\ phase # "load"
  BY DEF Beats, BeatGoesOn
<1>2. proc = "up"
  BY DEF Beats, BeatGoesOn, LifespanInv, IInv, TypeOK
<1>3. CASE HeartbeatOk \/ TickFails \/ RotateAnswerLost \/ TickRefused \/ RotateOk
  <2>1. proc' = proc /\ files' = files /\ pc # "writing"
    BY <1>3 DEF HeartbeatOk, TickFails, RotateAnswerLost, TickRefused, RotateOk, TickGoes, Ticking
  <2>2. cut => cut'
    BY <1>3 DEF HeartbeatOk, TickFails, RotateAnswerLost, TickRefused, RotateOk
  <2>3. ~cut => files["meta"] # Absent
    BY <1>2, <2>1 DEF LifespanInv
  <2> QED
    BY <1>1, <2>1, <2>2, <2>3, BesideStep
<1>4. CASE Writes \/ RotateCut
  BY <1>1, <1>4, BesideStep DEF Writes, RotateCut, CutShort
<1>5. CASE Persisted
  <2>1. files["meta"] = bundle /\ bundle \in Issued
    BY <1>5 DEF Persisted, IInv, WrittenInv, FileOrder, LoopInv
  <2>2. proc' = proc /\ cut' = cut /\ files' = files /\ files["meta"] # Absent
    BY <1>2, <1>5, <2>1 DEF Persisted, Issued, Absent
  <2> QED
    BY <1>1, <2>2, BesideStep
<1> QED
  BY <1>3, <1>4, <1>5 DEF Beats, BeatGoesOn

LEMMA SyncKeeps ==
    ASSUME IInv, IInv', LifespanInv, SyncStep \/ PlaneFails \/ SyncDisturbed
    PROVE  LifespanInv'
<1>1. NoToken \in [edge : Nat, key : Content \ {Torn}]
  BY DEF NoToken, Content, Generation, Torn, Absent
<1>2. /\ signed \in [edge : Nat, key : Content \ {Torn}]
      /\ cache \in BOOLEAN /\ stored \in BOOLEAN /\ lost \in Nat
  BY DEF LifespanInv, LifespanTypeOK
<1>3. ASSUME NEW path \in {"get", "getOne"}, FreeLoop, SyncSigns(path),
             UNCHANGED <<vars, phase, cache, stored, lost>>
      PROVE  LifespanInv'
  <2>1. CASE CanSign /\ sync' = path /\ signed' = Token
    BY <1>2, <1>3, <2>1, TokenType, SyncTaskStep
  <2>2. CASE ~CanSign /\ sync' = "dead" /\ UNCHANGED signed
    <3>1. cut
      BY <1>3, <2>2, SignsCurrent DEF FreeLoop, Responsive
    <3> QED
      BY <1>2, <1>3, <2>2, <3>1, SyncTaskStep
  <2> QED
    BY <1>3, <2>1, <2>2 DEF SyncSigns
<1>4. CASE SyncWakes
  BY <1>3, <1>4 DEF SyncWakes
<1>5. CASE PlaneLacks
  BY <1>1, <1>2, <1>5, SyncTaskStep DEF PlaneLacks
<1>6. CASE SyncFallsBack
  <2>1. CASE SyncSigns("getOne") /\ UNCHANGED <<vars, phase, cache, stored, lost>>
    BY <1>3, <1>6, <2>1 DEF SyncFallsBack
  <2>2. CASE phase = "warm" /\ SyncReturns /\ UNCHANGED <<cache, stored, lost>>
    BY <1>1, <1>2, <2>2, SyncTaskStep DEF SyncReturns
  <2>3. CASE WarmRaises /\ Gone
    BY <2>3, GoneStep DEF WarmRaises, Ends
  <2> QED
    BY <1>6, <2>1, <2>2, <2>3 DEF SyncFallsBack
<1>7. CASE PlaneAnswers
  <2>1. sync' \in {"ok", "no"}
    BY <1>7 DEF PlaneAnswers
  <2> QED
    BY <1>2, <1>7, <2>1, SyncTaskStep DEF PlaneAnswers
<1>8. CASE PlaneFails
  BY <1>2, <1>8, SyncTaskStep DEF PlaneFails, Loses
<1>9. CASE SyncApplies \/ SyncDisturbed \/ SyncGivesUp
  <2>1. /\ UNCHANGED vars /\ sync' = "sleep" /\ signed' = NoToken
        /\ phase' = phase \/ (phase = "warm" /\ phase' = "serve")
    BY <1>9 DEF SyncApplies, SyncDisturbed, SyncGivesUp, SyncReturns
  <2>2. cache' \in BOOLEAN /\ stored' \in BOOLEAN /\ lost' \in Nat
    <3>1. cache' \in {cache, TRUE, FALSE} /\ stored' \in {stored, TRUE, FALSE}
      BY <1>9 DEF SyncApplies, SyncDisturbed, SyncGivesUp
    <3>2. cache' \in BOOLEAN /\ stored' \in BOOLEAN
      BY <1>2, <3>1
    <3>3. lost' \in {lost, lost + 1}
      BY <1>9 DEF SyncApplies, SyncDisturbed, SyncGivesUp, Loses
    <3> QED
      BY <1>2, <3>2, <3>3
  <2> QED
    BY <1>1, <2>1, <2>2, SyncTaskStep
<1> QED
  BY <1>4, <1>5, <1>6, <1>7, <1>8, <1>9 DEF SyncStep

LEMMA OtherKeeps ==
    ASSUME IInv, IInv', LifespanInv,
           ServesToken \/ Sigterm \/ ShutdownStep \/ Killed \/ Outside
    PROVE  LifespanInv'
<1>1. CASE ServesToken \/ Outside
  <2>1. UNCHANGED <<loop, files, cut, life>>
    BY <1>1 DEF ServesToken, Outside, IssuesAccessToken, Revokes, CertExpires
  <2> QED
    BY <2>1, BesideStep DEF LifespanInv, loop
<1>2. CASE Sigterm \/ DrainEnds
  <2>1. NoToken \in [edge : Nat, key : Content \ {Torn}]
    BY DEF NoToken, Content, Generation, Torn, Absent
  <2>2. proc = "up" /\ UNCHANGED vars
    BY <1>2 DEF Sigterm, DrainEnds, FreeLoop, Responsive
  <2>3. LifespanTypeOK'
    BY <1>2, <2>1 DEF Sigterm, DrainEnds, LifespanInv, LifespanTypeOK, IInv
  <2> QED
    BY <1>2, <2>2, <2>3
       DEF Sigterm, DrainEnds, LifespanInv, SyncOutlivesRotation, vars, loop
<1>3. CASE Exits \/ Killed
  BY <1>3, GoneStep DEF Exits, Killed, Shutdown, Kill, Ends
<1> QED
  BY <1>1, <1>2, <1>3 DEF ShutdownStep

LEMMA LifespanInductive == LifespanSpec => [](IInv /\ LifespanInv)
<1>1. LifespanInit => IInv /\ LifespanInv
  <2> SUFFICES ASSUME LifespanInit PROVE IInv /\ LifespanInv
    OBVIOUS
  <2>1. IInv
    BY InitIInv DEF LifespanInit
  <2>2. NoToken \in [edge : Nat, key : Content \ {Torn}]
    BY DEF NoToken, Content, Generation, Torn, Absent
  <2>3. LifespanTypeOK
    BY <2>1, <2>2 DEF LifespanInit, LifespanTypeOK, IInv
  <2> QED
    BY <2>1, <2>3 DEF LifespanInit, Init, LifespanInv, SyncOutlivesRotation
<1>2. IInv /\ LifespanInv /\ [LifespanNext]_lifespanVars => (IInv /\ LifespanInv)'
  <2> SUFFICES ASSUME IInv, LifespanInv, [LifespanNext]_lifespanVars
               PROVE  IInv' /\ LifespanInv'
    OBVIOUS
  <2>1. IInv'
    BY NextIInv, IdentityStep
  <2>2. CASE UNCHANGED lifespanVars
    <3>1. UNCHANGED <<vars, life>>
      BY <2>2 DEF lifespanVars
    <3> QED
      BY <2>1, <3>1, BesideStep DEF LifespanInv, vars, loop
  <2> QED
    BY <2>1, <2>2, StartStepKeeps, BeatKeeps, SyncKeeps, OtherKeeps DEF LifespanNext
<1> QED
  BY <1>1, <1>2, PTL DEF LifespanSpec

-----------------------------------------------------------------------------
(* The lifespan takes no step with the identity that EdgeIdentity does not *)
(* allow, so every theorem of EdgeIdentityProofs holds of it (app.py       *)
(* _lifespan, heartbeat.py).                                               *)
THEOREM LifespanImplementsIdentity == LifespanSpec => Spec
<1>1. LifespanInit => Init
  BY DEF LifespanInit
<1> QED
  BY <1>1, IdentityStep, PTL DEF LifespanSpec, Spec

(* Every variable keeps its type; in particular no request is ever signed  *)
(* with a torn key (policy/jwt.py mint_cert_jwt).                          *)
THEOREM LifespanTypeCorrect == LifespanSpec => []LifespanTypeOK
<1>1. LifespanInv => LifespanTypeOK
  BY DEF LifespanInv
<1> QED
  BY <1>1, LifespanInductive, PTL

(* Only a persist cut short can end the policy sync: no rotation does,     *)
(* whenever the sync mints (sync.py run_forever, policy/client.py          *)
(* _http_get).                                                             *)
THEOREM SyncSurvives == LifespanSpec => []SyncOutlivesRotation
<1>1. LifespanInv => SyncOutlivesRotation
  BY DEF LifespanInv
<1> QED
  BY <1>1, LifespanInductive, PTL

(* A green probe means credentials the gateway takes, or an edge that an   *)
(* administrator revoked, unless a persist was cut short or an answer lost *)
(* (health.py health_ready).                                               *)
THEOREM ReadyIsAccepted == LifespanSpec => []ReadyMeansAccepted
<1>1. IInv /\ LifespanInv => ReadyMeansAccepted
  <2> SUFFICES ASSUME IInv, LifespanInv, Ready, Responsive, ~cut
               PROVE  CanSign /\ (Accepts(Token) \/ Token.edge \in revokedIds)
    BY DEF ReadyMeansAccepted
  <2>1. proc = "up" /\ pc # "writing"
    BY DEF Responsive
  <2> QED
    BY <2>1, SignsCurrent DEF Accepts
<1> QED
  BY <1>1, LifespanInductive, PTL
=============================================================================
