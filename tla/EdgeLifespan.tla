---------------------------- MODULE EdgeLifespan ----------------------------
(***************************************************************************)
(* The lifespan of an edge process around its identity: startup, the tasks *)
(* beside the heartbeat loop, readiness, and shutdown.                     *)
(*                                                                         *)
(*   app.py             _lifespan                                          *)
(*   routes/health.py   health_ready                                       *)
(*   policy/jwt.py      mint_cert_jwt                                      *)
(*   policy/sync.py     warm, run_forever and what sync_once does to them  *)
(*                                                                         *)
(* EdgeIdentity is the identity, this module composes it with its readers: *)
(* the policy sync reads the key from the files at each request and sends  *)
(* it across an await, while the heartbeat loop rotates it.  Every step    *)
(* that changes the identity is a step of EdgeIdentity, taken when the     *)
(* lifespan has got there.                                                 *)
(*                                                                         *)
(* A heartbeat tick runs without an await, rotation included: while it     *)
(* does, no other task runs, though the gateway answers.  The policies are *)
(* abstracted to whether there are any (PolicySync has the rest), and the  *)
(* drain of the telemetry to its end (TelemetrySender).  Those files can   *)
(* be read whenever they are whole.                                        *)
(***************************************************************************)
EXTENDS EdgeIdentity

CONSTANT MaxLost    \* bound: policy requests and persists that fail

ASSUME LostAssumption == MaxLost \in Nat

VARIABLES
    phase,      \* of the lifespan: "off", "boot" (bootstrap_if_needed), "load"
                \* (load_from_disk, to warm's mint), "warm" (its GET), "serve",
                \* "drain" and "stop" (the finally block, in two parts)
    sync,       \* the policy GET of warm or run_forever: "none", "sleep",
                \* "get", "missing" (a 404 to fetch_all), "getOne" (its second
                \* GET), "ok", "no" (answered, not handled), "dead" (raised)
    signed,     \* what its token says: [edge, key]
    cache,      \* PolicyCache.is_warm
    stored,     \* the state directory has policies
    lost        \* policy requests and persists that failed so far

life == <<phase, sync, signed, cache, stored, lost>>
lifespanVars == <<vars, life>>

NoToken == [edge |-> 0, key |-> Absent]

LifespanInit ==
    /\ Init
    /\ phase = "off" /\ sync = "none" /\ signed = NoToken
    /\ cache = FALSE /\ stored = FALSE /\ lost = 0

-----------------------------------------------------------------------------
(* mint_cert_jwt: the key and the edge id are read from the files; one that*)
(* is missing or torn raises.                                              *)
CanSign == files["key"] \in Issued /\ files["meta"] \in Issued
Token   == [edge |-> edgeOf[files["meta"]], key |-> files["key"]]

(* A failure of a policy request or a persist, within the bound.           *)
Loses == lost < MaxLost /\ lost' = lost + 1

(* Mutant of FreeLoop: the tick runs in a thread.                          *)
FreeLoopInThread == phase \in {"warm", "serve", "drain", "stop"}

(* No tick is running: another task, or the server, may.                   *)
FreeLoop == phase \in {"warm", "serve", "drain", "stop"} /\ Responsive

(* The process ends, with all that was in its memory.                      *)
Gone ==
    /\ phase' = "off" /\ sync' = "none" /\ signed' = NoToken /\ cache' = FALSE
    /\ UNCHANGED <<stored, lost>>

-----------------------------------------------------------------------------
(* _lifespan up to its yield.  A process that has its credentials creates  *)
(* the heartbeat task, loads the policies on disk, and mints for the first *)
(* sync, all before the first tick can run.                                *)
Boots ==
    /\ Boot
    /\ phase' = IF proc' = "up" THEN "load" ELSE "boot"
    /\ UNCHANGED <<sync, signed, cache, stored, lost>>

Enrolls ==
    /\ phase = "boot"
    /\ \/ (EnrollAccepted \/ Writes) /\ UNCHANGED life
       \/ Persisted /\ phase' = "load" /\ UNCHANGED <<sync, signed, cache, stored, lost>>

StartFails ==
    /\ phase \in {"boot", "load"}
    /\ EnrollRefused \/ StartupRaises
    /\ Gone

StartDisturbed ==
    /\ phase = "boot"
    /\ EnrollFails \/ EnrollCut
    /\ Gone

Warms ==
    /\ phase = "load" /\ CanSign
    /\ cache' = stored
    /\ signed' = Token
    /\ sync' = "get" /\ phase' = "warm"
    /\ UNCHANGED <<vars, stored, lost>>

-----------------------------------------------------------------------------
(* The heartbeat task, until it is cancelled.                              *)
Beats ==
    /\ phase \in {"warm", "serve", "drain", "stop"}
    /\ HeartbeatOk \/ TickFails \/ RotateAnswerLost \/ RotateCut
    /\ UNCHANGED life

BeatGoesOn ==
    /\ phase \in {"warm", "serve", "drain", "stop"}
    /\ TickRefused \/ RotateOk \/ Writes \/ Persisted
    /\ UNCHANGED life

-----------------------------------------------------------------------------
(* Mutant of SyncSigns: the key is read once, when the client is built.    *)
SyncSignsOnce(path) ==
    /\ sync' = path
    /\ signed' = [edge |-> creds.edge,
                  key |-> CHOOSE g \in Issued : /\ edgeOf[g] = creds.edge
                                                /\ \A h \in Issued : edgeOf[h] = creds.edge => g <= h]

(* Each GET mints for itself, outside any try.                             *)
SyncSigns(path) ==
    \/ CanSign /\ sync' = path /\ signed' = Token
    \/ ~CanSign /\ sync' = "dead" /\ UNCHANGED signed

SyncWakes ==
    /\ FreeLoop /\ phase # "warm"
    /\ sync = "sleep"
    /\ SyncSigns("get")
    /\ UNCHANGED <<vars, phase, cache, stored, lost>>

Asking == sync \in {"get", "getOne"}

(* External: the control plane checks the token against the key it has for *)
(* the edge when the request reaches it.                                   *)
PlaneAnswers ==
    /\ Asking
    /\ sync' = IF Accepts(signed) THEN "ok" ELSE "no"
    /\ UNCHANGED <<vars, phase, signed, cache, stored, lost>>

(* External: an older one has no path for all the policies.                *)
PlaneLacks ==
    /\ sync = "get"
    /\ sync' = "missing" /\ signed' = NoToken
    /\ UNCHANGED <<vars, phase, cache, stored, lost>>

(* A transport error, another status or an unreadable body.                *)
PlaneFails ==
    /\ Asking
    /\ Loses
    /\ sync' = "no"
    /\ UNCHANGED <<vars, phase, signed, cache, stored>>

(* sync_once returns: to warm, after which the other tasks are created and *)
(* the server starts, or to the loop.  Whatever warm returned, or its      *)
(* RuntimeError, the startup goes on.                                      *)
SyncReturns ==
    /\ sync' = "sleep" /\ signed' = NoToken
    /\ phase' = IF phase = "warm" THEN "serve" ELSE phase
    /\ UNCHANGED vars

(* fetch_all asks for the one policy, with a second token.  What the mint  *)
(* raises ends run_forever's task; in warm a metadata file that is torn is *)
(* a RuntimeError, and the JWT library's exception ends the startup.       *)
SyncFallsBack ==
    /\ FreeLoop /\ sync = "missing"
    /\ \/ /\ phase # "warm" \/ CanSign
          /\ SyncSigns("getOne")
          /\ UNCHANGED <<vars, phase, cache, stored, lost>>
       \/ /\ phase = "warm" /\ ~CanSign /\ files["key"] # Torn
          /\ SyncReturns
          /\ UNCHANGED <<cache, stored, lost>>
       \/ phase = "warm" /\ WarmRaises /\ Gone

SyncApplies ==
    /\ FreeLoop /\ sync = "ok"
    /\ cache' = TRUE /\ stored' = TRUE
    /\ SyncReturns
    /\ UNCHANGED lost

(* The tenant has no active policy any more, or the persist fails after    *)
(* the swap.                                                               *)
SyncDisturbed ==
    /\ FreeLoop /\ sync = "ok"
    /\ Loses
    /\ \/ cache' = FALSE /\ stored' = FALSE
       \/ cache' = TRUE /\ UNCHANGED stored
    /\ SyncReturns

SyncGivesUp ==
    /\ FreeLoop /\ sync = "no"
    /\ SyncReturns
    /\ UNCHANGED <<cache, stored, lost>>

-----------------------------------------------------------------------------
(* POST /v1/oauth/token, past its test of the cache.                       *)
ServesToken ==
    /\ phase = "serve" /\ cache
    /\ IssuesAccessToken
    /\ UNCHANGED life

(* SIGTERM: the server finishes its requests, and the finally block drains *)
(* the telemetry with all tasks alive.                                     *)
Sigterm ==
    /\ phase = "serve" /\ FreeLoop
    /\ restarts < MaxRestarts
    /\ phase' = "drain"
    /\ UNCHANGED <<vars, sync, signed, cache, stored, lost>>

(* The sync task is cancelled and awaited, wherever it is, and whatever it *)
(* raised is suppressed.                                                   *)
DrainEnds ==
    /\ phase = "drain" /\ FreeLoop
    /\ phase' = "stop" /\ sync' = "none" /\ signed' = NoToken
    /\ UNCHANGED <<vars, cache, stored, lost>>

(* Mutant of Exits: the heartbeat task is awaited and not cancelled.       *)
ExitsUncancelled ==
    /\ phase = "stop" /\ pc # "idle"
    /\ Shutdown
    /\ Gone

(* Mutant of Exits: neither the task's end nor the revocation counts.      *)
ExitsClean ==
    /\ phase = "stop"
    /\ Responsive
    /\ restarts < MaxRestarts /\ restarts' = restarts + 1
    /\ Ends("clean")
    /\ UNCHANGED <<gateway, files, cut, faults>>
    /\ Gone

(* The heartbeat task is cancelled, between two ticks, and awaited; the    *)
(* process exits as the task and the revocation say.                       *)
Exits ==
    /\ phase = "stop"
    /\ Shutdown
    /\ Gone

Killed == Kill /\ Gone

Outside == (Revokes \/ CertExpires) /\ UNCHANGED life

-----------------------------------------------------------------------------
StartStep    == Boots \/ Enrolls \/ StartFails \/ Warms
SyncStep     ==
    \/ SyncWakes \/ PlaneAnswers \/ PlaneLacks \/ SyncFallsBack
    \/ SyncApplies \/ SyncGivesUp
ShutdownStep == DrainEnds \/ Exits

LifespanNext ==
    \/ StartStep \/ StartDisturbed
    \/ Beats \/ BeatGoesOn
    \/ SyncStep \/ PlaneFails \/ SyncDisturbed
    \/ ServesToken
    \/ Sigterm \/ ShutdownStep \/ Killed
    \/ Outside

LifespanSpec == LifespanInit /\ [][LifespanNext]_lifespanVars

(* The kubelet starts a pod that is down, the loop runs every task that    *)
(* can run, sleeps end, requests are answered or time out, and the drain   *)
(* has a deadline.                                                         *)
LifespanFairSpec ==
    /\ LifespanSpec
    /\ WF_lifespanVars(StartStep) /\ WF_lifespanVars(BeatGoesOn)
    /\ WF_lifespanVars(SyncStep) /\ WF_lifespanVars(ShutdownStep)

-----------------------------------------------------------------------------
(* health_ready: the probe gets a 200.  Enrollment is complete whenever the*)
(* server runs.                                                            *)
Ready == phase = "serve" /\ ~revoked /\ cache

LifespanTypeOK ==
    /\ TypeOK
    /\ phase \in {"off", "boot", "load", "warm", "serve", "drain", "stop"}
    /\ sync \in {"none", "sleep", "get", "missing", "getOne", "ok", "no", "dead"}
    /\ signed \in [edge : Nat, key : Content \ {Torn}]
    /\ cache \in BOOLEAN /\ stored \in BOOLEAN /\ lost \in Nat

(* The policy sync survives every rotation: its mint, which no handler     *)
(* covers, never meets files that a persist is rewriting, at any point of  *)
(* the startup or the shutdown.  Only one that was cut short can end it    *)
(* (policy/client.py _http_get, sync.py run_forever, heartbeat.py          *)
(* _one_tick).                                                             *)
SyncOutlivesRotation == sync = "dead" => cut

(* While the probe is green the gateway would take what the pod signs, or  *)
(* an administrator has revoked the edge: readiness looks at the cache and *)
(* at `revoked', and neither a rotation, nor a heartbeat loop that died of *)
(* an unreadable answer, nor an expired certificate makes it lie (health.py*)
(* health_ready).                                                          *)
ReadyMeansAccepted ==
    Ready /\ Responsive /\ ~cut =>
        CanSign /\ (Accepts(Token) \/ Token.edge \in revokedIds)

(* A pod becomes ready and stays so: however the first sync raced with the *)
(* first rotation, requests failed and processes were killed.  Not if it   *)
(* was revoked, a persist was cut short, or no token is left to enroll     *)
(* with (README: "returns 503 until enrollment and the first policy sync").*)
BecomesReady ==
    <>[]Ready \/ <>(revokedIds # {}) \/ <>cut \/ []<>(exit = "failed")

(* A shutdown ends, whatever the heartbeat loop and the sync were doing    *)
(* when it began (_lifespan's finally block).                              *)
LifespanEnds == phase = "drain" ~> phase = "off"

(* Around its tasks the lifespan leaves the identity what EdgeIdentity     *)
(* says it is, and keeps it moving (app.py _lifespan with heartbeat.py).   *)
KeepsIdentity == FairSpec

-----------------------------------------------------------------------------
(* What the safety properties rest on, with IInv.                          *)

(* The phases go with the life of the identity's process, and a process    *)
(* whose files no cut persist left has them.                               *)
LifespanInv ==
    /\ LifespanTypeOK
    /\ phase = "off" <=> proc = "down"
    /\ phase = "boot" <=> proc = "booting"
    /\ phase = "load" => pc = "idle"
    /\ proc = "up" /\ pc # "writing" /\ ~cut => files["meta"] # Absent
    /\ SyncOutlivesRotation
=============================================================================
