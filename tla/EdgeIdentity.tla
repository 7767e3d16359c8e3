---------------------------- MODULE EdgeIdentity ----------------------------
(***************************************************************************)
(* The edge's identity: how it is enrolled, kept on disk, rotated and      *)
(* revoked, and who signs with which key.                                  *)
(*                                                                         *)
(*   identity.py        persist_credentials, load_credentials              *)
(*   enroll.py          bootstrap_if_needed                                *)
(*   heartbeat.py       heartbeat_loop, _one_tick                          *)
(*   control_plane.py   enroll, heartbeat, rotate                          *)
(*   routes/oauth.py    _key_state and the minting of access tokens        *)
(*   app.py             the part of _lifespan that owns the heartbeat      *)
(*                                                                         *)
(* The gateway issues key pairs with their certificates; a pair is a       *)
(* number, its generation.  A file is absent, holds what was issued with a *)
(* generation, or is torn: write_text truncates it first, so a process     *)
(* killed, or a disk filled, before the write ends leaves part of a file.  *)
(*                                                                         *)
(* The tick calls the gateway with the synchronous client: the event loop  *)
(* does nothing else from the heartbeat to the end of a rotation's writes. *)
(* The gateway does, and the process may be killed.                        *)
(***************************************************************************)
EXTENDS Integers, Sequences

CONSTANTS
    Tokens,         \* enrollments the mounted one-time tokens are good for
    MaxIssued,      \* bound: no rotation is due once so many pairs are issued
    MaxFaults,      \* bound: failed or lost calls, failed writes
    MaxRestarts     \* bound: kills and shutdowns

ASSUME IdentityAssumption ==
    /\ Tokens \in Nat /\ MaxIssued \in Nat
    /\ MaxFaults \in Nat /\ MaxRestarts \in Nat

VARIABLES
    edgeOf,     \* gateway: of each generation, the edge it was issued to
    revokedIds, \* gateway: edges an administrator revoked
    tokensUsed, \* gateway: bootstrap tokens spent
    expired,    \* generations whose certificate has expired
    files,      \* the four files of the state directory
    proc,       \* "down", "booting" (lifespan, in bootstrap_if_needed) or "up"
    creds,      \* HeartbeatState.credentials: [edge, cert, key]
    revoked,    \* HeartbeatState.revoked
    pc,         \* "enrolling", "idle" (the loop sleeps), "rotating", "writing",
                \* "returned" (the loop is over), "dead" (it raised)
    bundle,     \* the generation being persisted
    written,    \* half-steps of persist_credentials done
    oauthKey,   \* app.state.oauth_private_key_pem
    minted,     \* history: keys that signed this process's access tokens
    exit,       \* how the last process ended
    cut,        \* history: a persist was cut short, or an answer lost
    faults, restarts

gateway == <<edgeOf, revokedIds, tokensUsed, expired>>
oauth   == <<oauthKey, minted>>
loop    == <<proc, creds, revoked, pc, bundle, written>>
bounds  == <<faults, restarts>>
vars    == <<gateway, files, loop, oauth, exit, cut, bounds>>

Absent == 0
Torn   == -1

FileOrder == <<"cert", "key", "ca", "meta">>
FileNames == {"cert", "key", "ca", "meta"}

NoCreds == [edge |-> 0, cert |-> Absent, key |-> Absent]

Init ==
    /\ edgeOf = <<>> /\ revokedIds = {} /\ tokensUsed = 0 /\ expired = {}
    /\ files = [f \in FileNames |-> Absent]
    /\ proc = "down" /\ creds = NoCreds /\ revoked = FALSE
    /\ pc = "idle" /\ bundle = 0 /\ written = 0
    /\ oauthKey = Absent /\ minted = {}
    /\ exit = "none" /\ cut = FALSE
    /\ faults = 0 /\ restarts = 0

Fault == faults < MaxFaults /\ faults' = faults + 1

-----------------------------------------------------------------------------
(* The gateway, external.  It knows one key of each edge, the last issued. *)
Issued == 1..Len(edgeOf)

IsCurrent(e, k) ==
    /\ k \in Issued /\ edgeOf[k] = e
    /\ \A g \in Issued : edgeOf[g] = e => g <= k

Accepts(c) == c.edge \notin revokedIds /\ IsCurrent(c.edge, c.key)

(* It issues the next generation, to edge e or, with e = 0, to a new edge. *)
Issue(e) == edgeOf' = Append(edgeOf, IF e = 0 THEN Len(edgeOf) + 1 ELSE e)

Revokes ==
    /\ \E g \in Issued :
          /\ edgeOf[g] \notin revokedIds
          /\ revokedIds' = revokedIds \cup {edgeOf[g]}
    /\ UNCHANGED <<edgeOf, tokensUsed, expired, files, loop, oauth, exit, cut, bounds>>

CertExpires ==
    /\ \E g \in Issued :
          /\ g \notin expired /\ \A h \in Issued : h < g => h \in expired
          /\ expired' = expired \cup {g}
    /\ UNCHANGED <<edgeOf, revokedIds, tokensUsed, files, loop, oauth, exit, cut, bounds>>

-----------------------------------------------------------------------------
(* Mutant of Reusable: a mounted token goes before the files.              *)
ReusableOnceTokenSpent ==
    /\ tokensUsed = Tokens /\ files["meta"] \in Issued \ expired
    /\ \A f \in FileNames : files[f] # Absent

(* load_credentials and the test of bootstrap_if_needed: only meta.json is *)
(* parsed, the other files need only be there.                             *)
Reusable ==
    /\ files["meta"] \in Issued \ expired
    /\ \A f \in FileNames : files[f] # Absent

Loaded == [edge |-> edgeOf[files["meta"]], cert |-> files["cert"], key |-> files["key"]]

(* A process starts: it reuses what it loads, or enrolls.                  *)
Boot ==
    /\ proc = "down"
    /\ \/ Reusable /\ proc' = "up" /\ pc' = "idle" /\ creds' = Loaded
       \/ ~Reusable /\ proc' = "booting" /\ pc' = "enrolling" /\ creds' = NoCreds
    /\ exit' = "none"
    /\ UNCHANGED <<gateway, files, revoked, bundle, written, oauth, cut, bounds>>

(* The end of a process.                                                   *)
Ends(how) ==
    /\ exit' = how
    /\ proc' = "down" /\ creds' = NoCreds /\ revoked' = FALSE
    /\ pc' = "idle" /\ bundle' = 0 /\ written' = 0
    /\ oauthKey' = Absent /\ minted' = {}

EnrollAccepted ==
    /\ pc = "enrolling"
    /\ tokensUsed < Tokens
    /\ tokensUsed' = tokensUsed + 1
    /\ Issue(0)
    /\ pc' = "writing" /\ bundle' = Len(edgeOf')
    /\ UNCHANGED <<revokedIds, expired, files, proc, creds, revoked, written, oauth,
                   exit, cut, bounds>>

(* No token is mounted or the gateway has seen them all: EnrollmentFailed, *)
(* and the lifespan exits with status 2.                                   *)
EnrollRefused ==
    /\ pc = "enrolling"
    /\ tokensUsed = Tokens
    /\ Ends("failed")
    /\ UNCHANGED <<gateway, files, cut, bounds>>

(* The call fails, before the gateway has spent the token or after:        *)
(* EnrollmentFailed again; or a 201 with a body that cannot be read, whose *)
(* exception nothing catches.                                              *)
EnrollFails ==
    /\ pc = "enrolling"
    /\ Fault
    /\ \/ UNCHANGED <<edgeOf, tokensUsed>>
       \/ tokensUsed < Tokens /\ tokensUsed' = tokensUsed + 1 /\ Issue(0)
    /\ Ends("failed") \/ Ends("error")
    /\ UNCHANGED <<revokedIds, expired, files, cut, restarts>>

-----------------------------------------------------------------------------
(* Mutant of Half: key.pem is left as it is when there is one.             *)
HalfKeepsKey(n) ==
    LET f == FileOrder[(n + 1) \div 2]
    IN  IF f = "key" /\ files[f] \in Issued THEN files
        ELSE [files EXCEPT ![f] = IF n % 2 = 1 THEN Torn ELSE bundle]

(* persist_credentials, half-step n: a file in turn is truncated, and then *)
(* holds its new content.                                                  *)
Half(n) ==
    [files EXCEPT ![FileOrder[(n + 1) \div 2]] = IF n % 2 = 1 THEN Torn ELSE bundle]

Writes ==
    /\ pc = "writing" /\ written < 8
    /\ files' = Half(written + 1)
    /\ written' = written + 1
    /\ UNCHANGED <<gateway, proc, creds, revoked, pc, bundle, oauth, exit, cut, bounds>>

Fresh == [edge |-> edgeOf[bundle], cert |-> bundle, key |-> bundle]

(* Mutant of Persisted: replace_credentials is forgotten.                  *)
PersistedNotSwapped ==
    /\ pc = "writing" /\ written = 8
    /\ creds' = IF proc = "up" THEN creds ELSE Fresh
    /\ proc' = "up" /\ pc' = "idle"
    /\ bundle' = 0 /\ written' = 0
    /\ UNCHANGED <<gateway, files, revoked, oauth, exit, cut, bounds>>

(* bootstrap_if_needed returns the new credentials and the heartbeat task  *)
(* is created, or the tick swaps them in and the loop sleeps.              *)
Persisted ==
    /\ pc = "writing" /\ written = 8
    /\ creds' = Fresh
    /\ proc' = "up" /\ pc' = "idle"
    /\ bundle' = 0 /\ written' = 0
    /\ UNCHANGED <<gateway, files, revoked, oauth, exit, cut, bounds>>

(* A write raises OSError, which nothing catches: an enrollment ends the   *)
(* process, a rotation the heartbeat task.                                 *)
CutShort ==
    /\ pc = "writing" /\ written < 8
    /\ Fault
    /\ cut' = TRUE
    /\ UNCHANGED <<gateway, files, restarts>>

EnrollCut == proc = "booting" /\ CutShort /\ Ends("error")

RotateCut ==
    /\ proc = "up" /\ CutShort
    /\ pc' = "dead" /\ bundle' = 0 /\ written' = 0
    /\ UNCHANGED <<proc, creds, revoked, oauth, exit>>

-----------------------------------------------------------------------------
(* The calls of a tick return, to the loop that sleeps again, or to        *)
(* another state of it.                                                    *)
TickGoes(where) ==
    /\ pc' = where
    /\ UNCHANGED <<files, proc, creds, written, oauth, exit>>

Ticking == proc = "up" /\ pc \in {"idle", "rotating"}

(* The gateway accepts the heartbeat; it may find a rotation due.          *)
HeartbeatOk ==
    /\ proc = "up" /\ pc = "idle" /\ Accepts(creds)
    /\ \/ TickGoes("idle")
       \/ Len(edgeOf) < MaxIssued /\ TickGoes("rotating")
    /\ UNCHANGED <<gateway, revoked, bundle, cut, bounds>>

RotateOk ==
    /\ pc = "rotating" /\ Accepts(creds)
    /\ Issue(creds.edge)
    /\ bundle' = Len(edgeOf')
    /\ TickGoes("writing")
    /\ UNCHANGED <<revokedIds, tokensUsed, expired, revoked, cut, bounds>>

(* Mutant of TickRefused: a 401 counts as transient.                       *)
RefusedRetries ==
    /\ Ticking /\ creds.key # Torn /\ ~Accepts(creds)
    /\ TickGoes("idle")
    /\ UNCHANGED <<gateway, revoked, bundle, cut, bounds>>

(* Mutant of TickRefused: nothing catches EdgeRevoked.                     *)
RefusedRaises ==
    /\ Ticking /\ creds.key # Torn /\ ~Accepts(creds)
    /\ revoked' = TRUE
    /\ TickGoes("dead")
    /\ UNCHANGED <<gateway, bundle, cut, bounds>>

(* Either call is refused, by a 401, a 403 or revoked=true: EdgeRevoked.   *)
TickRefused ==
    /\ Ticking /\ creds.key # Torn /\ ~Accepts(creds)
    /\ revoked' = TRUE
    /\ TickGoes("returned")
    /\ UNCHANGED <<gateway, bundle, cut, bounds>>

(* A key that was torn when it was loaded signs nothing: the JWT library   *)
(* raises in the lifespan's warm, which mints before the first tick has    *)
(* run, and the startup fails.                                             *)
StartupRaises ==
    /\ proc = "up" /\ pc = "idle" /\ creds.key = Torn
    /\ Ends("error")
    /\ UNCHANGED <<gateway, files, cut, bounds>>

(* So does one that has to mint a second time in its warm, after a first   *)
(* rotation was cut short in the key file.                                 *)
WarmRaises ==
    /\ proc = "up" /\ pc = "dead" /\ files["key"] = Torn
    /\ Ends("error")
    /\ UNCHANGED <<gateway, files, cut, bounds>>

(* A call fails: EdgeControlPlaneError, and the loop sleeps; or a 200 with *)
(* a body that cannot be read, whose exception nothing catches.            *)
TickFails ==
    /\ Ticking
    /\ creds.key # Torn
    /\ Fault
    /\ TickGoes("idle") \/ TickGoes("dead")
    /\ UNCHANGED <<gateway, revoked, bundle, cut, restarts>>

(* The same of a rotation that the gateway has carried out.                *)
RotateAnswerLost ==
    /\ pc = "rotating" /\ Accepts(creds)
    /\ Fault
    /\ Issue(creds.edge)
    /\ cut' = TRUE
    /\ TickGoes("idle") \/ TickGoes("dead")
    /\ UNCHANGED <<revokedIds, tokensUsed, expired, revoked, bundle, restarts>>

-----------------------------------------------------------------------------
Responsive == proc = "up" /\ pc \in {"idle", "returned", "dead"}

(* Mutant of KeyState: the file is read every time.                        *)
KeyStateUncached == files["key"]

(* _key_state: the key cached at the first use, or else the file's.        *)
KeyState == IF oauthKey # Absent THEN oauthKey ELSE files["key"]

(* Mutant of IssuesAccessToken: whatever the file holds.                   *)
IssuesWithAnyKey ==
    /\ Responsive
    /\ oauthKey' = KeyState
    /\ minted' = minted \cup {KeyState}
    /\ UNCHANGED <<gateway, files, loop, exit, cut, bounds>>

(* POST /v1/oauth/token, past its checks of the client.  A key that is     *)
(* absent or torn answers with an error.                                   *)
IssuesAccessToken ==
    /\ Responsive
    /\ KeyState \notin {Absent, Torn}
    /\ oauthKey' = KeyState
    /\ minted' = minted \cup {KeyState}
    /\ UNCHANGED <<gateway, files, loop, exit, cut, bounds>>

-----------------------------------------------------------------------------
(* SIGTERM.  The lifespan awaits the heartbeat task, so an exception that  *)
(* ended it is raised there; a revoked edge exits with status 3.           *)
Shutdown ==
    /\ Responsive
    /\ restarts < MaxRestarts /\ restarts' = restarts + 1
    /\ Ends(IF pc = "dead" THEN "error" ELSE IF revoked THEN "revoked" ELSE "clean")
    /\ UNCHANGED <<gateway, files, cut, faults>>

(* The pod is killed.                                                      *)
Kill ==
    /\ proc # "down"
    /\ restarts < MaxRestarts /\ restarts' = restarts + 1
    /\ cut' = (cut \/ pc = "writing")
    /\ Ends("killed")
    /\ UNCHANGED <<gateway, files, faults>>

-----------------------------------------------------------------------------
(* What the process does by itself.  That a rotation is due is for the     *)
(* gateway to say.                                                         *)
Step ==
    \/ Boot
    \/ EnrollAccepted \/ EnrollRefused
    \/ Writes \/ Persisted
    \/ StartupRaises \/ TickRefused \/ RotateOk

Next ==
    \/ Step \/ HeartbeatOk
    \/ EnrollFails \/ EnrollCut \/ RotateCut \/ TickFails \/ RotateAnswerLost
    \/ WarmRaises
    \/ IssuesAccessToken
    \/ Revokes \/ CertExpires
    \/ Shutdown \/ Kill

Spec == Init /\ [][Next]_vars

(* The kubelet starts the pod, the code runs on, the loop's sleep ends and *)
(* every call is answered.                                                 *)
FairSpec == Spec /\ WF_vars(Step)

-----------------------------------------------------------------------------
Generation == Nat \ {0}
Content == Generation \cup {Absent, Torn}

TypeOK ==
    /\ edgeOf \in Seq(Generation)
    /\ revokedIds \subseteq Generation
    /\ tokensUsed \in Nat
    /\ expired \subseteq Generation
    /\ files \in [FileNames -> Content]
    /\ proc \in {"down", "booting", "up"}
    /\ creds \in [edge : Nat, cert : Content, key : Content]
    /\ revoked \in BOOLEAN
    /\ pc \in {"enrolling", "idle", "rotating", "writing", "returned", "dead"}
    /\ bundle \in Nat /\ written \in 0..8
    /\ oauthKey \in Content
    /\ minted \subseteq Generation
    /\ exit \in {"none", "clean", "revoked", "failed", "error", "killed"}
    /\ cut \in BOOLEAN
    /\ faults \in Nat /\ restarts \in Nat

(* While the heartbeat loop lives, the identity it presents is the one the *)
(* policy sync and the telemetry sender read from the files for theirs: no *)
(* rotation, restart or failed write leaves the edge signing with two keys *)
(* (heartbeat.py _one_tick, policy/jwt.py mint_cert_jwt).                  *)
OneIdentity ==
    proc = "up" /\ pc \in {"idle", "rotating", "returned"} =>
        /\ files["key"] = creds.key
        /\ files["meta"] \in Issued /\ edgeOf[files["meta"]] = creds.edge

(* Unless a persist was cut short or a rotation's answer lost, the gateway *)
(* accepts the edge until it revokes it: rotations, restarts, expiries and *)
(* failed calls never leave it with a key that has been replaced           *)
(* (identity.py persist_credentials, enroll.py bootstrap_if_needed).       *)
StaysAccepted ==
    proc = "up" /\ pc \in {"idle", "rotating"} /\ ~cut =>
        creds.edge \in revokedIds \/ Accepts(creds)

(* Every access token a process issued verifies in that process to its     *)
(* end, although rotations rewrite the key file under it: decide() checks  *)
(* with the key pair that routes/oauth.py _key_state cached.               *)
TokensVerify == minted \subseteq {oauthKey}

(* An edge that an administrator revoked learns of it, unless its loop has *)
(* died or its process ends first (heartbeat.py heartbeat_loop).           *)
RevocationNoticed ==
    (proc = "up" /\ creds.edge \in revokedIds) ~> (revoked \/ pc = "dead" \/ proc = "down")

(* A process that learned of its revocation says so when it ends, unless   *)
(* it is killed: no exception of the heartbeat task, which would leave the *)
(* lifespan before its SystemExit(3), can come after it (app.py _lifespan, *)
(* heartbeat.py heartbeat_loop).                                           *)
RevocationTold ==
    [][revoked /\ ~revoked' => exit' \in {"revoked", "killed"}]_vars

(* Four files, a process's memory and the control plane's record come to   *)
(* one credential that changes in one step: while it is written it is the  *)
(* new one, since nothing else of the process runs, and between persists   *)
(* it is what is on disk and what every reader of it signs with.  An edge  *)
(* enrolls only for want of one to reuse.  A persist cut short, or an      *)
(* answer lost, is the end of this promise (identity.py, enroll.py         *)
(* bootstrap_if_needed, heartbeat.py _one_tick).                           *)
Credential == INSTANCE EdgeCredential WITH
    held  <- IF pc = "writing" THEN bundle ELSE files["key"],
    signs <- IF proc # "up" THEN {}
             ELSE IF pc = "writing" THEN {bundle}
             ELSE {creds.key, files["key"], files["meta"]}

KeepsOneCredential ==
    Credential!Init /\ [][cut' \/ Credential!Next]_(Credential!credentialVars)

-----------------------------------------------------------------------------
(* What the safety properties rest on: an invariant that every step keeps. *)

(* Where the process is in its life and where its loop is go together, and *)
(* a persist works on the generation issued last.                          *)
LoopInv ==
    /\ proc = "down" => pc = "idle" /\ creds = NoCreds
    /\ proc = "booting" => pc \in {"enrolling", "writing"}
    /\ proc = "up" => pc # "enrolling"
    /\ revoked <=> pc = "returned"
    /\ pc # "writing" => bundle = 0 /\ written = 0
    /\ pc = "writing" =>
          /\ bundle \in Issued /\ bundle = Len(edgeOf)
          /\ proc = "up" => edgeOf[bundle] = creds.edge

(* The files already written hold the bundle.                              *)
WrittenInv ==
    \A i \in 1..4 : written >= 2 * i => files[FileOrder[i]] = bundle

EdgesInv == \A g \in Issued : edgeOf[g] \in Issued

(* Between persists none of which was cut short, the disk is empty or of   *)
(* one generation, the last of its edge.                                   *)
DiskInv ==
    ~cut /\ pc # "writing" =>
        \E g \in Issued \cup {Absent} :
            /\ \A f \in FileNames : files[f] = g
            /\ g # Absent => IsCurrent(edgeOf[g], g)

(* A process enrolls for want of a credential, and a loop that died in no  *)
(* persist leaves its own on disk.                                         *)
ReuseInv ==
    /\ ~cut /\ pc = "enrolling" => files["key"] \in expired \cup {Absent}
    /\ ~cut /\ pc = "dead" => files["key"] = creds.key /\ creds.key # Absent

IInv ==
    /\ TypeOK /\ LoopInv /\ WrittenInv /\ EdgesInv /\ DiskInv
    /\ OneIdentity /\ TokensVerify
=============================================================================
