--------------------------- MODULE PolicySyncTurns ---------------------------
(***************************************************************************)
(* The steps of PolicySync, seen from outside the event loop's turns.      *)
(*                                                                         *)
(* sync_once swaps the answer in and persists it without an await          *)
(* (policy/sync.py, policy/cache.py replace, replace_all).  A history      *)
(* variable keeps the cache and its files as they were when the loop last  *)
(* was free; through it, PolicySync implements PolicyTurns.                *)
(***************************************************************************)
EXTENDS PolicySync

VARIABLE turn   \* history: the cache and its files at the last turn's end

Cache ==
    [snaps |-> snaps, primary |-> primary, last |-> lastSuccess,
     legacy |-> legacy, files |-> files, manifest |-> manifest]

(* A persist runs to its end within one turn.                              *)
Noted == turn' = IF Persisting' THEN turn ELSE Cache'

TurnsInit == Init /\ turn = Cache

TurnsSpec == TurnsInit /\ [][Next /\ Noted]_<<vars, turn>>

TurnsFairSpec == TurnsSpec /\ Fairness

Turns == INSTANCE PolicyTurns WITH
    snaps       <- turn.snaps,
    primary     <- turn.primary,
    lastSuccess <- turn.last,
    legacy      <- turn.legacy,
    files       <- turn.files,
    manifest    <- turn.manifest

(* sync.py, cache.py: whatever the awaits around a sync let happen, and    *)
(* wherever a kill or a failed write cuts its persist short, no handler    *)
(* and no later boot meets more than the outcome of one sync done, or not  *)
(* begun, or torn in one of the ways PolicyCache lists.                    *)
KeepsTurns == Turns!Spec

-----------------------------------------------------------------------------
(* What the refinement rests on: how far a persist has got.                *)
StillToWrite == {p \in got.policies : p.name \in todo}

TurnInv ==
    /\ ~ Persisting => turn = Cache
    /\ Persisting =>
          /\ legacy = turn.legacy /\ manifest = turn.manifest
          /\ \A s \in turn.snaps : s.rev <= got.rev
          /\ ~ multi => files = turn.files
          /\ multi /\ pc = "files" =>
                files = Turns!Written(got.policies \ StillToWrite, clock)
          /\ pc = "orphans" =>
                \E dropped \in SUBSET Turns!Orphans(got.policies) :
                    files = Turns!Written(got.policies, clock) \ dropped
=============================================================================
