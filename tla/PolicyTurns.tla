---------------------------- MODULE PolicyTurns ----------------------------
(***************************************************************************)
(* The policy cache as the rest of the edge meets it: request handlers run *)
(* on the event loop, between two of its turns, and never see a swap whose *)
(* persist is still at work.  A sync that receives an answer is one step,  *)
(* of the memory and of the state directory; a process that ends, in the   *)
(* midst of a persist or not, is another.  PolicySync, which has the steps *)
(* of both, is shown to implement it (PolicySyncTurns).                    *)
(***************************************************************************)
EXTENDS PolicyCache, Sequences

CONSTANT MultiModes     \* values multi_policy_enabled may take at a boot

VARIABLES
    catalogs,   \* the catalogs published so far, as [names, primary]
    clock,
    multi       \* settings.multi_policy_enabled of this process

turnVars == <<memory, disk, catalogs, clock, multi>>

Rev == Len(catalogs)

(* The answers that may still arrive: a catalog no older than what is      *)
(* served, whole (in multi-policy mode only) or its primary alone.         *)
Current(r) == r \in 1..Rev /\ \A s \in snaps : s.rev <= r

Whole(r) == {[name |-> n, rev |-> r] : n \in catalogs[r].names}

Alone(r) == {[name |-> n, rev |-> r] : n \in {catalogs[r].primary} \ {None}}

Answers(r) == (IF multi THEN {Whole(r)} ELSE {}) \cup ({Alone(r)} \ {{}})

(* The state directory is empty, or an older image has left policy.json.   *)
Init ==
    /\ snaps = {} /\ primary = None /\ lastSuccess = Never
    /\ files = {} /\ manifest = None
    /\ legacy \in {None} \cup {FileOf(p, 0) : p \in Whole(1)}
    /\ Rev = 1 /\ clock = 0
    /\ multi \in MultiModes

-----------------------------------------------------------------------------
Publish ==
    /\ \E N \in SUBSET Names : \E p \in N \cup {None} :
          catalogs' = Append(catalogs, [names |-> N, primary |-> p])
    /\ UNCHANGED <<memory, disk, clock, multi>>

ClockTick ==
    /\ clock' = clock + 1
    /\ UNCHANGED <<memory, disk, catalogs, multi>>

(* The disk, after a persist that may be cut short.                        *)
Stored(policies, prim) ==
    IF multi THEN PersistAll(policies, prim, clock) \/ PersistCutShort(policies, clock)
    ELSE (\E p \in policies : PersistLegacy(p, clock)) \/ UNCHANGED disk

(* One turn of the event loop: the answer is swapped in and stored.        *)
Sync ==
    \E r \in 1..Rev : Current(r) /\ \E policies \in Answers(r) :
        /\ Swap(policies, catalogs[r].primary, clock)
        /\ Stored(policies, catalogs[r].primary)
        /\ UNCHANGED <<catalogs, clock, multi>>

(* The process ends, in no sync or in the midst of one.                    *)
Ends ==
    /\ MemoryIs(EmptyMemory)
    /\ \/ UNCHANGED disk
       \/ \E r \in 1..Rev : Current(r) /\ multi /\ \E policies \in Answers(r) :
              PersistCutShort(policies, clock)
    /\ UNCHANGED <<catalogs, clock, multi>>

(* No process has loaded or fetched anything.                              *)
Cold == snaps = {} /\ lastSuccess = Never

(* Only a process that starts reads the disk, and only before it serves.   *)
Boot ==
    /\ Cold
    /\ MemoryIs(DiskImage)
    /\ multi' \in MultiModes
    /\ UNCHANGED <<disk, catalogs, clock>>

(* External: a file of the state directory can no longer be read.          *)
FileLost ==
    /\ Cold
    /\ \/ \E f \in files : DropOrphan(f)
       \/ manifest' = None /\ UNCHANGED <<legacy, files>>
       \/ legacy' = None /\ UNCHANGED <<files, manifest>>
    /\ UNCHANGED <<memory, catalogs, clock, multi>>

Next == Publish \/ ClockTick \/ Sync \/ Ends \/ Boot \/ FileLost

Spec == Init /\ [][Next]_turnVars
=============================================================================
