---------------------- MODULE TelemetryReplicasProofs ------------------------
(***************************************************************************)
(* Any number of pods on one queue, of any size, with any number of        *)
(* events, rotations and crashes.                                          *)
(*                                                                         *)
(* ReplicasInv is inductive.  No loss rests on PostsInv: what a POST       *)
(* carries was accepted, and lies in the table that the path names as long *)
(* as nothing was rotated underfoot, where SerialInv makes an id one row,  *)
(* so that an ack deletes what the gateway has taken or refused and nothing*)
(* else.  The order of delivery rests on a POST being a prefix, which it   *)
(* stays: rows are added above it only.  The shared bound counts the pods that are     *)
(* about to insert with the rows (RoomInv).  The same facts map every step *)
(* of a pod to one of AuditLog: a POST is a prefix of the log, and an ack  *)
(* takes out what is settled.                                              *)
(***************************************************************************)
EXTENDS TelemetryReplicas, FiniteSetTheorems, TLAPS

Waiting(t) == {p \in Pods : handle[p] = t}
Locked     == {p \in Pods : store[p] = "locked"}

SerialInv ==
    /\ \A r \in accepted : r.event <= Cardinality(accepted)
    /\ \A r \in accepted : r.tbl \notin torn => r.id <= seq[r.tbl]
    /\ \A a, b \in accepted : a.tbl = b.tbl /\ a.tbl \notin torn =>
          /\ a.id < b.id <=> a.event < b.event
          /\ a.id = b.id => a = b

PostsInv ==
    \A p \in Pods :
        /\ posting[p] \subseteq accepted
        /\ answered[p] # "none" => posting[p] \subseteq delivered \cup rejected /\ posting[p] # {}
        /\ ~underfoot => \A d \in posting[p] : d.tbl = live
        /\ \A d \in posting[p], r \in rows :
              r.tbl = d.tbl /\ r.tbl \notin torn /\ r.id < d.id => r \in posting[p]

RoomInv ==
    \A t \in Tables \ torn :
        Cardinality(RowsOf(t)) + Cardinality(Waiting(t)) <= MaxSize + Cardinality(Pods) - 1

ReplicasInv ==
    /\ TypeOK
    /\ live + Cardinality(Locked) <= faults + 1
    /\ IsFiniteSet(accepted) /\ rows \subseteq accepted
    /\ \A r \in accepted : r.tbl <= live
    /\ ~underfoot => gone = {} /\ torn = {}
    /\ SerialInv /\ PostsInv /\ RoomInv
    /\ LossNeedsRotation /\ OldestFirst

-----------------------------------------------------------------------------
(* Every set that is counted is finite.                                    *)
LEMMA Counted ==
    ASSUME ReplicasInv
    PROVE  /\ \A t \in Nat : /\ IsFiniteSet(RowsOf(t)) /\ Cardinality(RowsOf(t)) \in Nat
                             /\ IsFiniteSet(Waiting(t)) /\ Cardinality(Waiting(t)) \in Nat
                             /\ Cardinality(Waiting(t)) <= Cardinality(Pods)
           /\ IsFiniteSet(Locked) /\ Cardinality(Locked) \in Nat
           /\ Cardinality(accepted) \in Nat /\ Cardinality(Pods) \in Nat \ {0}
           /\ live \in Nat \ {0} /\ Tables \subseteq Nat
<1> USE DEF ReplicasInv
<1>1. ASSUME NEW t \in Nat
      PROVE  /\ IsFiniteSet(RowsOf(t)) /\ Cardinality(RowsOf(t)) \in Nat
             /\ IsFiniteSet(Waiting(t)) /\ Cardinality(Waiting(t)) \in Nat
             /\ Cardinality(Waiting(t)) <= Cardinality(Pods)
  <2>1. RowsOf(t) \in SUBSET accepted /\ Waiting(t) \in SUBSET Pods
    BY DEF RowsOf, Waiting
  <2>2. IsFiniteSet(RowsOf(t)) /\ IsFiniteSet(Waiting(t))
    BY <2>1, FS_Subset, ReplicasAssumption
  <2>3. Cardinality(Waiting(t)) <= Cardinality(Pods)
    BY <2>1, FS_Subset, ReplicasAssumption
  <2> QED
    BY <2>2, <2>3, FS_CardinalityType
<1>2. IsFiniteSet(Locked) /\ Cardinality(Locked) \in Nat
  <2>1. Locked \in SUBSET Pods
    BY DEF Locked
  <2> QED
    BY <2>1, FS_Subset, FS_CardinalityType, ReplicasAssumption
<1>3. Cardinality(accepted) \in Nat
  BY FS_CardinalityType
<1>4. Cardinality(Pods) \in Nat /\ Cardinality(Pods) # 0
  BY FS_CardinalityType, FS_EmptySet, ReplicasAssumption
<1>5. live \in Nat \ {0} /\ Tables \subseteq Nat
  BY ReplicasAssumption DEF TypeOK, Tables
<1> QED
  BY <1>1, <1>2, <1>3, <1>4, <1>5

(* Rows that are deleted and enqueues that end leave room.                 *)
LEMMA RoomShrinks ==
    ASSUME ReplicasInv, rows' \subseteq rows, torn' = torn,
           \A p \in Pods : handle'[p] \in {handle[p], 0}
    PROVE  RoomInv'
<1> SUFFICES ASSUME NEW t \in Tables \ torn
             PROVE  Cardinality(RowsOf(t)') + Cardinality(Waiting(t)')
                       <= MaxSize + Cardinality(Pods) - 1
  BY DEF RoomInv
<1>1. t \in Nat \ {0}
  BY ReplicasAssumption DEF Tables
<1>2. RowsOf(t)' \in SUBSET RowsOf(t)
  BY DEF RowsOf
<1>3. Waiting(t)' \in SUBSET Waiting(t)
  BY <1>1 DEF Waiting
<1>4. /\ Cardinality(RowsOf(t)') <= Cardinality(RowsOf(t)) /\ Cardinality(RowsOf(t)') \in Nat
      /\ Cardinality(Waiting(t)') <= Cardinality(Waiting(t)) /\ Cardinality(Waiting(t)') \in Nat
  BY <1>1, <1>2, <1>3, Counted, FS_Subset, FS_CardinalityType
<1>5. Cardinality(RowsOf(t)) + Cardinality(Waiting(t)) <= MaxSize + Cardinality(Pods) - 1
  BY DEF ReplicasInv, RoomInv
<1> QED
  BY <1>1, <1>4, <1>5, Counted, ReplicasAssumption

(* A pod is found locked at the price of a fault, and no other change of a *)
(* pod's state adds to those that are.                                     *)
LEMMA LockedShrinks ==
    ASSUME ReplicasInv, NEW p \in Pods, NEW v, v # "locked",
           store' = [store EXCEPT ![p] = v]
    PROVE  /\ Cardinality(Locked') <= Cardinality(Locked) /\ Cardinality(Locked') \in Nat
           /\ store[p] = "locked" => Cardinality(Locked') = Cardinality(Locked) - 1
<1>1. Locked' = Locked \ {p}
  BY DEF Locked, ReplicasInv, TypeOK
<1>2. store[p] = "locked" <=> p \in Locked
  BY DEF Locked
<1>3. Cardinality(Locked') =
         IF p \in Locked THEN Cardinality(Locked) - 1 ELSE Cardinality(Locked)
  BY <1>1, Counted, FS_RemoveElement
<1>4. Cardinality(Locked') \in Nat
  BY <1>1, Counted, FS_RemoveElement, FS_CardinalityType
<1> QED
  BY <1>2, <1>3, <1>4, Counted

(* A step of a pod's process: it adds nothing to the queue, it may cost a  *)
(* journal, and the pod's own enqueue and POST may end with it.            *)
LEMMA ProcessStep ==
    ASSUME ReplicasInv, TypeOK', rows' \subseteq rows,
           UNCHANGED <<live, seq, gone, torn, accepted, delivered, rejected, setAside>>,
           rows' # rows \/ underfoot => underfoot',
           live + Cardinality(Locked') <= faults' + 1,
           \A p \in Pods : handle'[p] \in {handle[p], 0},
           \A p \in Pods : \/ posting'[p] = posting[p] /\ answered'[p] = answered[p]
                           \/ posting'[p] = {} /\ answered'[p] = "none"
    PROVE  ReplicasInv'
<1>1. RoomInv'
  BY RoomShrinks
<1>2. SerialInv' /\ LossNeedsRotation' /\ OldestFirst'
  BY DEF ReplicasInv, SerialInv, LossNeedsRotation, OldestFirst
<1>3. PostsInv'
  BY DEF ReplicasInv, PostsInv
<1> QED
  BY <1>1, <1>2, <1>3 DEF ReplicasInv

LEMMA StartupStep ==
    ASSUME ReplicasInv, NEW p \in Pods,
           \/ Opens(p) \/ FindsLocked(p) \/ CannotRename(p) \/ MovesJournal(p)
           \/ LosesJournal(p) \/ Degrades(p) \/ Dies(p)
    PROVE  ReplicasInv'
<1>1. CASE FindsLocked(p)
  <2>1. Locked' = Locked \cup {p} /\ p \notin Locked
    BY <1>1 DEF FindsLocked, Locked, ReplicasInv, TypeOK
  <2>2. Cardinality(Locked') = Cardinality(Locked) + 1
    BY <2>1, Counted, FS_AddElement
  <2>3. live + Cardinality(Locked') <= faults' + 1
    BY <1>1, <2>2, Counted DEF FindsLocked, Fault, ReplicasInv, TypeOK
  <2>4. TypeOK'
    BY <1>1, ReplicasAssumption DEF FindsLocked, Fault, files, history, ReplicasInv, TypeOK
  <2> QED
    BY <1>1, <2>3, <2>4, ProcessStep DEF FindsLocked, files, history
<1>2. ASSUME \/ Opens(p) \/ CannotRename(p) \/ MovesJournal(p) \/ LosesJournal(p)
             \/ Degrades(p) \/ Dies(p)
      PROVE  ReplicasInv'
  <2>1. /\ rows' \subseteq rows /\ underfoot' \in BOOLEAN
        /\ UNCHANGED <<live, seq, gone, torn, accepted, delivered, rejected, setAside>>
        /\ rows' # rows \/ underfoot => underfoot'
    BY <1>2
    DEF Opens, CannotRename, MovesJournal, LosesJournal, Degrades, Dies, JournalLost,
        files, history, ReplicasInv, TypeOK
  <2>2. TypeOK'
    <3>1. CASE Opens(p) \/ MovesJournal(p)
      BY <2>1, <3>1 DEF Opens, MovesJournal, history, ReplicasInv, TypeOK
    <3>2. CASE CannotRename(p) \/ LosesJournal(p) \/ Degrades(p)
      BY <2>1, <3>2, ReplicasAssumption
      DEF CannotRename, LosesJournal, Degrades, Fault, files, history, ReplicasInv, TypeOK
    <3>3. CASE Dies(p)
      BY <3>3, Counted DEF Dies, files, history, ReplicasInv, TypeOK
    <3> QED
      BY <1>2, <3>1, <3>2, <3>3
  <2>3. Cardinality(Locked') <= Cardinality(Locked) /\ Cardinality(Locked') \in Nat
    BY <1>2, LockedShrinks
    DEF Opens, CannotRename, MovesJournal, LosesJournal, Degrades, Dies
  <2>4. faults <= faults' /\ faults' \in Nat /\ faults \in Nat
    BY <1>2, ReplicasAssumption
    DEF Opens, CannotRename, MovesJournal, LosesJournal, Degrades, Dies, Fault, ReplicasInv, TypeOK
  <2>5. live + Cardinality(Locked') <= faults' + 1
    BY <2>3, <2>4, Counted DEF ReplicasInv
  <2>6. \A q \in Pods : handle'[q] \in {handle[q], 0}
    BY <1>2 DEF Opens, CannotRename, MovesJournal, LosesJournal, Degrades, Dies, ReplicasInv, TypeOK
  <2>7. \A q \in Pods : \/ posting'[q] = posting[q] /\ answered'[q] = answered[q]
                        \/ posting'[q] = {} /\ answered'[q] = "none"
    <3>1. CASE Dies(p)
      BY <3>1 DEF Dies, ReplicasInv, TypeOK
    <3>2. CASE UNCHANGED <<posting, answered>>
      BY <3>2, Zenon
    <3> QED
      BY <1>2, <3>1, <3>2 DEF Opens, CannotRename, MovesJournal, LosesJournal, Degrades
  <2> QED
    BY <2>1, <2>2, <2>5, <2>6, <2>7, ProcessStep
<1> QED
  BY <1>1, <1>2

(* The faults that let pods find the file locked number the tables.        *)
LEMMA RenamesStep == ASSUME ReplicasInv, NEW p \in Pods, Renames(p) PROVE ReplicasInv'
<1>1. /\ Cardinality(Locked') = Cardinality(Locked) - 1 /\ Cardinality(Locked') \in Nat
  BY LockedShrinks DEF Renames
<1>2. faults \in Nat /\ faults' \in Nat /\ faults <= faults' /\ faults' <= MaxFaults
  BY ReplicasAssumption DEF Renames, Fault, ReplicasInv, TypeOK
<1>3. live' + Cardinality(Locked') <= faults' + 1
  BY <1>1, <1>2, Counted DEF Renames, ReplicasInv
<1>4. live' \in Tables
  BY <1>1, <1>2, <1>3, Counted, ReplicasAssumption DEF Renames, Tables
<1>5. gone' \subseteq Tables
  BY DEF Renames, ReplicasInv, TypeOK
<1>6. handle' \in [Pods -> 0..live']
  BY Counted DEF Renames, ReplicasInv, TypeOK
<1>7. TypeOK'
  <2>1. underfoot' \in BOOLEAN
    BY DEF Renames
  <2>2. /\ store' \in [Pods -> {"down", "locked", "moved", "retry", "real", "noop"}]
        /\ rows' \subseteq Row /\ torn' \subseteq Tables /\ loose' \in {0} \cup Tables
    BY DEF Renames, ReplicasInv, TypeOK
  <2>3. faults' \in 0..MaxFaults /\ crashes' \in Nat /\ seq' \in [Tables -> Nat]
    BY <1>2, ReplicasAssumption DEF Renames, ReplicasInv, TypeOK
  <2>4. /\ schema' \in BOOLEAN /\ answered' \in [Pods -> {"none", "ok", "bad"}]
        /\ delivered' \subseteq accepted' /\ rejected' \subseteq accepted'
    BY DEF Renames, ReplicasInv, TypeOK
  <2>5. posting' \in [Pods -> SUBSET Row] /\ accepted' \subseteq Row
    BY DEF Renames, ReplicasInv, TypeOK
  <2>6. setAside' \subseteq accepted'
    BY DEF Renames, RowsOf, ReplicasInv, TypeOK
  <2> QED
    BY <1>4, <1>5, <1>6, <2>1, <2>2, <2>3, <2>4, <2>5, <2>6 DEF TypeOK
<1>8. rows' \subseteq rows
  BY DEF Renames
<1>9. RoomInv'
  BY <1>8, RoomShrinks DEF Renames
<1>10. SerialInv' /\ OldestFirst'
  BY <1>8 DEF Renames, ReplicasInv, SerialInv, OldestFirst
<1>11. ~underfoot' => gone' = {} /\ torn' = {} /\ rows' = rows
  BY DEF Renames, ReplicasInv
<1>12. LossNeedsRotation'
  BY <1>11 DEF Renames, ReplicasInv, LossNeedsRotation
<1>13. PostsInv'
  BY <1>8 DEF Renames, ReplicasInv, PostsInv
<1>14. \A r \in accepted' : r.tbl <= live'
  BY Counted DEF Renames, ReplicasInv, TypeOK, Row
<1> QED
  BY <1>3, <1>7, <1>8, <1>9, <1>10, <1>11, <1>12, <1>13, <1>14 DEF Renames, ReplicasInv

(* A table torn back to a checkpoint keeps accepted rows only.             *)
LEMMA TearsStep == ASSUME ReplicasInv, NEW p \in Pods, TearsJournal(p) PROVE ReplicasInv'
<1>1. PICK n \in Nat, R \in SUBSET accepted :
         /\ seq' = [seq EXCEPT ![live] = n]
         /\ rows' = (rows \ RowsOf(live)) \cup R
         /\ \A r \in R : r.tbl = live
  <2>1. seq[live] \in Nat
    BY DEF ReplicasInv, TypeOK
  <2>2. PICK n \in 0..seq[live] :
           /\ seq' = [seq EXCEPT ![live] = n]
           /\ \E R \in SUBSET {r \in accepted : r.tbl = live /\ r.id <= n} :
                 rows' = (rows \ RowsOf(live)) \cup R
    BY DEF TearsJournal
  <2>3. PICK R \in SUBSET {r \in accepted : r.tbl = live /\ r.id <= n} :
           rows' = (rows \ RowsOf(live)) \cup R
    BY <2>2
  <2>4. n \in Nat /\ R \in SUBSET accepted /\ \A r \in R : r.tbl = live
    BY <2>1
  <2> QED
    BY <2>2, <2>3, <2>4
<1>2. /\ torn' = torn \cup {live} /\ underfoot' = TRUE
      /\ UNCHANGED <<live, gone, handle, posting, answered, accepted, delivered, rejected,
                     setAside, faults>>
  BY DEF TearsJournal
<1>3. rows' \subseteq accepted'
  BY <1>1, <1>2 DEF ReplicasInv
<1>4. TypeOK'
  BY <1>1, <1>2, <1>3 DEF TearsJournal, ReplicasInv, TypeOK
<1>5. \A r \in rows' : r.tbl \notin torn' => r \in rows
  BY <1>1, <1>2
<1>6. \A t \in Tables : t # live => seq'[t] = seq[t]
  BY <1>1 DEF ReplicasInv, TypeOK
<1>7. SerialInv'
  BY <1>2, <1>6 DEF ReplicasInv, TypeOK, Row, SerialInv
<1>8. PostsInv' /\ OldestFirst' /\ LossNeedsRotation'
  BY <1>2, <1>5 DEF ReplicasInv, PostsInv, OldestFirst, LossNeedsRotation
<1>9. ASSUME NEW t \in Tables \ torn'
      PROVE  Cardinality(RowsOf(t)') + Cardinality(Waiting(t)') <= MaxSize + Cardinality(Pods) - 1
  <2>1. RowsOf(t)' = RowsOf(t) /\ Waiting(t)' = Waiting(t) /\ t \in Tables \ torn
    BY <1>1, <1>2, <1>9 DEF RowsOf, Waiting
  <2> QED
    BY <2>1 DEF ReplicasInv, RoomInv
<1>10. RoomInv'
  BY <1>2, <1>9 DEF RoomInv
<1>11. Cardinality(Locked') <= Cardinality(Locked) /\ Cardinality(Locked') \in Nat
  BY LockedShrinks DEF TearsJournal
<1>12. live' + Cardinality(Locked') <= faults' + 1
  BY <1>2, <1>11, Counted DEF ReplicasInv, TypeOK
<1> QED
  BY <1>2, <1>3, <1>4, <1>7, <1>8, <1>10, <1>12 DEF ReplicasInv

-----------------------------------------------------------------------------
(* A pod that has counted takes the place of a row: the table had one free,*)
(* and the others that have counted are at most all but this one.          *)
LEMMA CountsStep == ASSUME ReplicasInv, NEW p \in Pods, Counts(p) PROVE ReplicasInv'
<1>1. TypeOK'
  BY Counted DEF Counts, files, history, ReplicasInv, TypeOK
<1>2. SerialInv' /\ PostsInv' /\ LossNeedsRotation' /\ OldestFirst'
  BY DEF Counts, files, history, ReplicasInv, SerialInv, PostsInv, LossNeedsRotation, OldestFirst
<1>3. ASSUME NEW t \in Tables \ torn
      PROVE  Cardinality(RowsOf(t)') + Cardinality(Waiting(t)')
                <= MaxSize + Cardinality(Pods) - 1
  <2>1. RowsOf(t)' = RowsOf(t) /\ t \in Nat \ {0}
    BY ReplicasAssumption DEF RowsOf, Counts, files, Tables
  <2>2. CASE t = live
    <3>1. Waiting(t)' \in SUBSET Pods
      BY DEF Waiting
    <3>2. Cardinality(Waiting(t)') <= Cardinality(Pods) /\ Cardinality(Waiting(t)') \in Nat
      BY <3>1, FS_Subset, FS_CardinalityType, ReplicasAssumption
    <3>3. Cardinality(RowsOf(t)) <= MaxSize - 1
      BY <2>1, <2>2, Counted, ReplicasAssumption DEF Counts, Full
    <3> QED
      BY <2>1, <3>2, <3>3, Counted, ReplicasAssumption
  <2>3. CASE t # live
    <3>1. Waiting(t)' = Waiting(t)
      BY <2>1, <2>3 DEF Waiting, Counts, ReplicasInv, TypeOK
    <3> QED
      BY <2>1, <3>1 DEF ReplicasInv, RoomInv
  <2> QED
    BY <2>2, <2>3
<1>4. RoomInv'
  BY <1>3 DEF RoomInv, Counts, files
<1>5. Locked' = Locked
  BY DEF Locked, Counts
<1> QED
  BY <1>1, <1>2, <1>4, <1>5 DEF Counts, files, history, ReplicasInv

(* The row that is inserted has an id above every id of its table, and an  *)
(* event above every event.                                                *)
LEMMA InsertsStep == ASSUME ReplicasInv, NEW p \in Pods, Inserts(p) PROVE ReplicasInv'
<1> DEFINE t   == handle[p]
           row == [tbl |-> t, id |-> NextId(t), event |-> Cardinality(accepted) + 1]
<1>1. t \in Tables /\ t \in Nat \ {0}
  <2>1. t \in 0..live /\ live \in Tables /\ t # 0
    BY DEF Inserts, ReplicasInv, TypeOK
  <2> QED
    BY <2>1, ReplicasAssumption DEF Tables
<1>2. row \in Row /\ NextId(t) \in Nat \ {0} /\ seq[t] \in Nat
  BY <1>1, Counted, ReplicasAssumption DEF Inserts, ReplicasInv, TypeOK, Row, NextId
<1>3. rows' \subseteq rows \cup {row} /\ accepted' = accepted \cup {row}
  BY DEF Inserts
<1>4. TypeOK'
  BY <1>1, <1>2, <1>3, Counted DEF Inserts, ReplicasInv, TypeOK
<1>5. \A r \in accepted : /\ r.tbl = t /\ t \notin torn => r.id < row.id
                          /\ r.event < row.event
  <2>1. /\ \A r \in accepted : r.tbl \notin torn => r.id <= seq[r.tbl]
        /\ \A r \in accepted : r.event <= Cardinality(accepted)
    BY DEF ReplicasInv, SerialInv
  <2>2. \A r \in accepted : r.id \in Nat /\ r.event \in Nat
    BY ReplicasAssumption DEF ReplicasInv, TypeOK, Row
  <2> QED
    BY <1>2, <2>1, <2>2, Counted DEF NextId
<1>6. row \notin accepted
  BY <1>2, <1>5, Counted
<1>7. IsFiniteSet(accepted') /\ Cardinality(accepted') = Cardinality(accepted) + 1
  BY <1>3, <1>6, FS_AddElement DEF ReplicasInv
<1>8. SerialInv'
  <2>1. ASSUME NEW r \in accepted'
        PROVE  /\ r.event <= Cardinality(accepted')
               /\ r.tbl \notin torn => r.id <= seq'[r.tbl]
    <3>1. CASE r = row
      BY <1>1, <1>2, <1>7, <3>1, Counted DEF Inserts, ReplicasInv, TypeOK
    <3>2. CASE r \in accepted
      <4>1. /\ r.tbl \in Tables /\ r.id \in Nat /\ r.event \in Nat
            /\ r.event <= Cardinality(accepted)
            /\ r.tbl \notin torn => r.id <= seq[r.tbl]
        BY <3>2, ReplicasAssumption DEF ReplicasInv, TypeOK, SerialInv, Row
      <4>2. seq'[r.tbl] = IF r.tbl = t THEN seq[t] + 1 ELSE seq[r.tbl]
        BY <4>1 DEF Inserts, NextId, ReplicasInv, TypeOK
      <4> QED
        BY <1>2, <1>7, <4>1, <4>2, Counted
    <3> QED
      BY <1>3, <3>1, <3>2
  <2>2. ASSUME NEW a \in accepted', NEW b \in accepted', a.tbl = b.tbl, a.tbl \notin torn
        PROVE  (a.id < b.id <=> a.event < b.event) /\ (a.id = b.id => a = b)
    <3>1. a.id \in Nat /\ b.id \in Nat /\ a.event \in Nat /\ b.event \in Nat
      BY <1>4, ReplicasAssumption DEF TypeOK, Row
    <3>2. CASE a \in accepted /\ b \in accepted
      BY <2>2, <3>2 DEF ReplicasInv, SerialInv
    <3>3. CASE a = row \/ b = row
      BY <1>3, <1>5, <2>2, <3>1, <3>3
    <3> QED
      BY <1>3, <3>2, <3>3
  <2> QED
    BY <2>1, <2>2 DEF SerialInv, Inserts
<1>9. PostsInv'
  <2> SUFFICES ASSUME NEW q \in Pods, NEW d \in posting[q], NEW r \in rows',
                      r.tbl = d.tbl, r.tbl \notin torn, r.id < d.id
               PROVE  r \in posting[q]
    BY <1>3 DEF Inserts, ReplicasInv, PostsInv
  <2>1. d \in accepted
    BY DEF ReplicasInv, PostsInv
  <2>2. r # row
    BY <1>2, <1>5, <2>1, ReplicasAssumption DEF ReplicasInv, TypeOK, Row
  <2> QED
    BY <1>3, <2>2 DEF ReplicasInv, PostsInv
<1>10. LossNeedsRotation'
  BY DEF Inserts, ReplicasInv, LossNeedsRotation
<1>11. OldestFirst'
  <2> SUFFICES ASSUME NEW d \in delivered, NEW r \in rows', r.tbl = d.tbl, r.tbl \notin torn,
                      r.event < d.event
               PROVE  r \in delivered
    BY DEF OldestFirst, Inserts
  <2>1. d \in accepted
    BY DEF ReplicasInv, TypeOK
  <2>2. r # row
    BY <1>2, <1>5, <2>1, Counted, ReplicasAssumption DEF ReplicasInv, TypeOK, Row
  <2> QED
    BY <1>3, <2>2 DEF ReplicasInv, OldestFirst
<1>12. RoomInv'
  <2> SUFFICES ASSUME NEW u \in Tables \ torn
               PROVE  Cardinality(RowsOf(u)') + Cardinality(Waiting(u)')
                         <= MaxSize + Cardinality(Pods) - 1
    BY DEF RoomInv, Inserts
  <2>1. u \in Nat \ {0}
    BY ReplicasAssumption DEF Tables
  <2>2. Cardinality(RowsOf(u)) + Cardinality(Waiting(u)) <= MaxSize + Cardinality(Pods) - 1
    BY DEF ReplicasInv, RoomInv
  <2>3. CASE u = t
    <3>1. RowsOf(u)' \in SUBSET (RowsOf(u) \cup {row}) /\ Waiting(u)' = Waiting(u) \ {p} /\ p \in Waiting(u)
      BY <1>1, <1>3, <2>3 DEF RowsOf, Waiting, Inserts, ReplicasInv, TypeOK
    <3>2. /\ Cardinality(RowsOf(u)') <= Cardinality(RowsOf(u)) + 1
          /\ Cardinality(RowsOf(u)') \in Nat
      <4>1. /\ IsFiniteSet(RowsOf(u) \cup {row})
            /\ Cardinality(RowsOf(u) \cup {row}) <= Cardinality(RowsOf(u)) + 1
            /\ Cardinality(RowsOf(u) \cup {row}) \in Nat
        <5>1. IsFiniteSet(RowsOf(u)) /\ Cardinality(RowsOf(u)) \in Nat
          BY <2>1, Counted
        <5>2. /\ IsFiniteSet(RowsOf(u) \cup {row})
              /\ Cardinality(RowsOf(u) \cup {row}) =
                    IF row \in RowsOf(u) THEN Cardinality(RowsOf(u)) ELSE Cardinality(RowsOf(u)) + 1
          <6> HIDE DEF row
          <6> QED
            BY <5>1, FS_AddElement
        <5> QED
          BY <5>1, <5>2
      <4>2. /\ Cardinality(RowsOf(u)') <= Cardinality(RowsOf(u) \cup {row})
            /\ Cardinality(RowsOf(u)') \in Nat
        BY <3>1, <4>1, FS_Subset, FS_CardinalityType
      <4> QED
        BY <2>1, <4>1, <4>2, Counted
    <3>3. Cardinality(Waiting(u)') = Cardinality(Waiting(u)) - 1
      <4>1. IsFiniteSet(Waiting(u))
        BY <2>1, Counted
      <4> QED
        BY <3>1, <4>1, FS_RemoveElement
    <3> QED
      BY <2>1, <2>2, <3>2, <3>3, Counted, ReplicasAssumption
  <2>4. CASE u # t
    <3>1. RowsOf(u)' \in SUBSET RowsOf(u) /\ Waiting(u)' = Waiting(u)
      BY <1>1, <1>3, <2>1, <2>4 DEF RowsOf, Waiting, Inserts, ReplicasInv, TypeOK
    <3>2. Cardinality(RowsOf(u)') <= Cardinality(RowsOf(u)) /\ Cardinality(RowsOf(u)') \in Nat
      BY <2>1, <3>1, Counted, FS_Subset, FS_CardinalityType
    <3> QED
      BY <2>1, <2>2, <3>1, <3>2, Counted, ReplicasAssumption
  <2> QED
    BY <2>3, <2>4
<1>13. Locked' = Locked
  BY DEF Locked, Inserts
<1>14. \A r \in accepted' : r.tbl <= live'
  BY <1>3, Counted DEF Inserts, ReplicasInv, TypeOK
<1> QED
  BY <1>3, <1>4, <1>7, <1>8, <1>9, <1>10, <1>11, <1>12, <1>13, <1>14 DEF Inserts, ReplicasInv

LEMMA InsertRaisesStep == ASSUME ReplicasInv, NEW p \in Pods, InsertRaises(p) PROVE ReplicasInv'
<1>1. TypeOK'
  BY Counted, ReplicasAssumption DEF InsertRaises, Fault, files, history, ReplicasInv, TypeOK
<1>2. live + Cardinality(Locked') <= faults' + 1
  <2>1. Locked' = Locked /\ faults' = faults + 1 /\ faults \in Nat
    BY ReplicasAssumption DEF Locked, InsertRaises, Fault, ReplicasInv, TypeOK
  <2> QED
    BY <2>1, Counted DEF ReplicasInv
<1>3. \A q \in Pods : handle'[q] \in {handle[q], 0}
  BY DEF InsertRaises, ReplicasInv, TypeOK
<1> QED
  BY <1>1, <1>2, <1>3, ProcessStep DEF InsertRaises, files, history

-----------------------------------------------------------------------------
(* What a tick peeks is a prefix of its table.                             *)
LEMMA BatchIsPrefix ==
    ASSUME ReplicasInv, NEW d \in Batch, NEW r \in RowsOf(live), r.id < d.id
    PROVE  r \in Batch
<1> DEFINE UpTo(x) == {q \in RowsOf(live) : q.id <= x.id}
<1>1. \A q \in RowsOf(live) : q.id \in Nat
  BY DEF RowsOf, ReplicasInv, TypeOK, Row
<1>2. d \in RowsOf(live) /\ Cardinality(UpTo(d)) <= BatchSize
  BY DEF Batch
<1>3. UpTo(r) \in SUBSET UpTo(d) /\ UpTo(d) \in SUBSET RowsOf(live)
  BY <1>1, <1>2
<1>4. IsFiniteSet(UpTo(d))
  BY <1>3, Counted, FS_Subset
<1>5. /\ Cardinality(UpTo(r)) <= Cardinality(UpTo(d)) /\ Cardinality(UpTo(r)) \in Nat
      /\ Cardinality(UpTo(d)) \in Nat
  BY <1>3, <1>4, FS_Subset, FS_CardinalityType
<1>6. Cardinality(UpTo(r)) <= BatchSize
  BY <1>2, <1>5, ReplicasAssumption
<1> QED
  BY <1>6 DEF Batch

LEMMA PostsStep == ASSUME ReplicasInv, NEW p \in Pods, Posts(p) PROVE ReplicasInv'
<1>1. Batch \subseteq RowsOf(live) /\ RowsOf(live) \subseteq rows /\ rows \subseteq accepted
  BY DEF Batch, RowsOf, ReplicasInv
<1>2. TypeOK'
  BY <1>1 DEF Posts, files, history, ReplicasInv, TypeOK
<1>3. SerialInv' /\ LossNeedsRotation' /\ OldestFirst'
  BY DEF Posts, files, history, ReplicasInv, SerialInv, LossNeedsRotation, OldestFirst
<1>4. RoomInv' /\ Locked' = Locked
  BY RoomShrinks DEF Posts, files, Locked
<1>5. PostsInv'
  <2> SUFFICES ASSUME NEW q \in Pods
               PROVE  /\ posting'[q] \subseteq accepted
                      /\ answered[q] # "none" =>
                            posting'[q] \subseteq delivered \cup rejected /\ posting'[q] # {}
                      /\ ~underfoot => \A d \in posting'[q] : d.tbl = live
                      /\ \A d \in posting'[q], r \in rows :
                            r.tbl = d.tbl /\ r.tbl \notin torn /\ r.id < d.id => r \in posting'[q]
    BY DEF Posts, files, history, PostsInv
  <2>1. CASE q # p
    BY <2>1 DEF Posts, ReplicasInv, TypeOK, PostsInv
  <2>2. CASE q = p
    <3>1. posting'[q] = Batch /\ answered[q] = "none"
      BY <2>2 DEF Posts, ReplicasInv, TypeOK, PostsInv
    <3>2. \A d \in Batch : d.tbl = live
      BY <1>1 DEF RowsOf
    <3>3. ASSUME NEW d \in Batch, NEW r \in rows, r.tbl = d.tbl, r.id < d.id
          PROVE  r \in Batch
      BY <3>2, <3>3, BatchIsPrefix DEF RowsOf
    <3> QED
      BY <1>1, <3>1, <3>2, <3>3
  <2> QED
    BY <2>1, <2>2
<1> QED
  BY <1>2, <1>3, <1>4, <1>5 DEF Posts, files, history, ReplicasInv

(* The gateway's answer settles what the POST carries, one way or another. *)
LEMMA AnswersStep ==
    ASSUME ReplicasInv, NEW p \in Pods, Ingests(p) \/ Refuses(p)
    PROVE  ReplicasInv'
<1>1. posting[p] \subseteq accepted
  BY DEF ReplicasInv, PostsInv
<1>2. TypeOK'
  BY <1>1 DEF Ingests, Refuses, files, ReplicasInv, TypeOK
<1>3. SerialInv' /\ LossNeedsRotation'
  BY DEF Ingests, Refuses, files, ReplicasInv, SerialInv, LossNeedsRotation
<1>4. RoomInv' /\ Locked' = Locked
  BY RoomShrinks DEF Ingests, Refuses, files, Locked
<1>5. PostsInv'
  <2>1. ASSUME NEW q \in Pods, answered'[q] # "none"
        PROVE  posting[q] \subseteq delivered' \cup rejected' /\ posting[q] # {}
    <3>1. CASE q = p
      BY <3>1 DEF Ingests, Refuses
    <3>2. CASE q # p
      BY <2>1, <3>2 DEF Ingests, Refuses, ReplicasInv, TypeOK, PostsInv
    <3> QED
      BY <3>1, <3>2
  <2> QED
    BY <2>1 DEF Ingests, Refuses, files, ReplicasInv, PostsInv
<1>6. OldestFirst'
  <2>1. CASE Refuses(p)
    BY <2>1 DEF OldestFirst, Refuses, files, ReplicasInv
  <2>2. CASE Ingests(p)
    <3> SUFFICES ASSUME NEW d \in posting[p], NEW r \in rows, r.tbl = d.tbl, r.tbl \notin torn,
                        r.event < d.event
                 PROVE  r \in posting[p]
      BY <2>2 DEF OldestFirst, Ingests, files, ReplicasInv
    <3>1. r.id < d.id
      BY <1>1 DEF ReplicasInv, SerialInv
    <3> QED
      BY <3>1 DEF ReplicasInv, PostsInv
  <2> QED
    BY <2>1, <2>2
<1> QED
  BY <1>2, <1>3, <1>4, <1>5, <1>6 DEF Ingests, Refuses, files, ReplicasInv

(* An ack of what lies in the table that the path names deletes what was   *)
(* ingested or refused; of rows renamed away, it may delete others.        *)
LEMMA TickOverStep ==
    ASSUME ReplicasInv, NEW p \in Pods, Acks(p) \/ TickFails(p)
    PROVE  ReplicasInv'
<1>1. rows' \subseteq rows /\ TickEnds(p)
  BY DEF Acks, TickFails
<1>2. faults' \in 0..MaxFaults /\ faults <= faults'
  BY ReplicasAssumption DEF Acks, TickFails, Fault, ReplicasInv, TypeOK
<1>3. TypeOK'
  BY <1>1, <1>2 DEF TickEnds, history, ReplicasInv, TypeOK
<1>4. SerialInv' /\ OldestFirst'
  BY <1>1 DEF TickEnds, history, ReplicasInv, SerialInv, OldestFirst
<1>5. PostsInv'
  BY <1>1 DEF TickEnds, history, ReplicasInv, TypeOK, PostsInv
<1>6. RoomInv' /\ Locked' = Locked
  BY <1>1, RoomShrinks DEF TickEnds, Locked
<1>7. LossNeedsRotation'
  <2> SUFFICES ASSUME ~underfoot, NEW r \in rows, r \notin rows'
               PROVE  r \in delivered \cup rejected
    BY <1>1 DEF LossNeedsRotation, ReplicasInv, TickEnds, history
  <2>1. PICK q \in posting[p] : r.tbl = live /\ q.id = r.id /\ answered[p] # "none"
    BY DEF Acks, TickFails
  <2>2. q \in accepted /\ r \in accepted /\ q.tbl = live /\ q \in delivered \cup rejected
    BY <2>1 DEF ReplicasInv, PostsInv
  <2> QED
    BY <2>1, <2>2 DEF ReplicasInv, SerialInv
<1>8. live' + Cardinality(Locked') <= faults' + 1
  BY <1>1, <1>2, <1>6, Counted, ReplicasAssumption DEF TickEnds, ReplicasInv, TypeOK
<1> QED
  BY <1>1, <1>3, <1>4, <1>5, <1>6, <1>7, <1>8 DEF TickEnds, history, ReplicasInv

-----------------------------------------------------------------------------
LEMMA InitInv == Init => ReplicasInv
<1> SUFFICES ASSUME Init PROVE ReplicasInv
  OBVIOUS
<1> USE ReplicasAssumption DEF Init
<1>1. TypeOK
  <2>1. 1 \in Tables /\ handle \in [Pods -> 0..1] /\ seq \in [Tables -> Nat]
    BY DEF Tables
  <2>2. /\ store \in [Pods -> {"down", "locked", "moved", "retry", "real", "noop"}]
        /\ posting \in [Pods -> SUBSET Row] /\ answered \in [Pods -> {"none", "ok", "bad"}]
    OBVIOUS
  <2>3. faults \in 0..MaxFaults /\ crashes \in Nat
    OBVIOUS
  <2> QED
    BY <2>1, <2>2, <2>3 DEF TypeOK
<1>2. Locked = {} /\ IsFiniteSet(accepted) /\ Cardinality({}) = 0
  BY FS_EmptySet DEF Locked
<1>3. SerialInv /\ PostsInv /\ LossNeedsRotation /\ OldestFirst
  BY DEF SerialInv, PostsInv, LossNeedsRotation, OldestFirst
<1>4. ASSUME NEW t \in Tables
      PROVE  Cardinality(RowsOf(t)) + Cardinality(Waiting(t)) <= MaxSize + Cardinality(Pods) - 1
  <2>1. RowsOf(t) = {} /\ Waiting(t) = {}
    BY DEF RowsOf, Waiting, Tables
  <2>2. Cardinality(Pods) \in Nat
    BY FS_CardinalityType
  <2> QED
    BY <1>2, <2>1, <2>2
<1>5. RoomInv
  BY <1>4 DEF RoomInv
<1> QED
  BY <1>1, <1>2, <1>3, <1>5 DEF ReplicasInv

LEMMA NextInv == ReplicasInv /\ [Next]_vars => ReplicasInv'
<1> SUFFICES ASSUME ReplicasInv, [Next]_vars PROVE ReplicasInv'
  OBVIOUS
<1>1. CASE UNCHANGED vars
  BY <1>1 DEF vars, files, pods, history, ReplicasInv, TypeOK, Locked, SerialInv, PostsInv,
              RoomInv, RowsOf, Waiting, LossNeedsRotation, OldestFirst
<1>2. ASSUME NEW p \in Pods,
             \/ Opens(p) \/ FindsLocked(p) \/ CannotRename(p) \/ MovesJournal(p)
             \/ LosesJournal(p) \/ Degrades(p) \/ Dies(p)
      PROVE  ReplicasInv'
  BY <1>2, StartupStep
<1>3. ASSUME NEW p \in Pods,
             \/ Renames(p) \/ TearsJournal(p) \/ Counts(p) \/ Inserts(p) \/ InsertRaises(p)
             \/ Posts(p) \/ Ingests(p) \/ Refuses(p) \/ Acks(p) \/ TickFails(p)
      PROVE  ReplicasInv'
  BY <1>3, RenamesStep, TearsStep, CountsStep, InsertsStep, InsertRaisesStep, PostsStep,
     AnswersStep, TickOverStep
<1> QED
  BY <1>1, <1>2, <1>3 DEF Next

LEMMA Inductive == Spec => []ReplicasInv
<1> QED
  BY InitInv, NextInv, PTL DEF Spec

(* The queue files, the pods and the histories have their types; no more   *)
(* tables come to be than pods have found the file locked.                 *)
THEOREM TypeCorrect == Spec => []TypeOK
<1>1. ReplicasInv => TypeOK
  BY DEF ReplicasInv
<1> QED
  BY <1>1, Inductive, PTL

(* However many pods share the queue, it outgrows its limit by at most one *)
(* row per pod but the first (store.py enqueue).                           *)
THEOREM BoundIsShared == Spec => []SharedBound
<1>1. ASSUME ReplicasInv PROVE SharedBound
  <2> SUFFICES ASSUME NEW t \in Tables \ torn
               PROVE  Cardinality(RowsOf(t)) <= MaxSize + Cardinality(Pods) - 1
    BY DEF SharedBound
  <2>1. Cardinality(RowsOf(t)) + Cardinality(Waiting(t)) <= MaxSize + Cardinality(Pods) - 1
    BY <1>1 DEF ReplicasInv, RoomInv
  <2>2. t \in Nat
    BY ReplicasAssumption DEF Tables
  <2> QED
    BY <1>1, <2>1, <2>2, Counted, ReplicasAssumption
<1> QED
  BY <1>1, Inductive, PTL

(* Without a rotation that hits a POST or deletes a file, several pods     *)
(* lose no accepted event (store.py ack, _rotate_corrupt_files).           *)
THEOREM NoOtherLoss == Spec => []LossNeedsRotation
<1>1. ReplicasInv => LossNeedsRotation
  BY DEF ReplicasInv
<1> QED
  BY <1>1, Inductive, PTL

(* Among any number of pods, of the rows of one table the older are        *)
(* delivered first (store.py dequeue_batch).                               *)
THEOREM OldestAlwaysFirst == Spec => []OldestFirst
<1>1. ReplicasInv => OldestFirst
  BY DEF ReplicasInv
<1> QED
  BY <1>1, Inductive, PTL

-----------------------------------------------------------------------------
(* Without a rotation underfoot, a pod's POST is a prefix of the log.      *)
LEMMA PostSettles ==
    ASSUME ReplicasInv, ~underfoot, NEW p \in Pods, posting[p] # {}
    PROVE  /\ Events(posting[p]) \subseteq Log!Known
           /\ \A d \in Events(posting[p]), e \in Log!Known :
                 e < d => e \in Events(posting[p]) \cup Events(delivered \cup rejected \cup setAside)
<1>1. posting[p] \subseteq RowsOf(live) \cup delivered \cup rejected
  BY DEF ReplicasInv, PostsInv, LossNeedsRotation, RowsOf
<1>2. ASSUME NEW d \in posting[p], NEW r \in RowsOf(live), r.event < d.event
      PROVE  r \in posting[p]
  BY <1>2 DEF ReplicasInv, PostsInv, SerialInv, RowsOf
<1> QED
  BY <1>1, <1>2 DEF Log!Known, Events

(* Accept, into the table that the path names; a row for a table renamed   *)
(* away never joins the log.                                               *)
LEMMA InsertAccepts ==
    ASSUME ReplicasInv, ~underfoot, NEW p \in Pods, Inserts(p)
    PROVE  [Log!Next]_(Log!logVars)
<1> DEFINE row == [tbl |-> handle[p], id |-> NextId(handle[p]),
                   event |-> Cardinality(accepted) + 1]
<1>1. /\ rows' = rows \cup {row} /\ accepted' = accepted \cup {row}
      /\ UNCHANGED <<live, delivered, rejected, setAside>>
  BY DEF Inserts, ReplicasInv
<1>2. Events(delivered \cup rejected \cup setAside)' = Events(delivered \cup rejected \cup setAside)
  BY <1>1 DEF Events
<1>3. CASE handle[p] = live
  <2>1. Events(RowsOf(live))' = Events(RowsOf(live)) \cup {row.event}
    BY <1>1, <1>3 DEF Events, RowsOf
  <2>2. row.event \in 1..MaxEvents
    BY Counted, ReplicasAssumption DEF Inserts
  <2>3. \A d \in Log!Known : d < row.event
    <3>1. \A r \in accepted : r.event \in Nat /\ r.event <= Cardinality(accepted)
      BY DEF ReplicasInv, SerialInv, TypeOK, Row
    <3>2. RowsOf(live) \cup delivered \cup rejected \cup setAside \subseteq accepted
      BY DEF ReplicasInv, TypeOK, RowsOf
    <3> QED
      BY <3>1, <3>2, Counted DEF Log!Known, Events
  <2>4. Log!Accept(row.event)
    BY <1>2, <2>1, <2>3 DEF Log!Accept
  <2> QED
    BY <2>2, <2>4 DEF Log!Next
<1>4. CASE handle[p] # live
  <2>1. RowsOf(live)' = RowsOf(live)
    BY <1>1, <1>4 DEF RowsOf
  <2> QED
    BY <1>2, <2>1 DEF Events, Log!logVars
<1> QED
  BY <1>3, <1>4

(* Leave: the ids that an ack deletes are those of rows that were ingested *)
(* or refused.                                                             *)
LEMMA AckLeaves ==
    ASSUME ReplicasInv, ~underfoot, NEW p \in Pods, Acks(p)
    PROVE  [Log!Next]_(Log!logVars)
<1> DEFINE E == Events(RowsOf(live) \ rows')
<1>1. rows' \subseteq rows /\ UNCHANGED <<live, delivered, rejected, setAside>>
  BY DEF Acks, TickEnds, history
<1>2. \A a, b \in RowsOf(live) : a.event = b.event => a = b
  <2>1. \A a \in RowsOf(live) : a.id \in Nat /\ a.event \in Nat /\ a \in accepted
    BY DEF RowsOf, ReplicasInv, TypeOK, Row
  <2> QED
    BY <2>1 DEF RowsOf, ReplicasInv, SerialInv
<1>3. Events(RowsOf(live))' = Events(RowsOf(live)) \ E
  BY <1>1, <1>2 DEF Events, RowsOf
<1>4. RowsOf(live) \ rows' \subseteq delivered \cup rejected
  BY DEF Acks, RowsOf, ReplicasInv, PostsInv, SerialInv
<1>5. E \in SUBSET (Events(RowsOf(live)) \cap Events(delivered \cup rejected \cup setAside))
  BY <1>4 DEF Events
<1>6. Log!Leave(E)
  BY <1>1, <1>3 DEF Log!Leave, Events
<1> QED
  BY <1>5, <1>6 DEF Log!Next

(* Every step of a pod is one of the log, or none, unless it rotates       *)
(* underfoot or comes after such a rotation.                               *)
LEMMA StepsAreTheLogs ==
    ASSUME ReplicasInv, ReplicasInv', [Next]_vars
    PROVE  [underfoot' \/ Log!Next]_(Log!logVars)
<1>1. ASSUME UNCHANGED <<live, rows, delivered, rejected, setAside>>
      PROVE  UNCHANGED Log!logVars
  BY <1>1 DEF Log!logVars, Events, RowsOf
<1>2. CASE UNCHANGED vars
  BY <1>1, <1>2 DEF vars, files, history
<1>3. ASSUME NEW p \in Pods,
             \/ FindsLocked(p) \/ CannotRename(p) \/ MovesJournal(p) \/ Degrades(p) \/ Dies(p)
             \/ Counts(p) \/ InsertRaises(p) \/ Posts(p) \/ TickFails(p)
      PROVE  UNCHANGED <<live, rows, delivered, rejected, setAside>>
  BY <1>3 DEF FindsLocked, CannotRename, MovesJournal, Degrades, Dies, Counts, InsertRaises,
              Posts, TickFails, TickEnds, files, history
<1>4. ASSUME NEW p \in Pods, Opens(p) \/ LosesJournal(p), ~underfoot'
      PROVE  UNCHANGED <<live, rows, delivered, rejected, setAside>>
  BY <1>4 DEF Opens, LosesJournal, JournalLost
<1>5. ASSUME NEW p \in Pods, Inserts(p) PROVE [underfoot' \/ Log!Next]_(Log!logVars)
  BY <1>5, InsertAccepts DEF Inserts
<1>6. ASSUME NEW p \in Pods, Acks(p) PROVE [underfoot' \/ Log!Next]_(Log!logVars)
  BY <1>6, AckLeaves DEF Acks, TickEnds, history
<1>7. ASSUME NEW p \in Pods, Ingests(p) \/ Refuses(p), ~underfoot' PROVE Log!Next
  <2>1. /\ UNCHANGED <<live, rows, setAside, underfoot>> /\ posting[p] # {}
        /\ delivered' \cup rejected' = delivered \cup rejected \cup posting[p]
    BY <1>7 DEF Ingests, Refuses, files
  <2>2. /\ Events(RowsOf(live))' = Events(RowsOf(live))
        /\ Events(delivered \cup rejected \cup setAside)'
              = Events(delivered \cup rejected \cup setAside) \cup Events(posting[p])
    BY <2>1 DEF Events, RowsOf
  <2>3. /\ Events(posting[p]) \in SUBSET Log!Known
        /\ \A d \in Events(posting[p]), e \in Log!Known :
              e < d => e \in Events(posting[p]) \cup Events(delivered \cup rejected \cup setAside)
    BY <1>7, <2>1, PostSettles
  <2>4. Log!Settle(Events(posting[p]))
    BY <2>2, <2>3 DEF Log!Settle
  <2> QED
    BY <2>3, <2>4 DEF Log!Next
<1>8. ASSUME NEW p \in Pods, Renames(p), ~underfoot' PROVE Log!Next
  <2>1. /\ rows' = rows /\ live' = live + 1 /\ UNCHANGED <<delivered, rejected>>
        /\ setAside' = setAside \cup RowsOf(live)
    BY <1>8 DEF Renames, ReplicasInv
  <2>2. RowsOf(live)' = {}
    BY <2>1, Counted DEF RowsOf, ReplicasInv, TypeOK, Row
  <2>3. Log!SetAside
    BY <2>1, <2>2 DEF Log!SetAside, Events
  <2> QED
    BY <2>3 DEF Log!Next
<1>9. ASSUME NEW p \in Pods, TearsJournal(p) PROVE underfoot'
  BY <1>9 DEF TearsJournal
<1> QED
  BY <1>1, <1>2, <1>3, <1>4, <1>5, <1>6, <1>7, <1>8, <1>9 DEF Next

(* Any number of pods on one file keep the contract of a single edge's     *)
(* audit log, as long as no rotation hits a POST or deletes a file         *)
(* (store.py enqueue, dequeue_batch, ack; sender.py _tick).                *)
THEOREM ReplicasKeepTheLog == Spec => KeepsAuditLog
<1>1. Init => Log!Init
  BY DEF Init, Log!Init, Events, RowsOf
<1>2. ReplicasInv /\ ReplicasInv' /\ [Next]_vars => [underfoot' \/ Log!Next]_(Log!logVars)
  BY StepsAreTheLogs
<1> QED
  BY <1>1, <1>2, Inductive, PTL DEF Spec, KeepsAuditLog
=============================================================================
