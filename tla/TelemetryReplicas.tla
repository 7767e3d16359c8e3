-------------------------- MODULE TelemetryReplicas --------------------------
(***************************************************************************)
(* One audit queue, several pods.                                          *)
(*                                                                         *)
(*   telemetry/store.py    TelemetryStore, get_store, as several processes *)
(*                         see them                                        *)
(*   telemetry/sender.py   _tick, from the peek to the ack                 *)
(*                                                                         *)
(* store.py is written for a single writer, but the chart runs two pods,   *)
(* three during a rollout, over one volume (values.yaml replicaCount,      *)
(* deployment.yaml maxSurge and claimName).  The lock is then no lock:     *)
(* every method opens the file by its path, every statement is a           *)
(* transaction of its own, and enqueue's count and its INSERT are two.     *)
(*                                                                         *)
(* A pod whose first statement finds the database locked takes the file    *)
(* for corrupt and renames it, whoever else has it open; the table it      *)
(* creates numbers its rows from 1 again.  Tables are numbered in the      *)
(* order of their creation, the last is the one the path names.  A row is  *)
(* [tbl, id, event], the events numbered in the order of their insertion.  *)
(*                                                                         *)
(* A pod is abstracted to one request that enqueues and one sender:        *)
(* TelemetrySender has the concurrency within a pod.                       *)
(***************************************************************************)
EXTENDS Integers, FiniteSets

CONSTANTS
    Pods,           \* the replicas, surge included
    MaxSize,        \* settings.telemetry_queue_size
    BatchSize,      \* settings.telemetry_batch_size
    Poison,         \* events the gateway refuses with 400 or 422 whenever they are sent
    MaxEvents,      \* bound: events accepted
    MaxFaults,      \* bound: failed calls and openings
    MaxCrashes      \* bound: pods killed

ASSUME ReplicasAssumption ==
    /\ IsFiniteSet(Pods) /\ Pods # {}
    /\ MaxSize \in Nat \ {0} /\ BatchSize \in Nat \ {0} /\ Poison \subseteq Nat
    /\ MaxEvents \in Nat /\ MaxFaults \in Nat /\ MaxCrashes \in Nat

VARIABLES
    live,       \* the table the path names
    schema,     \* it has been created (a connection alone makes an empty file)
    rows,       \* the rows of every table, those renamed away included
    seq,        \* of each table, the largest id it ever held
    gone,       \* the tables whose file a rotation deleted
    loose,      \* the table renamed away whose journal still lies at the path, or 0
    torn,       \* the tables whose journal a rotation moved while they were in use
    store,      \* of each pod: "down", "locked", "moved" and "retry" (in
                \* _open_or_recreate), "real" or "noop"
    handle,     \* the table on which its enqueue has counted, or 0
    posting,    \* the rows its POST carries
    answered,   \* the gateway's answer: "none", "ok" (2xx) or "bad" (400, 422)
    accepted,   \* history: rows inserted
    delivered,  \* history: rows ingested
    rejected,   \* history: rows the gateway refused with 400 or 422
    setAside,   \* history: rows that lay in a table when it was renamed
    underfoot,  \* history: a rotation has hit a POST, or cost a file or a journal
    faults, crashes

files   == <<live, schema, rows, seq, gone, loose, torn>>
pods    == <<store, handle, posting, answered>>
history == <<accepted, delivered, rejected, setAside, underfoot>>
vars == <<files, pods, history, faults, crashes>>

Tables == 1..(MaxFaults + 1)
Row    == [tbl : Tables, id : Nat \ {0}, event : 1..MaxEvents]

RowsOf(t) == {r \in rows : r.tbl = t}

Init ==
    /\ live = 1 /\ schema = FALSE /\ rows = {}
    /\ seq = [t \in Tables |-> 0] /\ gone = {} /\ loose = 0 /\ torn = {}
    /\ store = [p \in Pods |-> "down"]
    /\ handle = [p \in Pods |-> 0]
    /\ posting = [p \in Pods |-> {}] /\ answered = [p \in Pods |-> "none"]
    /\ accepted = {} /\ delivered = {} /\ rejected = {} /\ setAside = {}
    /\ underfoot = FALSE
    /\ faults = 0 /\ crashes = 0

Fault == faults < MaxFaults /\ faults' = faults + 1

-----------------------------------------------------------------------------
(* The journal of a table that has lost its name goes, with those of its   *)
(* rows that had not been copied into the file.                            *)
JournalLost ==
    \E L \in SUBSET RowsOf(loose) :
        rows' = rows \ L /\ underfoot' = (underfoot \/ L # {})

(* get_store at startup: the DDL runs, IF NOT EXISTS, on whatever the path *)
(* names.  SQLite deletes a journal that it finds beside a new file.       *)
Opens(p) ==
    /\ store[p] \in {"down", "retry"}
    /\ JournalLost
    /\ schema' = TRUE /\ loose' = 0
    /\ store' = [store EXCEPT ![p] = "real"]
    /\ UNCHANGED <<live, seq, gone, torn, handle, posting, answered, accepted, delivered,
                   rejected, setAside, faults, crashes>>

(* "database is locked", because another pod is at work on it: one of the  *)
(* markers of corruption.                                                  *)
FindsLocked(p) ==
    /\ store[p] = "down"
    /\ \E q \in Pods \ {p} : store[q] # "down"
    /\ Fault
    /\ store' = [store EXCEPT ![p] = "locked"]
    /\ UNCHANGED <<files, handle, posting, answered, history, crashes>>

(* _rotate_corrupt_files, the database: it moves away what is there by now,*)
(* which may be the file that another rotation has just put in place.  The *)
(* new name is the time in seconds, so a file renamed within the same      *)
(* second is replaced; a file that cannot be renamed is unlinked.          *)
Renames(p) ==
    /\ store[p] = "locked"
    /\ live' = live + 1
    /\ schema' = FALSE
    /\ loose' = IF schema THEN live ELSE loose
    /\ \/ gone' = gone /\ UNCHANGED faults
       \/ gone' = gone \cup ({live - 1} \cap Tables) /\ UNCHANGED faults
       \/ gone' = gone \cup {live} /\ Fault
    /\ rows' = {r \in rows : r.tbl \notin gone'}
    /\ setAside' = setAside \cup RowsOf(live)
    /\ underfoot' = (underfoot \/ gone' # gone \/ \E q \in Pods : posting[q] # {})
    /\ store' = [store EXCEPT ![p] = "moved"]
    /\ UNCHANGED <<seq, torn, handle, posting, answered, accepted, delivered, rejected,
                   crashes>>

(* Neither works: the retry will open the same file.                       *)
CannotRename(p) ==
    /\ store[p] = "locked"
    /\ Fault
    /\ store' = [store EXCEPT ![p] = "moved"]
    /\ UNCHANGED <<files, handle, posting, answered, history, crashes>>

(* Its loop goes on to the -wal and the -shm.  There may be none; or they  *)
(* go to the new name too, the table's rows with them.                     *)
MovesJournal(p) ==
    /\ store[p] = "moved"
    /\ store' = [store EXCEPT ![p] = "retry"]
    /\ loose' = 0
    /\ UNCHANGED <<live, schema, rows, seq, gone, torn, handle, posting, answered, history,
                   faults, crashes>>

(* The journal cannot be renamed, is unlinked, or stays for Opens to drop. *)
LosesJournal(p) ==
    /\ store[p] = "moved" /\ loose # 0
    /\ Fault
    /\ JournalLost
    /\ store' = [store EXCEPT ![p] = "retry"]
    /\ loose' = 0
    /\ UNCHANGED <<live, schema, seq, gone, torn, handle, posting, answered, accepted,
                   delivered, rejected, setAside, crashes>>

(* By now the path names a table in use, another pod's or the one that     *)
(* could not be renamed: without its journal it is what it was at some     *)
(* checkpoint, ids that were given since will be given again, and rows that*)
(* were acked since are back.                                              *)
TearsJournal(p) ==
    /\ store[p] = "moved" /\ loose = 0 /\ schema
    /\ \E s \in 0..seq[live] :
          /\ seq' = [seq EXCEPT ![live] = s]
          /\ \E R \in SUBSET {r \in accepted : r.tbl = live /\ r.id <= s} :
                rows' = (rows \ RowsOf(live)) \cup R
    /\ torn' = torn \cup {live} /\ underfoot' = TRUE
    /\ store' = [store EXCEPT ![p] = "retry"]
    /\ UNCHANGED <<live, schema, gone, loose, handle, posting, answered, accepted,
                   delivered, rejected, setAside, faults, crashes>>

(* The retry fails too: the no-op store.                                   *)
Degrades(p) ==
    /\ store[p] = "retry"
    /\ Fault
    /\ store' = [store EXCEPT ![p] = "noop"]
    /\ UNCHANGED <<files, handle, posting, answered, history, crashes>>

(* The pod is killed, or stopped: its connections and requests are gone.   *)
Dies(p) ==
    /\ store[p] # "down"
    /\ crashes < MaxCrashes /\ crashes' = crashes + 1
    /\ store' = [store EXCEPT ![p] = "down"]
    /\ handle' = [handle EXCEPT ![p] = 0]
    /\ posting' = [posting EXCEPT ![p] = {}]
    /\ answered' = [answered EXCEPT ![p] = "none"]
    /\ UNCHANGED <<files, history, faults>>

-----------------------------------------------------------------------------
(* Mutant of Full: off by one.                                             *)
FullPastMax(t) == Cardinality(RowsOf(t)) > MaxSize

(* enqueue's back-pressure test.                                           *)
Full(t) == Cardinality(RowsOf(t)) >= MaxSize

(* Mutant of NextId: no AUTOINCREMENT.                                     *)
NextIdReused(t) ==
    IF RowsOf(t) = {} THEN 1
    ELSE 1 + CHOOSE i \in {r.id : r \in RowsOf(t)} : \A r \in RowsOf(t) : r.id <= i

(* AUTOINCREMENT, in the table's own sequence.                             *)
NextId(t) == seq[t] + 1

(* The first statement of enqueue.  Without a table it raises, and with a  *)
(* full one the event is dropped: nothing changes.                         *)
Counts(p) ==
    /\ store[p] = "real" /\ schema
    /\ handle[p] = 0 /\ Cardinality(accepted) < MaxEvents
    /\ ~Full(live)
    /\ handle' = [handle EXCEPT ![p] = live]
    /\ UNCHANGED <<files, store, posting, answered, history, faults, crashes>>

(* The second, through the same connection: the file it opened may have    *)
(* been filled, renamed or deleted since, or its journal moved away.       *)
Inserts(p) ==
    LET t   == handle[p]
        row == [tbl |-> t, id |-> NextId(t), event |-> Cardinality(accepted) + 1]
    IN  /\ t # 0 /\ Cardinality(accepted) < MaxEvents
        /\ \/ t \notin gone /\ rows' = rows \cup {row}
           \/ t \in gone \cup torn /\ rows' = rows
        /\ seq' = [seq EXCEPT ![t] = NextId(t)]
        /\ accepted' = accepted \cup {row}
        /\ handle' = [handle EXCEPT ![p] = 0]
        /\ UNCHANGED <<live, schema, gone, loose, torn, store, posting, answered, delivered,
                       rejected, setAside, underfoot, faults, crashes>>

(* It raises: locked, or the disk is full.                                 *)
InsertRaises(p) ==
    /\ handle[p] # 0
    /\ Fault
    /\ handle' = [handle EXCEPT ![p] = 0]
    /\ UNCHANGED <<files, store, posting, answered, history, crashes>>

-----------------------------------------------------------------------------
(* Mutants of Batch: rows that no other pod is sending; full batches only. *)
BatchClaimed == RowsOf(live) \ UNION {posting[p] : p \in Pods}
BatchFull    == IF Cardinality(RowsOf(live)) < BatchSize THEN {} ELSE RowsOf(live)

(* dequeue_batch: the oldest rows of the table the path names.             *)
Batch == {r \in RowsOf(live) : Cardinality({q \in RowsOf(live) : q.id <= r.id}) <= BatchSize}

(* A tick peeks and hands its POST to the HTTP client.                     *)
Posts(p) ==
    /\ store[p] = "real" /\ schema
    /\ posting[p] = {} /\ Batch # {}
    /\ posting' = [posting EXCEPT ![p] = Batch]
    /\ UNCHANGED <<files, store, handle, answered, history, faults, crashes>>

Events(R) == {r.event : r \in R}

(* External: the gateway ingests the POST whole, or refuses it whole       *)
(* because of an event that it finds malformed.                            *)
Ingests(p) ==
    /\ posting[p] # {} /\ answered[p] = "none"
    /\ Events(posting[p]) \cap Poison = {}
    /\ answered' = [answered EXCEPT ![p] = "ok"]
    /\ delivered' = delivered \cup posting[p]
    /\ UNCHANGED <<files, store, handle, posting, accepted, rejected, setAside, underfoot,
                   faults, crashes>>

Refuses(p) ==
    /\ posting[p] # {} /\ answered[p] = "none"
    /\ Events(posting[p]) \cap Poison # {}
    /\ answered' = [answered EXCEPT ![p] = "bad"]
    /\ rejected' = rejected \cup posting[p]
    /\ UNCHANGED <<files, store, handle, posting, accepted, delivered, setAside, underfoot,
                   faults, crashes>>

TickEnds(p) ==
    /\ posting' = [posting EXCEPT ![p] = {}]
    /\ answered' = [answered EXCEPT ![p] = "none"]
    /\ UNCHANGED <<live, schema, seq, gone, loose, torn, store, handle, history, crashes>>

(* A 2xx, a 400 or a 422 acks: it deletes by the ids alone, in the table   *)
(* that the path names now.  If there is none it raises, and the rows stay.*)
Acks(p) ==
    /\ posting[p] # {} /\ answered[p] # "none"
    /\ rows' = IF schema
               THEN {r \in rows : ~(r.tbl = live /\ \E q \in posting[p] : q.id = r.id)}
               ELSE rows
    /\ TickEnds(p)
    /\ UNCHANGED faults

(* No token, no connection, no answer in time, any other answer, before the*)
(* gateway has ingested the POST or after; or the ack raises.              *)
TickFails(p) ==
    /\ posting[p] # {}
    /\ Fault
    /\ TickEnds(p)
    /\ UNCHANGED rows

-----------------------------------------------------------------------------
Next ==
    \E p \in Pods :
        \/ Opens(p) \/ FindsLocked(p) \/ Degrades(p) \/ Dies(p)
        \/ Renames(p) \/ CannotRename(p)
        \/ MovesJournal(p) \/ LosesJournal(p) \/ TearsJournal(p)
        \/ Counts(p) \/ Inserts(p) \/ InsertRaises(p)
        \/ Posts(p) \/ Ingests(p) \/ Refuses(p) \/ Acks(p) \/ TickFails(p)

Spec == Init /\ [][Next]_vars

(* A pod that is down is started and goes through its startup, the sender  *)
(* ticks, and its POST is answered.                                        *)
FairSpec ==
    /\ Spec
    /\ \A p \in Pods :
          /\ WF_vars(Opens(p) \/ Renames(p) \/ MovesJournal(p))
          /\ WF_vars(Posts(p) \/ Ingests(p) \/ Refuses(p) \/ Acks(p))

-----------------------------------------------------------------------------
TypeOK ==
    /\ live \in Tables /\ schema \in BOOLEAN
    /\ rows \subseteq Row
    /\ seq \in [Tables -> Nat] /\ gone \subseteq Tables
    /\ loose \in {0} \cup Tables /\ torn \subseteq Tables
    /\ store \in [Pods -> {"down", "locked", "moved", "retry", "real", "noop"}]
    /\ handle \in [Pods -> 0..live]
    /\ posting \in [Pods -> SUBSET Row]
    /\ answered \in [Pods -> {"none", "ok", "bad"}]
    /\ accepted \subseteq Row /\ delivered \subseteq accepted
    /\ rejected \subseteq accepted /\ setAside \subseteq accepted
    /\ underfoot \in BOOLEAN
    /\ faults \in 0..MaxFaults /\ crashes \in Nat

(* Back-pressure among pods: each of the others may insert once on a count *)
(* that is no longer true, so the table outgrows its limit by at most one  *)
(* row per pod but the first (store.py enqueue), unless a rotation tore it *)
(* back to a checkpoint.                                                   *)
SharedBound ==
    \A t \in Tables \ torn : Cardinality(RowsOf(t)) <= MaxSize + Cardinality(Pods) - 1

(* Several pods on one table lose no event, although they send the same    *)
(* rows and ack them by ids read before an await: every accepted event is  *)
(* in a file, was ingested, or was in a POST that the gateway refused as   *)
(* malformed, whatever the others sent and acked meanwhile.  Unless a      *)
(* starting pod rotated the table away while a POST was out, left no copy  *)
(* of it, or separated a table from its journal (store.py ack, the         *)
(* AUTOINCREMENT of its DDL, _rotate_corrupt_files; sender.py _tick).      *)
LossNeedsRotation == underfoot \/ accepted \subseteq rows \cup delivered \cup rejected

(* No pod has an event ingested while an older one of the same table waits *)
(* for its first delivery, rotations or not (store.py: "ordering for       *)
(* free"), unless a rotation tore the table back to a checkpoint.          *)
OldestFirst ==
    \A d \in delivered, r \in rows :
        r.tbl = d.tbl /\ r.tbl \notin torn /\ r.event < d.event => r \in delivered

(* What AuditLog promises of one edge holds of any number of pods on one    *)
(* file: they accept, deliver, delete and set aside as a single one would, *)
(* and delete nothing that was not ingested, refused or set aside, until a *)
(* rotation hits a POST or costs a file or a journal.  An event that an    *)
(* enqueue inserts into a table renamed since its count lies beside the    *)
(* log and never joins it.                                                 *)
Log == INSTANCE AuditLog WITH
    Event   <- 1..MaxEvents,
    queued  <- Events(RowsOf(live)),
    settled <- Events(delivered \cup rejected \cup setAside)

KeepsAuditLog == Log!Init /\ [][underfoot' \/ Log!Next]_(Log!logVars)

(* The shared queue is emptied again and again by whichever pod is left:   *)
(* the rows of a pod that died are not stuck.  Unless every pod has fallen *)
(* back to the no-op store.                                                *)
AnyPodShips == []<>(RowsOf(live) = {} \/ \A p \in Pods : store[p] = "noop")
=============================================================================
