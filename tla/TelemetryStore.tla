--------------------------- MODULE TelemetryStore ---------------------------
(***************************************************************************)
(* The durable queue of outbound audit events: telemetry/store.py.         *)
(*                                                                         *)
(* One SQLite table of rows <<id, payload, retries, last_error>>, whose id *)
(* is an AUTOINCREMENT key, behind a lock and a connection per call: each  *)
(* method is one step.  `retries' and `last_error' are written by          *)
(* mark_retry and read by nobody but an operator; the model keeps which    *)
(* rows have been marked.  An audit event is a number: the position of its *)
(* decision among the decisions taken.                                     *)
(*                                                                         *)
(* The operators here are the store's methods as actions on the store's    *)
(* variables; TelemetrySender composes them with the coroutines that call  *)
(* them.                                                                   *)
(***************************************************************************)
EXTENDS Integers, FiniteSets

CONSTANT MaxSize                \* settings.telemetry_queue_size

ASSUME MaxSizeAssumption == MaxSize \in Nat \ {0}

VARIABLES
    rows,       \* the table: a set of [id, ev]
    seq,        \* sqlite_sequence: the largest id the table ever held
    marked,     \* ids of the rows with retries > 0
    kind,       \* the singleton: "none", a "real" store or the "noop" one
    dropped     \* _dropped of the singleton

storeVars == <<rows, seq, marked, kind, dropped>>

QueuedEvent == [id : Nat \ {0}, ev : Nat \ {0}]

Ids(S) == {r.id : r \in S}
Evs(S) == {r.ev : r \in S}

StoreTypeOK ==
    /\ rows \subseteq QueuedEvent
    /\ IsFiniteSet(rows)
    /\ seq \in Nat
    /\ marked \subseteq Ids(rows)
    /\ kind \in {"none", "real", "noop"}
    /\ dropped \in Nat

StoreInit ==
    /\ rows = {}
    /\ seq = 0
    /\ marked = {}
    /\ kind = "none"
    /\ dropped = 0

-----------------------------------------------------------------------------
(* Mutant of NextId: INTEGER PRIMARY KEY without AUTOINCREMENT.            *)
ReusedId == IF rows = {} THEN 1
            ELSE 1 + CHOOSE i \in Ids(rows) : \A j \in Ids(rows) : j <= i

(* The id SQLite gives the next row of an AUTOINCREMENT table: never one   *)
(* the table has held before, even when the row is gone.                   *)
NextId == seq + 1

(* Mutant of Full: off by one.                                             *)
FullPastMax == Cardinality(rows) > MaxSize

(* enqueue's back-pressure test.                                           *)
Full == Cardinality(rows) >= MaxSize

(* enqueue(payload), the real store with room for the row.                 *)
Insert(e) ==
    /\ kind = "real"
    /\ ~Full
    /\ rows' = rows \cup {[id |-> NextId, ev |-> e]}
    /\ seq' = NextId
    /\ UNCHANGED <<marked, kind, dropped>>

(* enqueue(payload) when the queue is full (returns False), and the no-op  *)
(* store's enqueue (returns True): the event is counted and forgotten.     *)
Drop ==
    /\ \/ kind = "real" /\ Full
       \/ kind = "noop"
    /\ dropped' = dropped + 1
    /\ UNCHANGED <<rows, seq, marked, kind>>

(* Mutant of Batch: ORDER BY id DESC.                                      *)
NewestBatch(limit) ==
    IF kind = "real"
    THEN {r \in rows : Cardinality({q \in rows : q.id >= r.id}) <= limit}
    ELSE {}

(* dequeue_batch(limit): the oldest rows, by id; they stay in the table.   *)
Batch(limit) ==
    IF kind = "real"
    THEN {r \in rows : Cardinality({q \in rows : q.id <= r.id}) <= limit}
    ELSE {}

(* ack(ids)                                                                *)
Ack(ids) ==
    /\ rows' = IF kind = "real" THEN {r \in rows : r.id \notin ids} ELSE rows
    /\ marked' = IF kind = "real" THEN marked \ ids ELSE marked
    /\ UNCHANGED <<seq, kind, dropped>>

(* Mutant of MarkRetry: an upsert, which revives ids that are gone.        *)
MarkUpsert(ids) ==
    /\ marked' = IF kind = "real" THEN marked \cup ids ELSE marked
    /\ UNCHANGED <<rows, seq, kind, dropped>>

(* mark_retry(ids, error): ids of rows another tick has acked meanwhile    *)
(* match nothing.                                                          *)
MarkRetry(ids) ==
    /\ marked' = IF kind = "real" THEN marked \cup (ids \cap Ids(rows)) ELSE marked
    /\ UNCHANGED <<rows, seq, kind, dropped>>

-----------------------------------------------------------------------------
(* get_store at startup.  The table is opened as it was left, or it is     *)
(* reported corrupt and set aside for an empty one (whose ids start        *)
(* again); when the table, or the fresh one, cannot be opened the no-op    *)
(* store serves.                                                           *)
OpenAsLeft ==
    /\ kind' = "real"
    /\ dropped' = 0
    /\ UNCHANGED <<rows, seq, marked>>

OpenRotated ==
    /\ kind' \in {"real", "noop"}
    /\ dropped' = 0
    /\ rows' = {}
    /\ seq' = 0
    /\ marked' = {}

OpenNoop ==
    /\ kind' = "noop"
    /\ dropped' = 0
    /\ UNCHANGED <<rows, seq, marked>>

(* Mutant of Close: the file is removed.                                   *)
CloseRemoves ==
    /\ kind' = "none"
    /\ dropped' = 0
    /\ rows' = {} /\ seq' = 0 /\ marked' = {}

(* reset_store, or the end of the process: the table stays on disk.        *)
Close ==
    /\ kind' = "none"
    /\ dropped' = 0
    /\ UNCHANGED <<rows, seq, marked>>
=============================================================================
