--------------------------- MODULE TelemetrySender --------------------------
(***************************************************************************)
(* The outbound audit pipeline: decide() enqueues, a background worker and *)
(* any number of flushes drain the queue to the gateway.                   *)
(*                                                                         *)
(*   telemetry/sender.py    TelemetrySender.run_forever, _tick, flush_now  *)
(*   routes/telemetry.py    POST /v1/telemetry-flush                       *)
(*   routes/decide.py       the enqueue at the end of decide()             *)
(*   app.py                 the part of _lifespan that owns the pipeline   *)
(*                                                                         *)
(* Every coroutine runs on one event loop, so the code between two awaits  *)
(* is one step.  A tick awaits only its POST: it is TickStart (peek the    *)
(* batch, mint the token, send), the gateway's answer, and TickFinish (or  *)
(* TransportError).  The worker, the flush requests and the drain at       *)
(* shutdown all tick on the same store, and between the two steps of one   *)
(* the others may take any of theirs.                                      *)
(*                                                                         *)
(* A row peeked by a tick is remembered in `batch', so an ack deletes by   *)
(* the ids read before the await.  Sleeping and deadlines are modelled by  *)
(* their ends, which may come at any time.                                 *)
(***************************************************************************)
EXTENDS TelemetryStore

CONSTANTS
    BatchSize,      \* settings.telemetry_batch_size
    FlushInterval,  \* settings.telemetry_flush_interval_seconds
    MaxBackoff,     \* _MAX_BACKOFF_SECONDS
    Flushers,       \* concurrent POST /v1/telemetry-flush requests
    Poison,         \* events the gateway refuses whenever they are sent
    PoisonAnswer,   \* how it refuses them: "bad" (400, 422) or "other"
    MaxEvents,      \* bound: audit events offered
    MaxFaults,      \* bound: gateway, network, disk and minting failures
    MaxRestarts     \* bound: crashes and shutdowns

Worker == "worker"
Drain  == "drain"

ASSUME SenderAssumption ==
    /\ BatchSize \in Nat \ {0}
    /\ FlushInterval \in Nat \ {0}
    /\ MaxBackoff \in Nat \ {0}
    /\ Poison \subseteq Nat
    /\ PoisonAnswer \in {"bad", "other"}
    /\ MaxEvents \in Nat /\ MaxFaults \in Nat /\ MaxRestarts \in Nat
    /\ Worker \notin Flushers /\ Drain \notin Flushers

Tickers == Flushers \cup {Worker, Drain}

VARIABLES
    proc,       \* the process: "down", "up" or "draining" (lifespan's finally)
    pc,         \* of each ticker: "idle", "ready" to tick, "posting", "sleep"
    batch,      \* the rows a ticker's POST carries
    resp,       \* its answer: "none", "ok" (2xx), "bad" (400, 422), "other"
    backoff,    \* TelemetrySender._backoff
    ended,      \* how a ticker's last tick, or its loop, ended
    ghosts,     \* the events of POSTs given up, which may yet be ingested
    nextEv,     \* the next audit event
    accepted,   \* history: events INSERTed
    delivered,  \* history: events in a POST the gateway ingested
    rejected,   \* history: events in a POST the gateway refused with 400 or 422
    setAside,   \* history: events in a table rotated away as corrupt
    faults,     \* failures so far
    restarts    \* crashes and shutdowns so far

procVars == <<proc, pc, batch, resp, backoff, ended>>
history  == <<accepted, delivered, rejected, setAside>>
vars == <<storeVars, procVars, ghosts, nextEv, history, faults, restarts>>

Endings == {"none", "sent", "empty", "failed", "raised", "deadline"}

Init ==
    /\ StoreInit
    /\ proc = "down"
    /\ pc = [t \in Tickers |-> "idle"]
    /\ batch = [t \in Tickers |-> {}]
    /\ resp = [t \in Tickers |-> "none"]
    /\ backoff = FlushInterval
    /\ ended = [t \in Tickers |-> "none"]
    /\ ghosts = {}
    /\ nextEv = 1
    /\ accepted = {} /\ delivered = {} /\ rejected = {} /\ setAside = {}
    /\ faults = 0
    /\ restarts = 0

Running == proc \in {"up", "draining"}

(* A failure of the environment, within the bound.                         *)
Fault == faults < MaxFaults /\ faults' = faults + 1

-----------------------------------------------------------------------------
(* decide() records its verdict.  The queue may take the event, drop it,   *)
(* or raise (disk full, locked): then nothing is stored.  Requests are     *)
(* served only until the lifespan's finally block starts.                  *)
EnqueueStored ==
    /\ proc = "up" /\ nextEv <= MaxEvents
    /\ Insert(nextEv)
    /\ nextEv' = nextEv + 1
    /\ accepted' = accepted \cup {nextEv}
    /\ UNCHANGED <<procVars, ghosts, delivered, rejected, setAside, faults, restarts>>

EnqueueDropped ==
    /\ proc = "up" /\ nextEv <= MaxEvents
    /\ Drop
    /\ nextEv' = nextEv + 1
    /\ UNCHANGED <<procVars, ghosts, history, faults, restarts>>

EnqueueRaises ==
    /\ proc = "up" /\ nextEv <= MaxEvents /\ kind = "real"
    /\ Fault
    /\ nextEv' = nextEv + 1
    /\ UNCHANGED <<storeVars, procVars, ghosts, history, restarts>>

-----------------------------------------------------------------------------
(* _bump_backoff                                                           *)
Bumped(b) == IF 2 * b < MaxBackoff THEN 2 * b ELSE MaxBackoff

(* Mutant of Rested: a flush that ships resets the worker's sleep too.     *)
RestedByAny(t, how, b) == IF how = "sent" THEN FlushInterval ELSE b

(* The worker's loop resets _backoff when its own tick sent something.     *)
Rested(t, how, b) == IF how = "sent" /\ t = Worker THEN FlushInterval ELSE b

(* A tick of t returns (or raises) in the way `how', with _backoff at b.   *)
(* The worker's loop goes on at once if the tick sent something and sleeps *)
(* otherwise; a flush goes on or returns.                                  *)
TickReturns(t, how, b) ==
    /\ ended' = [ended EXCEPT ![t] = how]
    /\ batch' = [batch EXCEPT ![t] = {}]
    /\ resp' = [resp EXCEPT ![t] = "none"]
    /\ pc' = [pc EXCEPT ![t] = IF how = "sent" THEN "ready"
                               ELSE IF t = Worker THEN "sleep" ELSE "idle"]
    /\ backoff' = Rested(t, how, b)
    /\ UNCHANGED proc

(* Mutant of TickEmpty: a batch is sent only when it is full.              *)
TickNotFull(t) ==
    /\ pc[t] = "ready"
    /\ Cardinality(Batch(BatchSize)) < BatchSize
    /\ TickReturns(t, "empty", backoff)
    /\ UNCHANGED <<storeVars, ghosts, nextEv, history, faults, restarts>>

(* The queue is empty, or the no-op store serves.                          *)
TickEmpty(t) ==
    /\ pc[t] = "ready"
    /\ Batch(BatchSize) = {}
    /\ TickReturns(t, "empty", backoff)
    /\ UNCHANGED <<storeVars, ghosts, nextEv, history, faults, restarts>>

(* Peek, mint, and hand the request to the HTTP client.                    *)
TickStart(t) ==
    /\ pc[t] = "ready"
    /\ Batch(BatchSize) # {}
    /\ batch' = [batch EXCEPT ![t] = Batch(BatchSize)]
    /\ pc' = [pc EXCEPT ![t] = "posting"]
    /\ UNCHANGED <<storeVars, proc, resp, backoff, ended, ghosts, nextEv, history,
                   faults, restarts>>

(* The cert JWT cannot be minted: the rows stay queued.                    *)
TickMintFails(t) ==
    /\ pc[t] = "ready"
    /\ Batch(BatchSize) # {}
    /\ Fault
    /\ MarkRetry(Ids(Batch(BatchSize)))
    /\ TickReturns(t, "failed", Bumped(backoff))
    /\ UNCHANGED <<ghosts, nextEv, history, restarts>>

(* dequeue_batch raises.  The worker's loop catches it and sleeps, the     *)
(* drain's caller catches it, the flush request answers 500.               *)
TickRaises(t) ==
    /\ pc[t] = "ready" /\ kind = "real"
    /\ Fault
    /\ TickReturns(t, "raised", backoff)
    /\ UNCHANGED <<storeVars, ghosts, nextEv, history, restarts>>

-----------------------------------------------------------------------------
(* The gateway, external: ingests the POST whole, refuses it whole because *)
(* of an event it finds malformed, or fails (401, 404, 5xx), when a proxy  *)
(* may have answered for a gateway that goes on to ingest it.              *)
Ingests(evs) ==
    /\ evs \cap Poison = {}
    /\ delivered' = delivered \cup evs
    /\ UNCHANGED rejected

Refuses(evs) ==
    /\ evs \cap Poison # {}
    /\ rejected' = IF PoisonAnswer = "bad" THEN rejected \cup evs ELSE rejected
    /\ UNCHANGED delivered

(* The requests of the tickers in T are given up: those the gateway has not*)
(* answered may still reach it.                                            *)
Abandoned(T) == {Evs(batch[t]) : t \in {u \in T : pc[u] = "posting" /\ resp[u] = "none"}}

GatewayAnswers(t) ==
    /\ pc[t] = "posting" /\ resp[t] = "none"
    /\ \/ Ingests(Evs(batch[t])) /\ resp' = [resp EXCEPT ![t] = "ok"]
       \/ Refuses(Evs(batch[t])) /\ resp' = [resp EXCEPT ![t] = PoisonAnswer]
    /\ UNCHANGED <<storeVars, proc, pc, batch, backoff, ended, ghosts, nextEv,
                   accepted, setAside, faults, restarts>>

GatewayFails(t) ==
    /\ pc[t] = "posting" /\ resp[t] = "none"
    /\ Fault
    /\ resp' = [resp EXCEPT ![t] = "other"]
    /\ ghosts' = ghosts \cup Abandoned({t})
    /\ UNCHANGED <<storeVars, proc, pc, batch, backoff, ended, nextEv, history, restarts>>

(* A request the client gave up on reaches the gateway after all.          *)
GhostArrives ==
    \E g \in ghosts :
        /\ Ingests(g)
        /\ ghosts' = ghosts \ {g}
        /\ UNCHANGED <<storeVars, procVars, nextEv, accepted, setAside, faults, restarts>>

-----------------------------------------------------------------------------
(* Mutants of AckedAnswers: ack on every answer; on 2xx alone.             *)
AckOnAny == {"ok", "bad", "other"}
AckOnOk  == {"ok"}

(* The rest of _tick, once client.post returns: by the status, ack the     *)
(* rows or mark them for a retry.                                          *)
AckedAnswers == {"ok", "bad"}

TickAcks(t) ==
    /\ pc[t] = "posting" /\ resp[t] \in AckedAnswers
    /\ Ack(Ids(batch[t]))
    /\ TickReturns(t, "sent", backoff)
    /\ UNCHANGED <<ghosts, nextEv, history, faults, restarts>>

TickRetries(t) ==
    /\ pc[t] = "posting" /\ resp[t] \notin AckedAnswers \cup {"none"}
    /\ MarkRetry(Ids(batch[t]))
    /\ TickReturns(t, "failed", Bumped(backoff))
    /\ UNCHANGED <<ghosts, nextEv, history, faults, restarts>>

(* client.post raises httpx.HTTPError: refused, timed out, or the answer   *)
(* was lost on its way back.                                               *)
TransportError(t) ==
    /\ pc[t] = "posting"
    /\ Fault
    /\ ghosts' = ghosts \cup Abandoned({t})
    /\ MarkRetry(Ids(batch[t]))
    /\ TickReturns(t, "failed", Bumped(backoff))
    /\ UNCHANGED <<nextEv, history, restarts>>

(* The store raises in the ack or mark_retry that follows the answer, or   *)
(* the mark_retry of a transport error: the rows stay, and _backoff is not *)
(* bumped.                                                                 *)
TickFinishRaises(t) ==
    /\ pc[t] = "posting"
    /\ Fault
    /\ ghosts' = ghosts \cup Abandoned({t})
    /\ TickReturns(t, "raised", backoff)
    /\ UNCHANGED <<storeVars, nextEv, history, restarts>>

-----------------------------------------------------------------------------
(* asyncio.sleep(_backoff) ends.                                           *)
WorkerWakes ==
    /\ pc[Worker] = "sleep"
    /\ pc' = [pc EXCEPT ![Worker] = "ready"]
    /\ UNCHANGED <<storeVars, proc, batch, resp, backoff, ended, ghosts, nextEv, history,
                   faults, restarts>>

(* POST /v1/telemetry-flush calls flush_now.                               *)
FlushRequest(f) ==
    /\ proc = "up" /\ pc[f] = "idle"
    /\ pc' = [pc EXCEPT ![f] = "ready"]
    /\ ended' = [ended EXCEPT ![f] = "none"]
    /\ UNCHANGED <<storeVars, proc, batch, resp, backoff, ghosts, nextEv, history,
                   faults, restarts>>

(* flush_now's loop test finds the deadline passed.                        *)
FlushDeadline(t) ==
    /\ t # Worker /\ pc[t] = "ready"
    /\ TickReturns(t, "deadline", backoff)
    /\ UNCHANGED <<storeVars, ghosts, nextEv, history, faults, restarts>>

-----------------------------------------------------------------------------
(* The process.  A start builds the store and the sender and creates the   *)
(* worker task.                                                            *)
Start ==
    /\ proc = "down"
    /\ \/ OpenAsLeft /\ UNCHANGED <<setAside, faults>>
       \/ OpenRotated /\ Fault /\ setAside' = setAside \cup Evs(rows)
       \/ OpenNoop /\ Fault /\ UNCHANGED setAside
    /\ proc' = "up"
    /\ pc' = [pc EXCEPT ![Worker] = "ready"]
    /\ backoff' = FlushInterval
    /\ ended' = [t \in Tickers |-> "none"]
    /\ UNCHANGED <<batch, resp, ghosts, nextEv, accepted, delivered, rejected, restarts>>

(* SIGTERM: the server stops listening and finishes its requests, then the *)
(* lifespan's finally block awaits flush_now, with the worker still alive. *)
Shutdown ==
    /\ proc = "up"
    /\ \A f \in Flushers : pc[f] = "idle"
    /\ restarts < MaxRestarts
    /\ restarts' = restarts + 1
    /\ proc' = "draining"
    /\ pc' = [pc EXCEPT ![Drain] = "ready"]
    /\ ended' = [ended EXCEPT ![Drain] = "none"]
    /\ UNCHANGED <<storeVars, batch, resp, backoff, ghosts, nextEv, history, faults>>

(* Every task is gone, with the requests they were waiting for.            *)
Halt ==
    /\ proc' = "down"
    /\ Close
    /\ ghosts' = ghosts \cup Abandoned(Tickers)
    /\ pc' = [t \in Tickers |-> "idle"]
    /\ batch' = [t \in Tickers |-> {}]
    /\ resp' = [t \in Tickers |-> "none"]
    /\ backoff' = FlushInterval
    /\ ended' = [t \in Tickers |-> "none"]
    /\ UNCHANGED <<nextEv, history, faults>>

(* Mutant of Stop: the worker is awaited and not cancelled.                *)
StopNoCancel ==
    /\ proc = "draining" /\ pc[Drain] = "idle" /\ pc[Worker] = "idle"
    /\ Halt
    /\ UNCHANGED restarts

(* The drain has returned: the worker is cancelled, mid-POST or not, and   *)
(* the process exits.                                                      *)
Stop ==
    /\ proc = "draining" /\ pc[Drain] = "idle"
    /\ Halt
    /\ UNCHANGED restarts

(* The pod is killed.                                                      *)
Crash ==
    /\ Running
    /\ restarts < MaxRestarts
    /\ restarts' = restarts + 1
    /\ Halt

-----------------------------------------------------------------------------
Tick(t) ==
    \/ TickEmpty(t) \/ TickStart(t) \/ TickMintFails(t) \/ TickRaises(t)
    \/ TickAcks(t) \/ TickRetries(t) \/ TransportError(t) \/ TickFinishRaises(t)

Next ==
    \/ EnqueueStored \/ EnqueueDropped \/ EnqueueRaises
    \/ \E t \in Tickers : Tick(t) \/ GatewayAnswers(t) \/ GatewayFails(t) \/ FlushDeadline(t)
    \/ WorkerWakes
    \/ \E f \in Flushers : FlushRequest(f)
    \/ GhostArrives
    \/ Start \/ Shutdown \/ Stop \/ Crash

Spec == Init /\ [][Next]_vars

(* The loop runs every task that can run, a sleep ends, every POST is      *)
(* answered or times out, and a pod that went down is started again.       *)
Fairness ==
    /\ \A t \in Tickers : WF_vars(Tick(t)) /\ WF_vars(GatewayAnswers(t))
    /\ WF_vars(WorkerWakes)
    /\ WF_vars(Start)
    /\ WF_vars(Stop)

FairSpec == Spec /\ Fairness

-----------------------------------------------------------------------------
TypeOK ==
    /\ StoreTypeOK
    /\ proc \in {"down", "up", "draining"}
    /\ pc \in [Tickers -> {"idle", "ready", "posting", "sleep"}]
    /\ batch \in [Tickers -> SUBSET QueuedEvent]
    /\ resp \in [Tickers -> {"none", "ok", "bad", "other"}]
    /\ backoff \in Nat \ {0}
    /\ ended \in [Tickers -> Endings]
    /\ ghosts \subseteq SUBSET accepted
    /\ nextEv \in Nat \ {0}
    /\ accepted \subseteq Nat \ {0}
    /\ delivered \subseteq accepted
    /\ rejected \subseteq accepted
    /\ setAside \subseteq accepted
    /\ faults \in Nat /\ restarts \in Nat

Settled == delivered \cup rejected \cup setAside

(* An event the store has taken is on disk until the gateway has ingested  *)
(* it or refused its batch as malformed, or the whole table was set aside  *)
(* as corrupt: no interleaving of ticks, lost answer, failing store call,  *)
(* crash or restart loses one (store.py dequeue_batch: "the rows replay on *)
(* next start").                                                           *)
NoSilentLoss == accepted \subseteq Evs(rows) \cup Settled

(* The gateway never ingests an event while an older one is still waiting  *)
(* for its first answer, although ticks overlap and abandoned requests     *)
(* arrive late (store.py: "ordering for free").                            *)
InOrder ==
    \A d \in delivered, e \in accepted : e < d => e \in Settled

(* Back-pressure: the table never outgrows its limit, restarts and         *)
(* retries included (store.py enqueue).                                    *)
QueueBound == Cardinality(rows) <= MaxSize

(* The ids a tick read before its await still name the rows it read, or    *)
(* nothing, when it acks or marks them after it: a concurrent tick that    *)
(* empties the table meanwhile, with new events inserted behind it, cannot *)
(* make an ack delete a row that was never sent (the AUTOINCREMENT of      *)
(* store.py's DDL).                                                        *)
StableIds ==
    \A t \in Tickers : \A r \in batch[t], q \in rows : q.id = r.id => q = r

(* A shutdown whose drain ran until it found the queue empty leaves no row *)
(* behind, whatever the worker does beside it (app.py's finally block).    *)
CleanDrain ==
    ended[Drain] = "empty" /\ kind = "real" => rows = {}

(* What the failures of any tick, a flush's included, have added to the    *)
(* worker's sleep is taken away by a batch that the worker itself ships or *)
(* by a new process, and by nothing else: not by a flush that succeeds, not*)
(* by a tick that finds nothing or raises.  A failure shortens the sleep   *)
(* only where the flush interval lies above _MAX_BACKOFF_SECONDS, which    *)
(* config.py allows, and then to that maximum (sender.py run_forever,      *)
(* _bump_backoff, one _backoff for the worker and every flush).            *)
OnlyShippingCalms ==
    [][backoff' < backoff =>
          \/ TickAcks(Worker)
          \/ "down" \in {proc, proc'}
          \/ backoff > MaxBackoff /\ backoff' = MaxBackoff]_vars

(* Every queued event leaves the queue in the end: transient failures,     *)
(* crashes, restarts and events the gateway calls malformed do not hold it *)
(* for ever.  Only an instance on the no-op store leaves the table alone.  *)
EventuallyLeaves ==
    \A e \in 1..MaxEvents :
        e \in Evs(rows) ~> (e \notin Evs(rows) \/ kind = "noop")

(* A shutdown completes: the drain returns and the worker, which never     *)
(* returns, does not hold the exit (app.py cancels it).                    *)
ShutdownEnds == proc = "draining" ~> proc = "down"

(* The pipeline keeps the promise of AuditLog: its log is the table, and an*)
(* event is settled when the history says so.                              *)
Log == INSTANCE AuditLog WITH
    Event <- 1..MaxEvents, queued <- Evs(rows), settled <- Settled

(* Every step of the coroutines, the gateway and the process is a step of  *)
(* the audit log or leaves it alone: an ack removes settled events only,   *)
(* the table survives the process, the gateway's answers settle the oldest *)
(* first (sender.py _tick with store.py).                                  *)
KeepsAuditLog == Log!Spec

-----------------------------------------------------------------------------
(* What the safety properties rest on: an invariant that every step keeps. *)

(* A process that is down runs nothing, the drain runs at shutdown alone,  *)
(* and a POST is the only thing a ticker carries rows or an answer for.    *)
TickersInv ==
    /\ proc # "draining" => pc[Drain] = "idle"
    /\ \A t \in Tickers :
        /\ proc = "down" => pc[t] = "idle"
        /\ pc[t] # "posting" => batch[t] = {} /\ resp[t] = "none"

(* The table holds accepted events, under ids no larger than seq, in the   *)
(* order in which they were accepted.                                      *)
RowsInv ==
    /\ \A e \in accepted : e < nextEv
    /\ \A r \in rows : r.id <= seq /\ r.ev \in accepted
    /\ \A r, q \in rows : r.id = q.id => r = q
    /\ \A r, q \in rows : r.id < q.id => r.ev < q.ev

(* Every event older than one of E is in E or settled.                     *)
Oldest(E) ==
    \A d \in E, e \in accepted : e < d => e \in E \cup Settled

(* A batch was the head of the queue when it was peeked, and an answer     *)
(* that acks it says that its events are settled.                          *)
BatchInv ==
    \A t \in Tickers :
        /\ \A r \in batch[t] : r.id <= seq /\ r.ev \in accepted
        /\ Oldest(Evs(batch[t]))
        /\ resp[t] = "ok" => Evs(batch[t]) \subseteq delivered
        /\ resp[t] = "bad" => Evs(batch[t]) \subseteq rejected

(* So was the batch of a POST that was given up.                           *)
GhostInv == \A g \in ghosts : Oldest(g)

IInv ==
    /\ TypeOK /\ TickersInv /\ RowsInv /\ BatchInv /\ GhostInv
    /\ StableIds /\ NoSilentLoss /\ InOrder /\ QueueBound
=============================================================================
