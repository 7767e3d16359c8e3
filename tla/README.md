# trustmodel-edge: formal models

TLA+ models of the TrustModel edge (`src/src/edge/`), the model-checking runs that
exercise them and the machine-checked proofs about them. Paths below are relative to
`src/src/edge/`. `PROJECT.json` maps every definition to the lines it models, lists the
runs, and lists the hazards of the code with the properties that watch them.

## 1. The system

The edge is one FastAPI process on one asyncio event loop, in a pod of the customer's
cluster. It fetches a tenant's policies from a control plane (the gateway), decides
agents' actions against them locally, and ships an audit event of each decision back.
Everything that must survive the pod lives in one state directory.

| component | state | operations | interacts with |
|---|---|---|---|
| **Telemetry store** `telemetry/store.py` | a SQLite table of queued events with AUTOINCREMENT ids and retry marks; a drop counter; a singleton that is absent, real or no-op | `enqueue`, `dequeue_batch`, `ack`, `mark_retry`, `size`, `get_store` (open, rotate a corrupt file, fall back to the no-op store), `reset_store` | called by decide, sender, health, metrics |
| **Telemetry sender** `telemetry/sender.py`, `routes/telemetry.py` | `_backoff`, one instance shared by the worker task, every flush request and the drain at shutdown | `run_forever`, `_tick`, `_bump_backoff`, `flush_now` | peeks and acks the store, POSTs to the gateway |
| **Policy cache** `policy/cache.py`, `policy/bundle.py` | a map of compiled snapshots, the primary's name, the time of the last success; `policy.json`, `policies/*.json` and `manifest.json` on disk | `load_from_disk`, `replace`, `replace_all`, `get`, `warm`, `is_warm` | written by sync, read by decide and health |
| **Policy sync** `policy/sync.py`, `policy/client.py`, `policy/jwt.py`, `policy/stale.py` | one fetch at a time | `sync_once` (single- and multi-policy), `warm`, `run_forever`, `fetch`, `fetch_all`, `status` | GETs from the gateway with a JWT minted from the identity, writes the cache |
| **Lifespan** `app.py` | the three background tasks | startup (enroll, load, warm, open the store, start the tasks), shutdown (drain, cancel, close) | owns everything else |
| **Decide** `routes/decide.py` | none of its own | authenticate, route to a policy, staleness gate, evaluate, enqueue the audit event | cache, engine, OAuth, store |
| **Rule engine** `engine/` | none | `compile_policy`, `evaluate` | called by cache and decide |
| **Identity** `identity.py`, `enroll.py`, `heartbeat.py`, `control_plane.py`, `routes/enroll.py` | four files (certificate, key, CA, metadata); `is_revoked`; the gateway's idea of the current key | enroll with a one-time token, heartbeat, rotate near expiry, mark revoked | the gateway; its files sign the tokens of sync, sender and OAuth |
| **OAuth** `oauth.py`, `routes/oauth.py` | a key pair cached at first use | issue and verify access tokens | identity's key, the primary policy's authorized clients |
| **Health** `routes/health.py` | none | liveness and readiness | identity, cache, store |
| **Metrics, logging, settings, payload** | counters; none | | |

### What is hard, and what makes each component correct

*Telemetry.* All code between two awaits is one step of the loop, but a tick awaits its
POST, and the worker, any number of flush requests and the shutdown drain tick on the
same table: the same rows are in flight several times, acked by ids read before the
await, after answers that come late, never, or twice. The disk fills, a POST times out
although the gateway ingested it, the pod dies between the answer and the ack, a file
found corrupt is set aside. Correct means: no accepted event is lost silently, the
gateway sees first deliveries in order, the table stays bounded, an id never changes
its meaning, a failing or malformed batch holds nothing up for ever, and a shutdown
ends.

*Policies.* A persist is a sequence of renames that a kill or an I/O error may cut
anywhere; two disk layouts coexist across a change of the feature flag; the memory is
swapped before the disk is written; a restart derives the age of what it loads from
file times. Correct means: readers see one catalog, the primary resolves, nothing old
passes as fresh, no policy goes backwards, a restart after a successful sync serves
what was synced, and the process catches up with the control plane.

*Identity, OAuth.* Four files written one after the other; a rotation whose answer is
lost; a revoked edge that must stop; a key cached by OAuth and replaced by a rotation.

*Lifespan.* Three tasks that share the files and the loop, created one after the other while
the first ones already run: the sync signs with files that the heartbeat loop rewrites, a
request signed before a rotation arrives after it, a task may be over or dead when the
shutdown awaits it. Correct means: no task ends another, readiness does not lie, a pod becomes
ready, a shutdown ends.

*Replicas.* The chart mounts one volume in two pods, three during a rollout. Each takes the
queue file for its own. Correct means, as far as a store written for one process can promise
it: the limit, the order and every event survive that, except where a rotation takes the file
away.

*Decide, OAuth and engine.* A decision depends on what was granted, listed, fetched and
loaded at four different times: a token is judged by what it says, the list of clients may
have changed since, the policy's age may come from a file, the fail mode and the policy mode
from another boot. Correct means: a decision has a recent grant behind it, and in the
fail-safe mode nothing old allows. The engine is a pure function whose meaning hides in a
sort and a first match: a deny at the best priority decides, an allow has a ground, and the
control plane's listing order does not matter beyond one priority and kind.

## 2. Plan

In order of importance to the system:

1. **Done.** `TelemetryStore` (the table and its methods), `TelemetrySender` (the
   coroutines and the gateway, composed with the store), `TelemetrySenderProofs`.
2. **Done.** `PolicyCache` (memory and files), `PolicySync` (sync, boot, control plane,
   composed with the cache).
3. **Done.** `EdgeIdentity` (enrollment, heartbeat and rotation over the four files and the
   gateway's record of the edge, and the key OAuth caches), `EdgeIdentityProofs`.
4. **Done.** `EdgeDecide` over `PolicyCache`: tokens, routing by `policy_name`, stale and fail
   modes; `EdgeDecideProofs`.
5. **Done.** `RuleEngine`: `compile_policy`'s sort and `evaluate`'s first match against what
   they are for, by sets and not recursion; `RuleEngineProofs`.
6. **Done.** `AuditLog`: the abstract promise of telemetry, which `TelemetrySender` implements
   (checked as a property, and proved).
7. **Done.** `PolicySyncProofs` (with `PolicyCacheProofs`): every safety property of
   `PolicySync`, from one inductive invariant.
8. **Done.** `EdgeLifespan`: startup, readiness and shutdown around the identity, and the
   policy sync that signs with its files while they rotate; it implements `EdgeIdentity`
   (checked and proved). `EdgeLifespanProofs`.
9. **Done.** `TelemetryReplicas`: several pods on one queue file, statement by statement;
   `TelemetryReplicasProofs`. Until a rotation comes underfoot it implements `AuditLog` too.
10. **Done.** `EdgeCredential`: the identity as one credential exchanged in one step, which
    `EdgeIdentity` implements until something is cut short (checked and proved).
11. **Done.** `PolicyTurns`: the cache as handlers and later boots meet it, with a sync in one
    step; `PolicySyncTurns` implements it (checked, and proved in `PolicySyncProofs`).

Not done: the verification of OAuth secrets; and what an audit event may contain
(`telemetry/payload.py`), which is a question about data and not about steps.

## 3. The modules

### TelemetryStore

The table is a set `rows` of `[id, ev]`: a row's id and the number of the decision it
records. `seq` is SQLite's sequence for the AUTOINCREMENT key; `marked` the ids with
`retries > 0` (the count and the error text are read by nobody). `kind` and `dropped` are the
singleton. Every method takes the lock, opens a connection and commits before it
returns, so in one process each is one step (`TelemetryReplicas` is about several):
`Insert` and `Drop` (enqueue), `Batch` (dequeue_batch, which leaves the rows in place), `Ack`, `MarkRetry`. The startup is `OpenAsLeft`, `OpenRotated` (the
file is corrupt, renamed, and a fresh one opened, or failing that the no-op store) or
`OpenNoop`; `Close` is `reset_store` or the end of the process.

### TelemetrySender

`pc` says where each ticker is: the worker, each concurrent flush request, and the drain
of the shutdown. `_tick` is cut at its only await: `TickStart` peeks and hands the rows to
the HTTP client, `GatewayAnswers`/`GatewayFails` produce the answer, `TickAcks` (2xx, 400,
422), `TickRetries` (anything else), `TransportError` (httpx.HTTPError, including a timeout
after the gateway has ingested) or `TickFinishRaises` (SQLite raises in the ack or the
mark) end it; `TickEmpty`, `TickMintFails`, `TickRaises` end it before the POST.
`TickReturns` is what the callers do with the result: the worker resets the backoff (`Rested`)
and goes on, or sleeps; `flush_now` goes on after a success, else returns. `ghosts` are the
POSTs given up, by a timeout, a 5xx of a proxy, a cancellation or a crash, that the gateway
may still ingest at any later time. `Shutdown`, `Stop`, `Crash` and `Start` are the process.
`ended` remembers how each ticker's last tick ended.

`accepted`, `delivered`, `rejected` and `setAside` are history: the events inserted, ingested,
refused in a 400/422 batch, and lost with a table renamed as corrupt. "Settled" is any of
the last three. An event that `enqueue` drops is not accepted: the code reports that with
its return value and a counter.

### PolicyCache and PolicySync

A policy is a name and the revision of the catalog it was published in. Files carry a
modification time. A file that is missing or cannot be parsed is skipped by the loader, so a file
that has gone bad is modelled as absent (`FileLost`). What the loader does not catch, an OSError on
a file it was told of or an exception of `compile_policy`, ends the startup (`BootRaises`), and the
kubelet starts the next one. `Swap` is the assignment to the
memory, `PersistLegacy`, `WriteFile`, `DropOrphan` and `WriteManifest` the renames of the two
persist functions in their order, `DiskImage` what `load_from_disk` leaves.

`PolicySync` runs one sync at a time (`warm` is awaited before the loop starts): the GET of
the plural or singular endpoint, the fallback on a 404 in `fetch_all`, the swap, each file,
the orphans, the manifest. `SyncFails` is a PolicyFetchError, `PersistRaises` an OSError of
a write, `MintRaises` an exception of the token's minting, which `_http_get` does outside its
`try`. `Kill` and `FileLost` are crashes and lost files, `Publish` the administrator. A boot
may change the feature flag (`MultiModes`), and the state directory may hold the
`policy.json` of an older image (`OldLegacy`).

A new catalog publishes all its policies under its revision, as the plural endpoint does
when it returns the whole set.

`PersistAll` and `PersistCutShort` are `_persist_manifest_to_disk` in one step, for the modules
that see the disk only before it and after: the files written, of the orphans all gone but those
whose unlink failed, the manifest last; or cut among the files, among the orphans, or before the
manifest.

### PolicyTurns and PolicySyncTurns

`sync_once` swaps and persists without an await, so no handler runs between its renames; but a kill
does come between them, and the next boot reads what it left. `PolicyTurns` is the cache in those
terms: `Sync` swaps an answer no older than what is served and stores it, by `PersistAll` or
`PersistCutShort`; `Ends` is a process that ends, in no sync or with
its persist cut short, the swap then unseen; `Boot` loads the disk, and only a process that has
nothing does (`Cold`). `PolicySyncTurns` adds to `PolicySync` a history
variable `turn`, the cache and its files when the loop last was free, which `Noted` keeps still
during a persist, and maps `PolicyTurns`' variables to it.

### EdgeIdentity

The gateway issues key pairs with their certificates; a pair is its number, and
`edgeOf[g]` is the edge generation `g` was issued to. It accepts the latest key of an edge
that is not revoked, and a bootstrap token once. `files` are the four files of the state
directory, each absent, torn or of a generation: `write_text` truncates before it writes,
so `persist_credentials` is eight half-steps (`Writes`), and a kill (`Kill`) or an OSError
(`CutShort`: `EnrollCut` ends the process, `RotateCut` the heartbeat task) may come between any two. `Boot` is `bootstrap_if_needed` up to the choice of
reusing (`Reusable`, `Loaded`: only meta.json is parsed, the rest need only exist) or
enrolling; `EnrollAccepted`, `EnrollRefused`, `EnrollFails` are the three ends of the call, the last with the
lifespan's exit status or, after a 201 whose body cannot be read, with the exception itself;
`Persisted` puts the new credentials in memory. The tick is `HeartbeatOk`, which may go on to
`RotateOk`, and its failures: `TickRefused` (a 401 or 403, or `revoked` in the body),
`TickFails` and `RotateAnswerLost` (the control-plane error the loop survives, or an exception it
does not). A key torn when it was loaded never reaches a tick: the first sync is minted before
the heartbeat task has run, and the JWT library's exception ends the startup (`StartupRaises`). `WarmRaises` is the same of a key
torn during the first sync, which may have to mint again; `EdgeLifespan` says when. The tick uses a synchronous client: nothing
else of the process runs until it ends, so the only other actors during it are the
gateway, an administrator and a kill. `IssuesAccessToken` is the OAuth endpoint's use of the
key, and `oauthKey` what `_key_state` caches. `cut` is history: a persist was cut short, or
the answer to a rotation lost. `exit` is how the last process ended.

### EdgeCredential

The same identity as the control plane and a reader of this repository's README think of it: an edge
holds one credential, everything is signed with it, `Rotate` exchanges it in one step, `Enroll` is for
an edge that holds none or an expired one, `Starts` and `Ends` are its process. `EdgeIdentity` maps
`held` to the key file, or during a persist to what is being written, and `signs` to the set of what
the heartbeat presents and the other tasks read. `KeepsOneCredential` is the promise of
persist_credentials' docstring ("Atomically") with the exception it needs, `cut`: it holds until a
persist is cut short or the answer to a rotation is lost, and `identity_torn` shows that it does not
outlive that.

### EdgeLifespan

Extends `EdgeIdentity`: every step that changes the identity is one of its steps, taken when the
lifespan has got there. `phase` is where `_lifespan` is, `sync` the policy request of `warm` or
`run_forever`, `signed` what its token says, `cache` and `stored` whether there are policies in
memory and on disk (`PolicySync` has the rest of them). `Boots`, `Enrolls` and `StartFails` are the
startup up to the heartbeat task; `Warms` the load and the mint of the first sync, with no await
before its GET, so that the first tick comes after it; `Beats` and `BeatGoesOn` the heartbeat task;
`SyncWakes`, `SyncSigns`, `SyncApplies`, `SyncDisturbed`, `SyncGivesUp` the sync, whose mint raises
past every handler; `PlaneAnswers` checks the token's key when the request arrives. `PlaneLacks` is
the 404 of a control plane without the plural path: `fetch_all` asks for the one policy and mints
again (`SyncFallsBack`), with the heartbeat's ticks between the two. What that mint raises ends the
sync task, or in `warm` the startup, unless it is EnrollmentMissing, a RuntimeError. `Sigterm`,
`DrainEnds` and `Exits` are the shutdown. `FreeLoop` is the one event loop: during a tick, which has
no await, no other task of the process runs, and the gateway does. `Ready` is `health_ready`.

### TelemetryReplicas

Where `TelemetryStore` has one process, this has a set of `Pods` on one path. SQLite makes each
statement atomic and `threading.Lock` does nothing between processes: `enqueue` is `Counts` and
`Inserts`, and both go through the connection opened for the first. `Opens`, `FindsLocked`,
`Renames`, `CannotRename` and `Degrades` are `get_store`: a pod that finds the database locked by
another takes it for corrupt and renames the file, or, when the rename fails, unlinks it. A new
table numbers its rows from 1, so tables are numbered (`live` is the one the path names) and a row
is `[tbl, id, event]`. A file renamed within the second of an earlier one replaces it (`gone`).

`_rotate_corrupt_files` moves three files, each with an error path of its own, and other pods open
the path in between. The database is `Renames` or `CannotRename`, the journal (-wal and -shm) is
`MovesJournal`, `LosesJournal` or `TearsJournal`. Between the two the journal of the table that has
lost its name is `loose`: moved after it, it keeps its rows; unlinked, or found by a pod that opens
the path first (`Opens`), it is lost with any rows not yet copied into the file (`JournalLost`). If
another pod has created its table by then, or the database could not be renamed, the journal that
is moved is that of a table in use, which is set back to some checkpoint (`torn`): rows acked since
may return, rows inserted since may go, ids be given again. What SQLite does with a journal that is
missing, or beside the wrong file, is the model's assumption about it, taken wide.

`Posts`, `Ingests`, `Refuses`, `Acks` and `TickFails` are the tick. The gateway refuses a batch with
an event of `Poison` whole, by a 400 or 422, and the pod acks it as it acks a 2xx: the events beside
the malformed one are deleted with it (`rejected`). `Acks` deletes by the ids alone in the table the
path names by then. `underfoot` is history: a rotation came while a POST was out, deleted a file, or
separated a table from its journal; `setAside` the rows that lay in a table when it was renamed.
Each pod has one request that enqueues and one sender; a POST given up here never arrives later
(`TelemetrySender` has those that do). `KeepsAuditLog` maps the pods to one `AuditLog`: `queued` the
events of the live table, `settled` those ingested, refused or set aside. An insert whose connection
outlived a rotation puts its event in a file nobody ships from; in the log that is a stutter.

### AuditLog

The abstract specification of the telemetry pipeline: a set of events queued and a set
settled. `Accept` adds an event younger than any known; `Settle` takes a set that leaves no
older known event unsettled; `Leave` removes settled events; `SetAside` is a corrupt log.
`TelemetrySender` maps to it with `queued` the events of the rows and `settled` the union of
`delivered`, `rejected` and `setAside`. The two state invariants `NoSilentLoss` and `InOrder`
speak of states; `KeepsAuditLog` says it of steps: that, whatever happens, nothing comes back to
the queue, nothing leaves before it is settled, and nothing is settled past an older event.
`TelemetryReplicas` implements the same log as long as no rotation has come underfoot.

### RuleEngine

A policy is a sequence of rules as the control plane lists them, each the record that
`compile_policy` parses (`tool`, the keys that must be present, the keys with a required value, an
attribute of the subject, the base action, the paths to redact, the priority). The sort is the
relation `Before` (priority, then `ActionOrder`, then the position, since Python's sort is
stable), and `evaluate`'s loop is `Firing`: of the rules that match, the one before all others.
`Publish` and `Ask` let the control plane list any rules and an agent ask anything, so that the
state is a policy and a request. `Get` is `dict.get`, which is why a rule that requires the value None matches an absent key.
`Resolve` has the no-op redact that turns into an allow. `DenyDecides`, `AllowHasGround` and
`ListingIndifferent` are stated without the sort and the loop, from the set of matching rules
and their priorities alone.

### EdgeDecide

What an agent meets, over time: a sync is one step (`PolicySync` has its steps, and `PolicyTurns`
shows that they come to this one), and so is each request, for both handlers run without an await. The
gateway's answers are numbered and dated; a revision in `PolicyCache` is the number of the answer
it came in. `SyncOne` and `SyncAll` receive, swap, and persist, wholly or cut at any file.
`Carried` is what the policies of an answer bring as their `authorized_clients`: nothing when the
plural endpoint answered. `Restart` loads the disk and may change `multi_policy_enabled` and
`policy_fail_mode`. `IssueToken` is the token endpoint for a client whose secret is right. `Decide`
is an operator, the set of answers a request may be given (empty: refused): the handler changes
no state but the audit queue. The verdict of an evaluation is left open, so that the results hold
of every policy. `lastGrant` is history.

## 4. The runs

| run | shows |
|---|---|
| `telemetry_safety` | no silent loss, order of first deliveries, stable ids, clean drain, a backoff that only a batch shipped by the worker takes away (`OnlyShippingCalms`), and the abstract audit log implemented, under every interleaving of worker, a flush, the drain, faults and a restart |
| `telemetry_live` | the queue stays within its limit; every queued event leaves in the end; a shutdown completes |
| `policy_modes` | the safety of the cache in both modes, with changes of mode, old gateways and old state directories |
| `policy_live` | the process ends up serving the last catalog, or its default policy in single-policy mode; and, seen from outside the loop's turns, each sync is one step (`KeepsTurns`, a refinement) |
| `identity` | one identity for the heartbeat and for the readers of the files; no refusal without a cause; issued tokens verify; a revocation is noticed, and told by the exit status; and, until something is cut short, one credential exchanged in one step (`KeepsOneCredential`, a refinement) |
| `rule_engine` | over every policy of up to three rules: a deny at the best priority decides, an allow has a ground, the listing order does not matter beyond one priority and kind |
| `decide` | a decision has a grant less than a token's life old behind it; in fail mode closed an allow comes from a policy fetched within the threshold |
| `lifespan` | around startup, rotations, syncs and shutdown: only a persist cut short ends the sync, a green probe means an accepted or a revoked edge, a pod becomes ready, a shutdown ends, and the identity keeps what `EdgeIdentity` says (`KeepsIdentity`, a refinement) |
| `telemetry_replicas` | two pods on one file: the limit is overshot by one row at most, nothing is lost but to a rotation or in a batch refused as malformed, the oldest is delivered first, whichever pod is left empties the queue, and until a rotation comes underfoot the pods are one audit log (`KeepsAuditLog`) |
| `telemetry_poison` (violated) | a permanent 4xx other than 400 and 422 is retried for ever and blocks the queue, though sender.py:10 promises an ack on 4xx |
| `identity_torn` (violated) | a kill among the four writes leaves a certificate and a key of different issues, and the next start uses them (identity.py:67 "Atomically write all four files") |
| `decide_hoisted_clients` (violated) | in multi-policy mode the list of clients never reaches the primary, so that no client can get a token (cache.py:117) |

The violated runs check one sentence of the code's own documentation each; the counter-
example is the finding of the same name in `PROJECT.json`.

Other disagreements met while modelling, with no run of their own: `_http_get` mints outside its
`try` (client.py:136), so an unreadable key passes through `sync_once`, which sync.py:45 says
"Never raises", and ends the refresh loop (`sync = "dead"` in `EdgeLifespan`, which
`SyncOutlivesRotation` confines to a persist cut short); heartbeat.py:102 says "Caller (lifespan)
reads state.revoked and triggers exit", and the lifespan reads it only after a SIGTERM that
somebody else has to send; the README of the repository (line 67) has `/health/ready` return 503
until "enrollment and the first policy sync", and policies left on disk suffice; store.py:3 relies on
a single writer, and the chart runs two pods and more on one volume; a file rotated as corrupt is
"not deleted" (store.py:120), but a second rotation within the second overwrites it, and a failing
rename deletes it; the idle worker sleeps
the backoff of an earlier failure, not the flush interval (sender.py:6), when a flush
emptied the queue meanwhile; a 200 whose body cannot be read ends the heartbeat loop,
although control_plane.py:25 lists a malformed body among the errors it survives;
the key OAuth caches for the life of the process is called immutable because rotation goes
through a "flow that restarts the process" (oauth.py:174), which heartbeat.py does not do (`TokensVerify` shows that the cache is what keeps
issued tokens valid); with
`telemetry_flush_interval_seconds` above 60, which config.py:87 allows up to 300, the first failure
shortens the sleep to 60 s (sender.py:156), where sender.py:13 has an exponential backoff "so we
don't hammer a flailing gateway" (`OnlyShippingCalms` has the speed-up as its exception and shows
that it stops at the cap); after the flag is switched off, a
restart still loads the old manifest and only the first sync corrects it
(`RestartServesLastSync` is stated with that exception); `app.py:11` says readiness gates on
`policy_warm_ok`, which `routes/health.py` does not read; the readiness gate is green when
policies are cached and none is primary; `telemetry/__init__.py:16` says rows are kept until
a 2xx, and 400/422 ack them too; a flush ends at its first failed tick, not when "the queue is
empty or the deadline passes" (sender.py:163), because a failed tick returns 0 as an empty one
does; a sync whose persist fails returns False with the new policies serving, where sync.py:8
says "the previous snapshot keeps serving"; a manifest that lists no policy lets `policy.json`
return at the next start, where cache.py:16 says "if absent"; after a persist was cut short
and the process restarted, the newest file's time vouches for the older policies beside it
(cache.py:259), so that in fail mode closed a policy older than the threshold of config.py:108 can
still allow (TLC finds it when `~Mixed` is dropped from `AllowIsRecent`); stale.py:7 and
decide.py:8 say that a fail-open allow is recorded in the audit log, and both paths return before
the enqueue; health.py:4 says ready "only when Edge can serve decide()", and decide answers 503
without a primary; cache.py:121 points to `_authorized_clients_shared`, which does not exist.

### Bounds

`TelemetrySafety`: a queue of 3, batches of 2, 3 events, one concurrent flush beside the
worker and the drain, one event the gateway refuses, 2 faults, 1 restart. Batches smaller
than the queue let two ticks carry different batches and rows be inserted behind them; a
worker, a flush and the drain give three simultaneous copies of a batch; two faults allow
a lost answer followed by a failing store. `MaxBackoff` 3 with `FlushInterval` 1 makes the
doubling meet the cap between powers of two; the interval is below the cap there, and
`ShippingAloneCalms` is proved for any. `TelemetryLive` has a queue of 2 for its 3
events, so that the queue fills and drops, and one fault. The theorems lift the safety
results to every size.

`PolicyModes`: two names, three catalogs, one fault, one restart, two instants and threshold 0,
both modes and a 404 gateway. Two names are enough for an orphan, a dangling primary and a
half-written set; three catalogs for a set to be replaced, interrupted and replaced again.
`CHECK_DEADLOCK FALSE` stands there because the sync task can die and everything else is
bounded. `PolicyLive` stands still in time (a persist takes none, and nothing else
in it depends on time) and has a gateway with both endpoints, two faults, so that an unlink may
fail in a sync that is cut short later, and a restart, in either mode.

`EdgeIdentityLive`: 2 tokens, 4 issues, 2 faults, 2 restarts. An edge can be enrolled, rotated
twice and enrolled again, with a persist cut short at any half-step and a second fault or
kill after the restart that loads what is left. `CHECK_DEADLOCK FALSE`: a process whose loop
has died has no step of its own left once the bounds are used up.

`EdgeLifespan`: 2 tokens, 3 issues, 1 fault, 1 restart, 1 failed policy request. A pod can enroll,
rotate once in the middle of its first sync, be killed or stopped anywhere and start again from
what it left, or rotate twice; a second restart adds interleavings of the same steps, and the
theorems have no bound. `CHECK_DEADLOCK FALSE`: everything may be over, the tasks dead and the
bounds used up.

`TelemetryReplicas`: 2 pods, a queue of 1, batches of 2, 4 events of which the second is refused, 2
faults, 1 killed pod. Two faults are two openings that find the file locked, hence two rotations,
the second of which may overwrite the first, or one rotation and one lost answer or journal; two
events overshoot the table and make a batch of a good one and a refused one, and two are left to
insert after its ack. A pod counts only while events are left, so that no handle outlives them. `CHECK_DEADLOCK FALSE`: with both pods on the no-op
store, or the events used up and delivered, nothing is left to do.

`RuleEngine`: policies of up to 3 rules out of 25, 12 requests. Two rules decide an order and a
third stands between or competes; the rules take both sides of every condition of `_matches`, an
unknown action, and a redaction that does and does not find its argument; two priorities. The
theorems have no bound.

`EdgeDecide`: two names, one client, two scopes, three lists, two answers, four instants with
`TTL` 2 and `Threshold` 1, one token, one restart. A token can be issued, its client be taken off
the list, and time pass to its expiry; a second answer can replace, or be mixed with, the first.
`CHECK_DEADLOCK FALSE`: everything is bounded, time included. `EdgeDecideHoisted` is the same with
multi-policy mode on.

All counters (`MaxEvents`, `MaxFaults`, `MaxRestarts`, `MaxRevisions`, `MaxAnswers`, `MaxTokens`, `MaxClock`) are bounds of
the environment, in the guards of the actions that use them.

### Fairness

`TelemetrySender`: weak fairness of each ticker's `Tick`: the loop runs every ready task and
the client's timeout ends every POST (`TransportError`, a fault, is among the steps of
`Tick`; weak fairness of `GatewayAnswers` is the gateway answering when faults are
exhausted); of `WorkerWakes`: a sleep ends; of `Start`: the kubelet restarts the pod; of
`Stop`: the lifespan's finally block continues when its drain has returned. There is none for
requests, deadlines, failures or crashes. Failures are finitely many, by their bound: with
endless failures no queue drains. `PolicySync`: `Boot`, `SyncStart` and the steps of a sync.
`EdgeIdentity`: `Step`, what the process does by itself: it is restarted, its loop's sleeps
end, its writes go on and its calls are answered; no fault, kill, revocation, expiry or
request is ever due, and a successful heartbeat, which alone changes nothing but may start a
rotation, is not in `Step`: when a rotation is due is for the gateway to say. `EdgeLifespan`: the
startup, the heartbeat task once it has something to do, the sync (its sleep ends, its request is
answered, refused or times out) and the shutdown (`flush_now` has a deadline, a cancelled task
ends), one weak fairness each because the loop runs every task that can run; not `Sigterm`,
failures, kills or what is outside. `TelemetryReplicas`, for each pod: `Opens` or `Renames`, since the
kubelet starts a pod and its startup goes on, `MovesJournal` with them, and the tick's `Posts`, `Ingests`, `Refuses` and `Acks`. `RuleEngine` and `EdgeDecide` have safety properties only.

### Mutants

Each property has a mutation of one mapped definition that violates it, as a plausible bug
of the code: `AckOnAny` acks whatever the answer, `NewestBatch` reads ORDER BY id DESC,
`ReusedId` leaves AUTOINCREMENT out, `FullPastMax` is off by one, `TickNotFull` waits for a
full batch, `RestedByAny` lets a flush reset the worker's backoff, `AckOnOk` forgets 400/422, `StopNoCancel`
does not cancel the worker, `MarkUpsert` revives rows; `PrimaryAsListed` trusts the
manifest's primary, `SwapMerging` updates the map in place, `LoadedNow` dates a load from
disk as a success, `FailReloads` reloads on a failure, `ManifestGrows` keeps old names,
`WriteFileBeside` leaves the old file, `FilesDoneByManifest` takes for orphans what the old manifest
does not list, `AnswerAllOnce` caches the first answer; `PersistedNotSwapped` forgets to swap the credentials in
memory, `HalfKeepsKey` leaves an existing key file, `KeyStateUncached` reads the key file every
time, `IssuesWithAnyKey` signs with whatever it holds, `RefusedRetries` takes a 401 for transient;
`RefusedRaises` lets EdgeRevoked out of the loop, `ReusableOnceTokenSpent` spends a mounted token
before it looks at the files;
`SyncSignsOnce` signs with the key read when the client
was built, `FreeLoopInThread` runs the tick in a thread, `ExitsUncancelled` awaits the heartbeat
without cancelling it, `ExitsClean` forgets how it ended; `NextIdReused` leaves
AUTOINCREMENT out, `FullPastMax` is off by one again, `BatchClaimed` leaves out what another pod is sending,
`BatchFull` waits for a full batch; `CloseRemoves` empties the table when the store is closed, `BeforeByPriority` sorts by the priority
alone, `FiringLast` lets the last match win, `RedactLast` leaves redact out of the order,
`NotNarrowed` grants what is asked,
`RestartLoadsAsNew` dates a load as a success.

## 5. The proofs

`TelemetrySenderProofs` proves, for every `MaxSize`, `BatchSize`, set of flushes, poison set and
bound, from the assumptions named in the modules (`MaxSizeAssumption`, `SenderAssumption`):

| theorem | states |
|---|---|
| `TypeCorrect` | `TypeOK` |
| `NoLoss` | `NoSilentLoss` |
| `FirstDeliveryInOrder` | `InOrder` |
| `Bounded` | `QueueBound` |
| `IdsStable` | `StableIds` |
| `ShippingAloneCalms` | `OnlyShippingCalms`, for an interval below or above the cap |
| `DrainsClean` | `CleanDrain` |
| `ImplementsAuditLog` | `KeepsAuditLog`: the steps implement `AuditLog` |

None of these is inductive alone. `IInv` adds what they rest on: rows are in the order of
acceptance and under distinct ids not above `seq` (`RowsInv`); a batch in flight was the
head of the queue, so that every older event is in the batch or settled, and an answer
that acks means its events are settled (`BatchInv`); the same holds of requests given up
(`GhostInv`); rows and answers are carried only by a posting ticker, and the drain exists
only at shutdown (`TickersInv`). The argument for `NoLoss`: an ack removes rows whose ids
the tick carries; by `StableIds` they are the rows it read; by `BatchInv` their events are
settled. For `FirstDeliveryInOrder`: a batch is a prefix of the rows in id order
(`BatchIsPrefix`), so by `RowsInv` and `NoSilentLoss` an older event outside it is settled
already, and settled events stay settled, so this is still so when the gateway, however
late, ingests it. The steps fall into few kinds, each with a lemma: ends of ticks, which
only remove rows and drop batches (`ShrinkingStep`, `TickEndStep`), steps that leave the
table alone (`QuietStep`), answers (`SettlingStep`), the enqueue, and the process.

`EdgeIdentityProofs` proves, for every number of tokens, issues, faults and restarts:

| theorem | states |
|---|---|
| `OneIdentityAlways` | `OneIdentity` |
| `AcceptedUnlessCut` | `StaysAccepted` |
| `TokensAlwaysVerify` | `TokensVerify` |
| `RevocationAlwaysTold` | `RevocationTold` |
| `OneCredential` | `KeepsOneCredential`: until a cut, the steps implement `EdgeCredential` |
| `TypeCorrect` | `TypeOK` |

Its `IInv` (in `EdgeIdentity`, so that TLC can check it too) adds: the
process and its loop go together, and a persist works on the last generation issued
(`LoopInv`); the files already written hold it (`WrittenInv`); and, unless a persist was cut
short, between persists the disk is empty or of one generation, the last of its edge
(`DiskInv`). `StaysAccepted` follows: the process presents what is on disk, and the disk is
current. That `DiskInv` survives a rotation is `PersistedStep`: after eight half-steps all
four files hold the generation issued last, so the gateway, which issues to this edge only
when this edge asks, has nothing newer. `RevocationTold` rests on `LoopInv`: `revoked` holds exactly
while the loop has returned, and a loop that has returned raises nothing. `OneCredential` takes an
accepted enrollment to `Enroll` and a rotation to `Rotate` at the gateway's answer, the half-steps and
the swap to stutters (the end of an enrollment to `Starts`), and needs `ReuseInv` besides: a process
enrolls for want of a credential, and a loop that died in no persist presents what is on disk
(`DiskIsHeld`). `LifespanImplementsIdentity` carries it to the whole process.

`ImplementsAuditLog` takes each step to one of the log: an enqueue to `Accept`, an answer or a late
arrival to `Settle` of its batch (which, being a prefix of what waited, is allowed), an ack to
`Leave`, a rotation of a corrupt file to `SetAside`, everything else to a stutter.

`RuleEngineProofs` proves, of every list of rules with integer priorities and every request:

| theorem | states |
|---|---|
| `DenyAlwaysDecides` | `DenyDecides`; `DenyAlways` lifts it to `DenyHasTheSay`, which the run checks |
| `AllowAlwaysHasGround` | `AllowHasGround`; `GroundAlways` lifts it to `NoGroundlessAllow` |
| `ListingNeverMatters` | `ListingIndifferent`; `ListingNever` lifts it to `ListingDoesNotMatter` |

`Before` is a strict total order (`BeforeIsStrict`, `BeforeIsTotal`, `BeforeIsTransitive`), and a
nonempty finite set of matching rules has a first one (`FirstMatchExists`): the sets of rules before
a rule shrink strictly along `Before`, and strict inclusion is well founded on finite sets. So the
choice in `Firing` exists and is unique. For the listing, a swap of two neighbours that the sort
tells apart is a renaming of positions under which matching and `Before` are kept
(`SwapKeepsOrder`), so the same rule fires.

`EdgeDecideProofs` proves, for every set of names, clients, scopes and lists, and every bound:

| theorem | states |
|---|---|
| `TypeCorrect` | `TypeOK` |
| `NoDecisionWithoutGrant` | `GrantBehindDecision` |
| `NoStaleAllow` | `AllowIsRecent` |

The inductive `IInv` (in `EdgeDecide`) adds: answers are dated and not in the future
(`AnswersInv`); every file is of an answer and carries its time (`DiskInv`); what is served came with
answers, one of which dates the last success (`ServedInv`, preserved by a restart because the
newest of the files loaded is a file); whoever may ask for `govern:enforce` now is noted as such, and
a token for it ends within `TTL` of that (`GrantInv`). `NoStaleAllow` follows: unmixed, all that
is served is of the one answer that dates the last success, which the staleness gate has tested.

`PolicySyncProofs` proves, for every set of names and modes, threshold and bound:

| theorem | states |
|---|---|
| `TypeCorrect` | `TypeOK` |
| `PrimaryAlwaysResolves` | `PrimaryResolves` |
| `NeverAMixture` | `ServesOneCatalog` |
| `FreshAlwaysFetched` | `FreshMeansFetched` |
| `StoredIsServed` | `RestartServesLastSync` |
| `NeverGoesBack` | `NeverBackwards` |
| `SyncIsOneTurn` | `KeepsTurns`: the steps of `PolicySyncTurns` implement `PolicyTurns` |

Its `IInv` (in `PolicySync`) adds: nothing served or stored is of an unpublished revision, nor is a
file younger than the last time its revision was received (`RevisionsInv`); what is served was
received at the last success or since (`DatedInv`); the answer that a sync holds is a whole catalog
or its primary alone, and nothing served is newer (`AnswerInv`); during a persist the memory is the
answer and the files not left to do are written (`PersistInv`). `RestartServesLastSync` is where they
meet: when the manifest is written, every policy of the answer has a file dated now and no orphan
is left, so the image of the disk is the memory (`ManifestCompletes`). `PolicyCacheProofs` has the
facts about `DiskImage` and about what a persist leaves in the directory (`PersistLeavesFiles`) that
this and `EdgeDecideProofs` cite.

`SyncIsOneTurn` rests on `TurnInv` (in `PolicySyncTurns`; TLC agrees with it): between turns `turn`
is the cache; during a persist the directory is the one of the last turn with the files done so far
written, or, past the files, with some orphans gone. While a persist is at work only its own steps
and the control plane can move: time, boots and lost files wait (`PersistIsUndisturbed`), so what `TurnInv` says of the directory in terms of `turn` is what
`Written` says of it in one step. Each step is then seen from outside: swaps and writes as stutters
(`SwapIsSeen`, `PersistStepNoted`), the step that ends a persist as `Sync` or, if the process dies of
it, `Ends` (`ImageIsSeen`, `CutIsSeen`), everything between persists as itself (`BetweenTurns`).
That an answer is never older than what is served, without which `Sync` would not be enabled, is
`AnswerInv` of the sync's own invariant. `PolicyTurns` has no bound, so it refutes nothing by being
out of steps.

`EdgeLifespanProofs` proves, for any number of tokens, issues, faults and restarts:

| theorem | states |
|---|---|
| `LifespanTypeCorrect` | `LifespanTypeOK` |
| `LifespanImplementsIdentity` | `LifespanSpec => Spec`: what is proved of the identity holds here |
| `SyncSurvives` | `SyncOutlivesRotation` |
| `ReadyIsAccepted` | `ReadyMeansAccepted` |

Each step of the lifespan is one of the identity or leaves it alone (`IdentityStep`), so the
identity's `IInv` comes for nothing; `LifespanInv` adds how the phases go with the process and that
a process no cut persist preceded has its files. A task that finds the loop free finds no persist
under way, so `DiskInv` gives it a key of one generation, the last of its edge (`SignsCurrent`):
it can sign, and the gateway takes it.

`TelemetryReplicasProofs` proves, for every finite set of pods, sizes and bounds:

| theorem | states |
|---|---|
| `TypeCorrect` | `TypeOK` |
| `BoundIsShared` | `SharedBound` |
| `NoOtherLoss` | `LossNeedsRotation` |
| `OldestAlwaysFirst` | `OldestFirst` |
| `ReplicasKeepTheLog` | `KeepsAuditLog`: until a rotation comes underfoot, the steps implement `AuditLog` |

`ReplicasInv` adds: a rotation that is due has a fault to its name, so the tables suffice; ids and
events grow together in each table (`SerialInv`); a POST carries a prefix of its table, of the live
one unless a rotation came under it (`PostsInv`); and the rows of a table and the pods that have
counted on it are together within the bound (`RoomInv`), for a pod can count only while there is
room and then is one of those waiting; of a table that a rotation tore it says nothing. `NoOtherLoss` follows as in one process: an ack deletes rows
by ids of the table they were read from, and those were ingested or refused. `ReplicasKeepTheLog` takes an
insert in the live table to `Accept` (its event is numbered last), an ingestion or a refusal to `Settle` of a
prefix (`PostSettles`), an ack to `Leave` (`AckLeaves`), a rotation to `SetAside`, and an insert
through a connection to a renamed file to a stutter (`InsertAccepts`).

The type invariants of `EdgeDecide`, `EdgeLifespan` and `TelemetryReplicas` are theorems and no run
repeats them: their runs check what is in doubt. The others are checked as well, each with a mutant.

Only model-checked: the liveness properties, `KeepsIdentity` among them for its fairness
(liveness under fairness and `ENABLED` are out of the prover's reach).

## 6. Assumptions and what is not modelled

- A crash is the end of the process, not of the machine: with WAL and synchronous=NORMAL
  a power loss may undo the last commits.
- `TelemetrySender`, `PolicySync`, `EdgeIdentity` and `EdgeLifespan` have one process on the state
  directory. `TelemetryReplicas` has several on the queue file; several on the credentials or the
  policies are not modelled. In `TelemetryReplicas` a journal is whole or gone, and a table without
  its own is what it was at some checkpoint: SQLite's recovery, and a file that it then finds
  malformed, are not modelled, nor is a POST that arrives after its pod gave it up.
- The exit status is what the lifespan raises; how uvicorn reports it is not modelled. In
  `EdgeLifespan` a policy file that is whole can be read (`PolicySync` has those that cannot).
- The code between two awaits is atomic: one event loop, and no threads touch the store.
- Times are abstracted to their ends: a sleep or a deadline may end at any moment.
- Payload contents, log lines, metrics, HTTP details and cryptography are not modelled; nor
  are settings parsing and the entry point, which keep no state.
- The gateway, which is not in this repository, is assumed to verify a signature with the
  latest key of the edge only, and to take a bootstrap token once (README.md:40).
- `EdgeDecide` takes the signing key to last and every process to be enrolled (`EdgeIdentity` has
  the key), a presented secret to be right or refused, and the clock not to run backwards. A
  token is minted whatever the age of the list: the code has no staleness check there.
- The constants' assumptions are named in the modules (`MaxSizeAssumption`, `SenderAssumption`,
  `NoneAssumption`, `IdentityAssumption`, `LostAssumption`, `RulesAssumption`, `ReplicasAssumption` and
  others) and evaluated by the runs.

### Not modelled

The audit payload (a dictionary built from a decision; pure), settings (declarations whose ranges
are constants here), metrics (counters nobody reads back), logging and the entry point (no state),
and the verification of OAuth secrets (a hash comparison). `PROJECT.json` says so for each.
