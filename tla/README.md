# DanuBaaS in TLA+

Specifications of the parts of DanuBaaS that keep state under concurrency and
failure, TLC runs that check them on small instances, and TLAPS proofs, for every
size, of every safety property those runs find true. Every definition follows the code under `src/`; `PROJECT.json` (`map`) names the lines
each definition stands for.

## 1. The system

DanuBaaS registers immutable sensor observations, evaluates water-level alert
rules on them, and notifies a webhook. Observations come in by two routes into one
PostgreSQL/TimescaleDB database:

    client -> Node-RED (REST) -> Go API  -> Store.Put -----------.
    client -> Node-RED (REST) -> MQTT -> Telegraf -> COPY trigger +-> sensor.events
                                                                  |      |
    GET /v1/values (paging) <------------- Store.List / Get <-----'      v
    rule edits, acknowledgments -> Store.SaveRule / acknowledge -> alerting.* <- evaluator job
                                                                         |
                                   webhook <- SendNotifications <- notification_outbox

| Component | State | Operations | Interacts through |
| --- | --- | --- | --- |
| Observation store (`internal/postgres/store.go`, migration 001) | `sensor.events`, `sensor.measurements`, identity `sequence` | `Put`, `Get`, `List` | advisory lock 7349202, one transaction per batch |
| MQTT SQL adapter (migrations 002, 003, 006) | the same tables, `sensor.rejected_messages` | `ingest_mqtt` trigger on Telegraf's COPY | lock 7349202, a subtransaction per document |
| HTTP values API (`internal/httpapi/api.go`, `internal/sensor/value.go`) | none | POST, GET by id, GET page | calls the store under a 10 s context |
| Alert rules and evaluator (migrations 004, 006, `internal/postgres/alerts.go`, `internal/httpapi/alerts.go`) | rules and versions, rule_state, condition_state, alerts, events, evaluator status | scheduled `evaluate_rules`, `SaveRule`, `SeedRules`, `acknowledge`, `ConfigureSchedule` | lock 7349203 (tried by the evaluator, waited for by edits), row locks on alerts |
| Notification sender (`internal/postgres/notifications.go`) | `notification_outbox` | claim, deliver, finish | rows with a lease, fenced by the attempt number |
| Server process and migration runner (`cmd/sensor-api`, `internal/config`) | process lifetime, `schema_migrations` | serve, shut down, migrate, seed | lock 7349201 |
| Node-RED ingestion (`deploy/nodered/ingestion.js`) | `pending` counter, MQTT client | `publish` | PUBACK callback against a 5 s timer |
| Dashboard sessions (`deploy/nodered/auth.js`) | session map, attempt times | login, logout, socket admission | an `await` between reading and writing the map |
| Grafana dashboard sync (`internal/monitoring`) | dashboard file, heartbeat | poll every 10 s | file rename, heartbeat file |
| Broker, Telegraf (`mosquitto.conf`, `telegraf.conf`) | a bounded queue, saved every 30 s; unacknowledged documents | configuration of external programs | at-least-once delivery |
| Host firewall trial (`security/debian/firewall.py`) | files, nftables, a systemd timer | try, confirm, rollback | flock, timer |
| Host firewall policy (`security/debian/render.py`) | the loaded table, conntrack | settings check, rendering, the checks of `try` | the kernel's hooks, Docker's address translation |
| Development bootstrap (`deploy/scripts/environment.py`, `setup.mjs`, `add-*-secrets.mjs`) | `.env`, secrets, certificates, rule file; the database volume | `make dev`: create what is missing, check, start, smoke test | files opened exclusively, Compose's own reading of `.env` |
| Test-data loader and fixture reset (`deploy/scripts/dev_test_data.py`, `e2e.py`, `reset_test_data.sql`) | observations, rules and alerts of the reserved sensors | reset, load, seed rules, verify alerts | both write routes, the admin API, lock 7349203 |
| Deployment (Grafana generation, Compose, Caddy, backups) | none beyond a step | generate, verify, back up | files |

What is hard in it, in one sentence each (`hazards` in `PROJECT.json` has the lines):

- sequence numbers are allocated before commit, so visibility order and number
  order agree only because of the writer lock;
- the adapter takes that lock inside a subtransaction whose rollback gives it back
  in the middle of a transaction;
- a commit can succeed although its client was told 503, and is then retried;
- the evaluator reads the clock before it tries its lock, cuts batches by sequence
  and processes them by observation time, and works on a snapshot while
  acknowledgments commit;
- a notification's lease may run out while its sender is still busy;
- a publication is answered 503 after 5 s while its packet stays with the MQTT client,
  which may send it again, and have it acknowledged, much later;
- a login awaits bcrypt between its attempt limit and its look at the sessions;
- a firewall trial spans several commands, a timer and files that outlive a command
  which is cut off between two of its steps;
- a packet to a published port meets the forward hook with a port that Docker has
  already translated, others meet the input hook, and Docker changes what is published
  at any time;
- `make dev` creates some ten files in two steps each, may be cut off or started twice at
  any point, and an existing credential must never be replaced;
- requests and messages of a killed test-data run are carried out during the next one, and
  its reset, which checks and deletes in separate statements, may go on without it.

What makes each component correct:

- *store*: no reader skips a row, acknowledged observations are stored as
  acknowledged, refusals are true, documents are all or nothing, locks come back;
- *evaluator*: states, alerts and histories agree; no arrival is passed over or
  counted twice; severities follow thresholds, hysteresis and hold; edits leave no
  alert of an old version firing; every arrival is looked at in the end;
- *outbox*: at-least-once, final marks, no concurrent delivery within a lease;
- *publisher*: one answer per request, `pending` exact, 202 only for what the broker
  has, capacity comes back;
- *sessions*: no session or connection after logout, replacement or expiry, capacity
  and attempt limit under concurrent logins;
- *firewall*: no unconfirmed policy without a rollback, none left behind, the boot
  configuration changes as a whole and only to a tested policy;
- *firewall policy*: exactly the documented services are reachable whatever Docker does, and
  a trial keeps its administrator's access;
- *bootstrap*: credentials are never rotated, nothing half made is started, whoever runs
  services can log in to them, reported success is true, a rerun heals;
- *test data*: an operator's data survives a reset, a report names this run's evidence, a
  reload succeeds from whatever state earlier runs left;
- *dashboard sync*: a heartbeat only after a good dashboard.

## 2. Modules

| Module | What it is |
| --- | --- |
| `ObservationLog` | abstract specification: an append-only log and gap-free cursors |
| `ObservationStore` | `Put`, `ingest_mqtt`, `List`/`Get` with connections, the writer lock, subtransactions, lost clients |
| `ObservationStoreProofs` | theorems about `ObservationStore` |
| `AlertEvaluator` | evaluation runs, `SaveRule` with its triggers, `acknowledge` |
| `AlertEvaluatorProofs` | theorems about `AlertEvaluator` |
| `NotificationOutbox` | `SendNotifications`, `ClaimNotification`, `FinishNotification` |
| `NotificationOutboxProofs` | theorems about `NotificationOutbox` |
| `MqttPublisher` | `publish`, the MQTT client, broker, Telegraf, the adapter in one step |
| `MqttPublisherProofs` | theorems about `MqttPublisher` |
| `FirewallTrial` | `try`, `confirm`, `rollback`, the rollback timer, killed commands, reboots |
| `DashboardSession` | login, logout, pages and Socket.IO connections of the dashboard |
| `DashboardSessionProofs` | theorems about `DashboardSession` |
| `HostPolicy` | the packet filter `render.py` renders, Docker's translation, trials |
| `HostFirewallProofs` | theorems about `FirewallTrial`, about `HostPolicy`, and about both together |
| `Bootstrap` | `make dev`: files, secrets, certificates, start and smoke tests |
| `BootstrapProofs` | theorems about `Bootstrap` |
| `FixtureLoader` | `make dev-test-data`: reset, loading, rules, alert verification |
| `FixtureLoaderProofs` | theorems about `FixtureLoader` |
| `MC*` | instances for TLC |

**ObservationStore.** One action per statement or outcome. `Begin` is a POST that
passed the handler's checks, or a COPY; `TakeLock` is `pg_advisory_xact_lock`;
`WriteItem` one turn of the insert loop of either route (`INSERT ... ON CONFLICT DO
NOTHING`, which consumes an identity value even on a replay); `EndDocument` the end
of the loop; `Refuse` is `ErrConflict` and 409; `Quarantine` the exception handler of
the trigger; `Commit`, `LoseClient` (context over, connection lost) and `Abort` the
ends of a transaction. `ReadPage` is GET with its probe row. `events` is what is
visible; `rows` and `done` are what the current document and the earlier documents
of the transaction have written. A session whose client is gone can be granted the
lock and, on the MQTT route, run its COPY to the end. A document's content is a
member of `Bodies`, or `Bad`; two contents are equal or different, which is all that
`payload=$2::jsonb` and `existing <> canonical` look at. `acked`, `refused` and `seen`
are history variables.

**AlertEvaluator.** `Schedule` reads the clock; `Busy` and `Start` are the two
outcomes of the try-lock; `NextRule`, `EvaluateItem`, `FinishRule` are the loops of
`alerting.evaluate` on the private copy `job.work`; `CommitJob` and `AbortJob` end the
run. `BeginSave` takes the lock, `RejectSave`/`ApplySave`/`AbortSave` are the outcomes
of `SaveRule`, the triggers `audit_rule` and `rule_changed` included. `BeginAck`
locks the row and takes an event id, `CommitAck` and `AbortAck` follow. Row locks
are derived: the evaluator holds the alerts of its uncommitted events (every change of
an alert writes one), also when a later event gives the row its old values back. Rises are compared
after multiplying with the time difference, so no fractions are needed. Times are
whole seconds; `from`, `handled` and `used` in `track` are history.

**NotificationOutbox.** Due times are the seconds left. `held` is how long a
sender's lease still runs; `Tick` may let it end while the sender is busy, because
only the webhook call (10 s) has a timeout, the statements around it have none. A claim takes
the first due row, but for as many as other senders' statements may have locked at that
moment (`SKIP LOCKED`). `spoiled` counts deliveries, not failures: one whose answer is lost,
whose record fails or is cut off by a crash, which is not recorded when its lease ends, or
which is made after that.

**MqttPublisher.** `Refuse`, `Publish` and `PublishThrows` are the ways through the
first half of `publish`, up to `client.publish`; JavaScript runs them without
interruption. `Timeout` is the 5 s timer, `Done` the callback, called by a PUBACK
(`Acknowledge`) or an error (`GiveUp`); `completed` is `c \notin open`, `settled` is
an answer other than "waiting". `Connect` sends again what is unacknowledged. The
rest is external and taken from the configuration: a queue of at most
`max_queued_messages`, in which each copy of a packet counts, saved by `autosave_interval` (`Autosave`, `CrashBroker`), and a
Telegraf that acknowledges after its COPY, or has to take a document again. `Ingest`
is the adapter of `ObservationStore` for documents of one observation in one step;
`PutByApi` a write by the other route.

**FirewallTrial.** One action per external call or file write of `firewall.py`, in its
order, under the flock. `Elapse` is the systemd timer, which runs `rollback` as a
process of its own (`Unit`) that waits for the lock like everyone else. Each call can
fail if `Fallible` names it. `Kill` ends a command between two steps and frees the
lock: SIGKILL, a closed terminal, or KeyboardInterrupt, which `except Exception` does
not catch. The `nft` or `systemctl` such a command was waiting for is a process of its own;
it is taken to be done, or not to have begun, before any other command or the timer goes on.
`Reboot` empties `/run` and loads the boot file if the service is there and
enabled. `lived`, `agreed`, `confirmed`, `stuck` and `torn` are history.

**DashboardSession.** A handler is a step, except login, which is two: `Login` or
`Throttle` up to the first pause, then `Reject`, `Accept` or `Full`. In between every
other handler may run. Cookies are any token ever issued, whether its session lives or
not. `Tick` is the clock, `Timer` the timeout of a connection, which may come late.

**HostPolicy.** `Valid` is `load`, `From` is `source_rules`, `InputAccepts` and
`ForwardAccepts` are the chains of `firewall` as predicates on a packet, `Accepts` chooses
the hook the packet meets. `Natted` and `Destination` are Docker's PREROUTING rules for TCP and
UDP, which `Publish` changes at any time (external); packets of known connections pass (`flows`).
`TryPolicy` has the check of `SSH_CONNECTION` in `firewall.py:79-85`; `ConfirmPolicy` and
`RollbackPolicy` are the ends of a trial, whose individual steps are in `FirewallTrial`. No
name is one of `FirewallTrial`'s, so that a module can extend both. `Permitted` is the README
of `security/debian`, stated from the packet's point of view before translation. The rule for
DHCPv4 asks for no version of the protocol, so neither does `Permitted`; and a DHCP answer to a
port that Docker has published is not for the host, and is dropped.

**Bootstrap.** One process per `make dev`, one action per step that changes the disk or the
stack. `Create` opens the next file exclusively and `Fill` writes it, so a cut in between
leaves it empty; `strict` tells `setup.mjs`, which fails on an existing file, from the
`add-*-secrets` scripts, which preserve it. `LookAround` chooses between a first setup, an
upgrade and a refusal. A secret's content is the run that generated it, which is what
rotation, and agreement of passwords with hashes, are about. `UpDatabase` is initdb, which
takes passwords only for a new volume. `Post`, `PostLost`, `Get` and `GetInVain` are
`smoke_development` and its retries. `CutOff` ends a run anywhere. `Discard` and
`RemoveEmpty` are what an operator can do about a reported failure while nothing runs.

**FixtureLoader.** `Script` is the sequence of `main` after its reset, for one level and one
rise scenario of a severity chosen at first. The reset is a transaction of its own, one
action per statement of `reset_test_data.sql`, under READ COMMITTED: `gone` and `rules` are
what it has deleted and not committed. `Abandon` is a request whose client stopped waiting;
what it asked for may still happen (`Deliver`, `DeliverRule`). The store, the broker and the
evaluator are single steps here, taken from `ObservationStore` and `AlertEvaluator`; once an
operator's reading is on a sensor, its evaluation may end in any of the ways in which that
reading is evidence, baseline or the end of an alert (`Mixed`). Left out: identity values, the
legacy demo sensors, and histories that differ because runs start in different hours. The reset
of a killed run is assumed to have asked for the lock before the next run's does, and
PostgreSQL's queue then serves it first.

## 3. Runs

The runs of the store, the evaluator, the outbox, the sessions and the firewall policy check
deadlock too. Those of the publisher, the firewall trial, the bootstrap and the fixtures do
not: once the bounded calls, commands or runs are used up, these components are idle, as
they are in the program. No run uses symmetry, since nearly all check liveness too.

| Run | Question | States | Time, 2 workers |
| --- | --- | --- | --- |
| `store` | safety and refinement of the store; does every transaction end? | 253,562 | 135 s |
| `alert_edits` | runs, edits, acknowledgments and rollbacks interleaved; is every arrival looked at? | 787,514 | 160 s |
| `alert_levels` | thresholds, hysteresis and hold over longer sequences | 3.2 M | 60 s |
| `outbox` | marks, leases and repetitions; is every event delivered? | 80,105 | 14 s |
| `publisher` | answers, counting, what 202 promises; does capacity return, do accepted documents land? | 183,979 | 32 s |
| `firewall` | is anything left behind, is the boot configuration whole and tested, does every unconfirmed trial end? | 1.6 M | 140 s |
| `firewall_cut` | is it tested even if a command is cut off? Violated, see below | | 1 s |
| `policy` | does the table let in what is documented, does the administrator keep access? | 169,792 | 41 s |
| `bootstrap` | credentials, truth of success, recovery of `make dev` | 198,284 | 80 s |
| `fixtures` | the operator's data, truth of reports, recovery of the loader | 89,634 | 54 s |
| `fixtures_lost` | does the reset keep every observation of the operator? Violated, see below | | 2 s |
| `sessions` | sessions, connections and limits across the `await`; are expired connections closed? | 355,464 | 25 s |

Bounds, and why they suffice:

- *store*: two connections are enough for every pairwise race on the lock; two
  identifiers with two contents give replays and conflicts, within one document,
  across documents of one COPY and across routes; `MCSubmissions` holds malformed,
  invalid and conflicting documents before and after good ones. `MaxSeq` stops new
  transactions once its numbers are used, the open ones may use more.
- *alert_edits*: one rule, an enabled and a disabled parameter set, two versions,
  arrivals that are late, on time or ahead, batches of one (so that a backlog needs
  several runs), readings at 0, critical, and of another type. `MaxEvent` stops
  rollbacks once the identity has passed it: runs before the first event and the first
  acknowledgment may be rolled back, at any point, later ones would only repeat that.
- *alert_levels*: parameters with and without hold, readings below, in the critical
  band and at critical, batches of two, four points of time. No edits after the
  first and no acknowledgments: those are `alert_edits`.
- *outbox*: two senders and two rows, a lease longer than the first backoff as in
  the code (60 s against 2 s), backoff capped (10 doublings in the code, 1 here),
  `MaxFaults` failures of any kind, anywhere.
- *publisher*: two calls with one identifier are an original and its retry or a conflict;
  `Limit` 1 and `QueueLimit` 2 are reached; three failures of any kind combine a crash, a
  reconnect and a restart.
- *firewall*: two policies and two administrators beside the timer; four commands hold a
  try, its confirm, a second try and one that disturbs them; one cut-off command and one
  reboot, anywhere.
- *policy*: a home network and everyone for IPv4, a home network for IPv6; two valid
  settings, one with an SSH port that an application has, one that admits all as
  administrators; published TCP ports that keep their number, and 68 translated to 443, for one
  version or for both; published UDP ports, the DHCP client's among them; external, bridge and
  loopback interfaces. One connection at a time: a
  second only matters through `flows`, in which it changes nothing.
- *bootstrap*: a fresh machine and one with an installation from before Telegraf and
  alerting had secrets; two runs, overlapping or in sequence, so that the second is also the
  recovery of the first; two attempts of the smoke test, one edit of `.env`, two faults.
  `QuietStart` says of a run that is left alone from its beginning that it starts the stack;
  it is told from one that is disturbed by the number of faults and edits up to then, whatever
  that is. So it speaks of a first setup on an empty disk, of an upgrade, and of the first run
  after either was cut off, which TLC all reaches with faults and edits to spare.
- *fixtures*: two runs, so that the second meets everything the first left; one write of the
  operator, two faults (a kill and a lost answer, or one of each with a failing reset).
  `QuietReload` tells a run that is left alone in the same way. The safety properties hold of
  three runs as well (702,530 states).
- *sessions*: two concurrent logins for two attempts per window, and for two places in
  the map; three tokens, so that a session can be replaced and capacity run out; one
  connection at a time; five points of time are two lives of a session; one restart.

The properties of each run are listed in `PROJECT.json` and explained where they
are defined (an invariant named after its component contains the type invariant). Each has a
mutant: a one-operator regression, kept beside the operator it replaces, under which TLC
finds the property violated. They are the plausible mistakes: writing without the lock,
dropping the payload comparison or the attempt fence, cutting the batch by time, counting
down at the timeout, matching the translated port, opening secrets with another flag, a
reset without the lock, and so on.

**What `firewall_cut` shows.** `firewall.py:111` says: "Install persistence only after
the administrator has tested a new connection." The marker of a trial is written
(line 95) before its timer is started and its policy loaded (97, 99), and `confirm`
looks at nothing but the marker (109). If `try` is cut off in between, a following
`confirm` persists, and enables for boot, a policy that was never live. The
administrator would have to confirm a trial whose start was not announced, so this is
a divergence from the comment rather than a broken host. `PersistedUnlessCut` in
`firewall` shows that the comment is right as long as nothing is cut off and a
failed `try` can take its marker back: if `systemd-run` or the load fails and then
restoring the old rules fails too, the marker stays as well.

**What `fixtures_lost` shows.** `docs/test-data.md:62` says that the reset "refuses to
proceed if reserved sensor IDs contain non-fixture observations". Its check
(`reset_test_data.sql:14-27`) and its deletions (40-41) are separate statements under READ
COMMITTED, with lock 7349203, which keeps out the evaluator and rule edits but not the writers
of observations (lock 7349202). An observation that an operator stores on a reserved
sensor in between is not seen by the check and deleted with the fixtures. `OperatorKept` in
`fixtures` shows what does hold: nothing of the operator's that was there when the reset got
its lock is ever deleted, nor any rule, nor anything on other sensors.

## 4. Fairness

- `ObservationStore!FairSpec`: the server runs the next statement, or notices a lost
  client and rolls back (WF). `SF` on the lock: PostgreSQL queues waiters in order,
  so none is passed over for ever. Clients owe nothing; they may leave at any time.
- `AlertEvaluator!FairSpec`: the job is scheduled again and again, and a run, an edit
  and an acknowledgment that have begun go on (WF). The try-lock has no queue, and
  without a further assumption TLC shows a behaviour in which an edit is open
  whenever a run starts; so edits and cut-off runs are assumed to cease in the end.
  This is an assumption about operation, not about the code.
- `NotificationOutbox!FairSpec`: time passes and senders go on (WF); the webhook and
  the database fail a bounded number of times (`MaxFaults`).

- `MqttPublisher!FairSpec`: the client reconnects (`reconnectPeriod`), and client, broker
  and Telegraf go on (WF); failures are bounded (`MaxFaults`). Nothing is assumed of
  callers, of the timer or of the autosave.
- `FirewallTrial!FairSpec`: the systemd timer elapses, and a command that was given goes on
  unless it is cut off (WF). Commands are bounded, so nobody waits for the flock for ever.
- `DashboardSession!FairSpec`: time passes and timers fire (WF). Nothing is assumed of users.
- `Bootstrap!FairSpec`: a `make dev` that was given goes on unless it is cut off, and the
  broker's documents arrive (WF). Operators and new runs are nobody's duty.
- `FixtureLoader!FairSpec`: the loader and its psql go on, the evaluator is scheduled, the
  broker and abandoned requests are carried out (WF). Kills and failures are bounded.

## 5. Proofs

`ObservationStoreProofs` proves, for every value of the constants that satisfies
`StoreAssumption` (contents differ from `Bad`, `None` is no session, submissions are
sequences of documents, the bounds are numbers):

| Theorem | Statement |
| --- | --- |
| `TypeCorrect` | `Spec => []TypeOK` |
| `StoreInvariant` | `Spec => [](StoreInv /\ NoSkip)` |
| `PaginationNeverSkips` | `Spec => []NoSkip` |
| `CommitsAppend` | `Spec => AppendAbove` |
| `StoreImplementsLog` | `Spec => LogSpec` |
| `TruthfulAnswers` | `Spec => []AnswersJustified` |
| `CommitsWhole` | `Spec => WholeDocuments` |

The argument. `NoSkip` is not inductive: a commit could add a row below a cursor.
Cursors are numbers of visible rows (`CursorInv`), and uncommitted rows lie above all
visible ones (`SequenceInv`), so a commit adds only above every cursor. `SequenceInv`
survives a commit of another session only if no one else has uncommitted rows,
which is the lock: whoever has rows to commit holds it (`LockInv`). The delicate case
is the quarantine, where a subtransaction gives the lock back: the session then has
no rows left unless an earlier document of the same COPY was accepted, and in that
case (`KeepsLock`) the lock stays. `PositionInv` ties document numbers to the
submitted documents, `UniqueInv` carries the uniqueness the refinement needs,
`FiniteInv` that pages can be counted. The step lemmas follow these conjuncts
(`TypeStep`, `PositionStep`, `LockStep`, `RowsStep`, `FiniteStep`, `CursorStep`).

What clients are told needs to be known before they are told it, while the transaction is
open: that is `TransactionInv`. The rows of the current document are observations the loop
has passed, and all it has passed are visible to the session (`LoopRows`); the same holds of
the accepted documents and the rows kept for them (`AcceptedRows`); each quarantined document
has its reason among the rows that will stay (`RejectedRows`). The last is the delicate one:
a document is compared with its own rows too, which its quarantine removes. But no identifier
occurs twice in a document that passed the checks (`LoopInv`), so a contradiction is always
with a row that outlives it (`ConflictStays`); for `Put`, which writes one document, with a
committed one (`PutKeepsNothing`), which is what a 409 says. At COMMIT `CommitStores` reads
off all three answers, and `WholeDocuments` with them. Contents are never changed, so they
stay true. TLC checked this invariant (`AnswerInv`) on the instance of `store` first.

`MqttPublisherProofs` proves, for every value of the constants that satisfies
`PublisherAssumption` (the limits are positive, `None` is neither a document nor a
content; `Calls` may be infinite):

| Theorem | Statement |
| --- | --- |
| `PublisherInvariant` | `Spec => [](TypeOK /\ PublisherInv)` |
| `CounterExact` | `Spec => []CountInv` (`TypeOK` and `PendingExact`) |
| `AcceptedNeverLost` | `Spec => []AcceptedReached` |
| `StoredOnce` | `Spec => FirstStays` |
| `OneAnswer` | `Spec => AnsweredOnce` |

The argument. A PUBACK turns into 202, so what 202 promises must already hold of a
PUBACK under way (`AckInv`); and it must hold of whatever can be redelivered that its
document is known (`DocInv`). `Reached` survives each step because a copy leaves the
queue only by `Ingest`, after which the document is stored or quarantined
(`IngestLands`), and both last: stored contents are never changed (`StoreGrows`), the
quarantine only grows. A crash of the broker is the one exception, and what it loses
is in `lost`, but for the packets the client still has: these have not been answered
(`OpenInv`). `CountStep` shows that the count moves with the set of packets; that this
set is finite although `Calls` need not be is part of `OpenInv`. `OneAnswer` needs
`OpenInv` too: a call that is tried again was never answered by its callback, and
`Settle` leaves a timed-out one alone.

`FixtureLoaderProofs` proves, for any number of runs, of the operator's writes and of faults
(`FixtureAssumption`: the bounds are numbers):

| Theorem | Statement |
| --- | --- |
| `ReportsTrue` | `Spec => []FixtureInv` (`TypeOK` and `ReportTruthful`) |
| `OperatorSafe` | `Spec => OperatorKept` |

The argument. Neither is inductive. `HolderInv` says that only the reset with the lock works,
that what it deletes is on reserved sensors, and that past its check it has found nothing of
the operator's and meets no rule of his: rules are written only when nobody has the lock, so
the check of rules stays true until the commit, and that of observations says only what was
there when the lock was taken. A report needs more: nothing is deleted while a run loads.
`OrderInv` has the reason, resets are served in the order of their runs, so that the one a
run waits for is the last. `ProgressInv` then collects what a run has seen done; a stored
observation, a rule that exists and an active alert are taken away by a reset only
(`ProgressFrame`). `OnlyCommitDeletes` is the other half of `OperatorSafe`.

`AlertEvaluatorProofs` proves, for any number of rules, savers, acknowledgments and parameter
sets, any readings and times and any batch size (`AlertAssumption`: parameters satisfy the
table's constraints, values and times are integers, a batch takes at least one reading, the
names differ from `None` and from each other, the bounds are numbers):

| Theorem | Statement |
| --- | --- |
| `Inductive` | `Spec => []IInv` |
| `Alerts` | `Spec => []AlertInv` (types, `ConditionsMatchAlerts`, `HistoryWellFormed`, `StaleExact`) |
| `ActiveAlerts` | `Spec => []ActiveIsCurrent` |
| `Positions` | `Spec => []PositionExact` |
| `TruthfulLevels` | `Spec => []LevelTruthful` |
| `HeldLevels` | `Spec => []HoldRespected` |
| `EventOrder` | `Spec => EventsInOrder` |

The argument. The properties speak of the committed tables, and what a run commits is its
private copy; so each part of the invariant is stated of both. Of a copy it says that it is
`Good`: an active alert is current, conditions and alerts match, and each alert's history is
well formed *in the copy's events together with those committed since the copy was made*.
That is what lets acknowledgments commit in the middle of a run. The operators a run is made
of (`ClearPending`, `Enter`, `Transition`, `Accept`) take a good copy to a good one that only
adds alerts and events (`Ready`, `Advances`), so the body of the loop is reasoned about once,
however many readings a batch has.

- *Row locks.* An acknowledgment's id may be larger than ids a run has still to give out, and
  the reverse. `AckInv` and `OrderInv` say why histories are in order all the same: an
  alert with an open acknowledgment has no uncommitted event, its id lies above every
  committed event of its alert, and uncommitted events lie above the committed ones of theirs.
- *Positions.* A batch is cut by sequence and processed in time, so the position moves by
  maxima. `PositionInv` keeps, while a batch is under way, that everything at or below the
  position or any reading of the batch is handled or still in the batch; it becomes the
  property when the batch is empty. That a batch is closed downwards (`ArrivalsClosed`) is
  where the cut by sequence is used; cut by time, the proof stops here, as the mutant does.
- *Levels.* `LevelTruthful` and `HoldRespected` are about all readings a rule has used, the
  stored condition about the last one. `LevelOf` relates them: `Over` for what thresholds and
  hysteresis say, `Spanned` for the hold behind a severity, and, for a hold that is running,
  that no reading since `since` was below the threshold of the pending severity. Readings are
  used in the order of their times, so one more changes each by one case (`LevelGoesOn`).
- *Missing data.* `StaleInv` ties the stale condition to the time of the run for each rule the
  run has finished. Edits cannot come between, as they need the evaluator's lock (`LockInv`).

`IInv` without its types was checked with TLC on the instances of both alert runs first.

`NotificationOutboxProofs` proves, for any number of rows, any batch, lease, cap of the
backoff and number of failures (`OutboxAssumption`: these are positive numbers, the number of
failures may be 0; there are finitely many senders; `None` is not a claim):

| Theorem | Statement |
| --- | --- |
| `Outbox` | `Spec => []OutboxInv` (types, `DeliveredReceived`) |
| `Exclusion` | `Spec => []LeaseExclusive` |
| `Repeats` | `Spec => []RepeatsExplained` |

The argument. `FenceInv` is the fence: claims on a row have distinct attempt numbers, none
later than the row's own, only the latest can be within its lease, and the row is not due
before that lease ends; hence a new claim means that all earlier ones are overdue.
`RepeatsExplained` counts, and is not inductive: a sender within its lease delivers before the
row is marked. `AccountInv` has these deliveries as credits: what the webhook received is at
most the spoiled deliveries, plus those in hand, plus the mark. By the fence at most one is in
hand, and none once the row is marked.

`HostFirewallProofs` has two components. Of `FirewallTrial` it proves, for any policies and
administrators, any set of calls that may fail, and any number of commands, kills and reboots
(`TrialAssumption`: the bounds are numbers, the timer's unit is no administrator, `None` is no
policy and no process):

| Theorem | Statement |
| --- | --- |
| `Trials` | `Spec => []TrialInv` (types, `Settled`, `BootConfirmed`) |
| `Armed` | `Spec => []RollbackArmed` |
| `Persisted` | `Spec => PersistedUnlessCut` |

The argument. The properties speak of the pauses between commands. `Stage` says what a
command relies on at each of its steps, `Progress` how far a confirm or its undoing has come;
both are about one command at a time because only the holder of the flock is at a step. So
whatever cuts a command off leaves a state that the next one, or the timer, can start from:
`ArmedInv` (an unconfirmed live policy has its timer armed, or its rollback at work or failed)
holds at every step, and `PersistInv` has `torn` as its only exception. `LivedInv` is why
`PersistedUnlessCut` needs its two conditions, and `firewall_cut` what happens without them.

Of `HostPolicy` it proves, for every value of the constants that satisfies
`PolicyAssumption` (a network covers addresses of its version, Docker cannot publish the TCP
port sshd listens on, `Nothing` is neither settings nor a connection):

| Theorem | Statement |
| --- | --- |
| `TableExact` | `PolicySpec => []PolicyInv` (types and `PolicyExact`) |
| `TrialKeepsAdmin` | `PolicySpec => []AdminKeepsAccess` |

The argument. `PolicyExact` speaks of the loaded table only; it holds in a state because the
table was made from checked settings, and a rollback loads what was in force before: both
are `PolicyChecked`, which also ties a trial's session to the check it passed. Given that,
`SourceRules` says that splitting networks by version loses nothing, `SshOnHost` that a valid
SSH port is never translated, and `ExactFor` goes through the three ways of a packet
(translated, to a container, to the host). `TrialKeepsAdmin` follows from the same invariant.

And of the two together, where the detailed commands load what the filter describes:

| Theorem | Statement |
| --- | --- |
| `LiveTableExact` | if `Policies` are settings `load` accepts: `Spec /\ [](nat \subseteq Translated)` implies that always a live table accepts from outside what is `Permitted`, and nothing else |

It needs both proofs: `ExactFor` about the settings of any accepted table, and `Typed` from
the invariant of the commands, that whatever a kill, a failed load, the timer or a reboot
leaves live is one of `Policies` or no table at all.

`DashboardSessionProofs` proves, for any number of login requests, connections and restarts
and any limits (`SessionAssumption`: limits are positive, bounds are numbers, `None` is not a
number):

| Theorem | Statement |
| --- | --- |
| `Sessions` | `Spec => []SessionInv` (types, `SocketsBelong`) |
| `Attempts` | `Spec => []AttemptsBounded` |
| `Ended` | `Spec => EndedStaysEnded` |

The argument. The attempt list forgets what is older than a window; `LimitInv` says that it
lacks nothing of the present one, so its length bounds the attempts of every window that ends
now, and earlier windows were bounded when they ended. `EndedStaysEnded` needs that the map
holds issued tokens only, which is a type here; `SocketsBelong` is inductive as it stands.

`BootstrapProofs` proves, for any number of overlapping runs, any number of attempts, edits
and faults, on fresh and on old machines (`BootstrapAssumption`: the bounds are numbers; the
runs, `Old`, `Empty` and `None` differ):

| Theorem | Statement |
| --- | --- |
| `StackStaysWhole` | `Spec => []BootstrapInv` (types, `StackWhole`) |
| `CredentialsUsable` | `Spec => []OperatorCanLogIn` |
| `ReportsTrue` | `Spec => []SuccessTruthful` |
| `NeverRotated` | `Spec => CredentialsKept` |

The argument. `RunInv(p, r)` is what run `p` may rely on when its progress is `r`, and the
rest of `IInv` (`DiskType`, `StackInv`) what holds of disk and stack whoever is at work. Four
facts carry it.

- *A file has one writer.* A run that fills a credential finds it empty, and no other run
  fills the same one (`FillInv`): exclusive creation needs the file to be absent, and an
  operator removes an empty file only while nothing runs. So a written credential changes
  only when a setup is given up (`CredentialStep`), which is `NeverRotated` once it is known
  that a setup without a certificate never had a database.
- *The certificate directory comes last.* What a first setup has done of its list is its own
  (`ListInv`; here it matters that `setup.mjs` fails on an existing file), so hash and
  operator's password are of one run when `certs` is made, and whatever is signed, checked or
  started later is behind that point (`DiskType`).
- *Whole stays whole.* `Installed`, whole secrets and rules beside a signed certificate, is stable
  (`Writing`): nobody discards a setup that has its certificate, and no whole file is removed.
  A run between its check and its services has seen it, so what the volume and the services
  were given is still on disk.
- *One sample, and a backend somebody asked for.* `Served` replaces "the backend of this run"
  by "or of another run that has passed Compose": a run that replaces the backend becomes
  the witness for everyone it takes it from (`UpServicesKeeps`).

That the directories are made exclusively, `mkdir` in `MakeSecrets`, is not used: exclusive
creation of the files is enough for safety. TLC checked `IInv` on the instance of `bootstrap`
first. The lists are sequences over a set (`Part`), and all that is used of them is their head,
their tail and what is left (`ListHead`, `LeftTail`), so no induction is needed.

Model-checked only: liveness under fairness, which is out of the prover's reach:
`TransactionsEnd`, `ArrivalsEvaluated`, `EventuallyDelivered`, `CapacityReturns`,
`AcceptedLands`, `TrialsEnd`, `QuietStart`, `QuietReload` and `SocketsEnd`. The two properties
that runs refute have no theorem, of course.

## 6. Not modelled, and the plan

JSON, header and query syntax, formatting, metrics and logging carry no state.
Retention only deletes measurements, never registry rows. Widths of identities are
not reached. Of the deployment scripts: `validate_production` and `check_tools` only read
what nobody changes meanwhile; `e2e.run_checks`, `verify_dashboard` and
`verify_measurement_ranges` are sequential tests of a running stack; `build_dashboard`
generates a document; backups, Compose and Caddy are configuration. Left of the plan, in
this order:

1. `AcceptedLands` and its like have a safety half each (what is under way is never lost)
   that could be stated, and proved, on its own.
2. A hold that alternating severities restart, and a backlog that makes a rule stale.
3. The dashboard poll of `flows.json` (it merges pages by id, so that overlapping polls do no
   harm), the dashboard sync and its heartbeat, server shutdown, the migration runner, seeding
   of several rules.
4. The adapter as `MqttPublisher` has it, in one step, shown to be implemented by the
   statements of `ObservationStore`; and the reset of `FixtureLoader` in that store.
5. The three validators (Go, SQL, JavaScript) against one reference on small inputs.
