# HawkHive collector and cloud: TLA+ verification

HawkHive watches cleanrooms. On site, a **collector** (a Windows PC) polls
DPC8001-G particle counters over Modbus, evaluates alarms, keeps everything in
a SQLite database and uploads it. In the **cloud**, a FastAPI service over
PostgreSQL ingests measurements and alarms, owns the configuration of every
site, and sends alarm emails. A **supervisor** on the collector's PC starts the
collector and replaces it when a new release is published.

This directory holds TLA+ models of the protocols of this system, TLC
configurations that check them on small instances, and proofs, checked by
TLAPS, that hold for every instance. `PROJECT.json` says which lines of the
repository each definition stands for.

## 1. Inventory

| Component | State it keeps | Operations | Modelled in |
|---|---|---|---|
| Readings upload (`cloud_sync.py`, `cloud_api.py`, `storage_maintenance.py`) | `readings` on site (`synced_at`, `sync_attempts`, `sync_error`); `readings` in the cloud, unique by `record_uuid` | record, select a batch, send, acknowledge, retry one by one, quarantine, prune; insert | `ReadingUpload`, contract `StoreAndForward` |
| Alarm evaluator (`monitoring_service.py`) | `alarm_states` (one row a series), `alarm_events` | evaluate a reading, disable a rule, change of source | `AlarmEvaluator` |
| Alarms upload (the same files as the readings) | `alarm_events.synced_at`, `sync_attempts`; the cloud's `alarm_events` | as for the readings, of rows that change; upsert | `AlarmUpload` (extends `AlarmEvaluator`), contract `AlarmMirror` |
| Email notifications (`email_alerts.py`, `email_api.py`, `device_lifecycle.py`) | `email_notifications` (status, attempts, claim token, lease), `email_alert_settings`, `device_maintenance_periods` | enqueue, claim, send, finish, cancel, recover a lease | `EmailQueue`, contract `NoticeLedger` |
| Configuration sync (`cloud_sync.py`, `monitoring_service.py`, `cloud_api.py`) | `sites.config_version`, `applied_config_version`; the collector's tables, `_last_config_revision`, its saved copy and status | pull, create, push, apply, record, heartbeat | `ConfigSync` |
| Supervisor and updater (`collector_updater.py`) | the executable, the previous one, the download, the journal, the installed version, the status file | boot, recover, check, download, switch, trial, commit | `CollectorUpdate` |
| Collector identity and lease (`cloud_api.py`, `provision_edge.py`, `collector_activation.py`, `collector_enrollment.py`) | `edge_tokens`, `sites` (`active_collector_instance`, `active_collector_seen_at`, `retired_at`), activation tokens, enrolment rows and generation; the files on each machine | create, reissue, package, claim, enrol, approve, reject, rotate, fetch, provision, retire, take and renew the 90 s lease | `EdgeIdentity`, contract `SiteAccess` |
| Discovery (`cloud_api.py`, `cloud_sync.py`, `device_discovery.py`) | discovery jobs and their results; the job a collector scans for | create, claim, create automatically, fail for lateness, scan, report, delete | `DiscoveryJobs`, contract `ScanBoard` |
| Device lifecycle (`cloud_api.py`, `device_lifecycle.py`) | `devices`, `device_registration_links`, `sites.config_version` and `retired_at` | register, edit, delete, restore, rebind, link a duplicate, retire a site, save a whole configuration | `DeviceRegistry`; assignment periods in `DevicePolling`, maintenance in `EmailQueue` |
| Device polling (`monitoring_service.py`, `dcp8001_collector.py`) | open sessions, back-off, the samples in memory and on disk | poll, keep, report offline, close sessions, apply a configuration | `DevicePolling` |
| Latest readings (`cloud_sync.py`, `cloud_api.py`, `cloud_schema.sql`) | `latest_readings`, one row a device; `device_assignment_periods` | send, upsert, delete when the device changes | `DevicePolling` |
| Diagnostics outbox (`collector_diagnostics.py`, `diagnostics_api.py`) | a bounded, deduplicated table | record, upload, drop the oldest | no |
| Data management (`data_management.py`) | deletion requests | irreversible deletion | no |
| Backups and archives (`cloud_backup.py`, `backup_scheduler.py`, `archive_cloud_data.py`) | files | copy, verify, rotate | no: file I/O |
| Local dashboard and accounts (`dashboard_server.py`, `auth_service.py`) | sessions, users | log in, serve pages | only the handlers that change the configuration |
| Windows packaging and services, web front ends | none of the system's | | no |

### How they interact

* The collector's parts share one SQLite database. The sampling thread and the
  evaluator insert and update rows; every upload channel is a thread of its own
  that reads rows in one transaction, waits for the network with none open, and
  marks the rows it sent in another. The retention pass deletes rows meanwhile.
* Collector and cloud exchange HTTP requests. A request can be lost before or
  after its commit; one that the collector gave up on may be processed later.
* The configuration is pulled by one thread and pushed or edited by the HTTP
  threads of the local console; all of them call `_apply_configuration_payload`.
* `ingest_alarms` queues emails in the transaction that stores an event.
  Workers claim them with `FOR UPDATE SKIP LOCKED`, send them outside any
  transaction, and write the result under their claim's token. Settings and
  maintenance cancel rows at any moment.
* Every request of a collector goes through `edge_identity`: its token names the
  site it speaks for, and an UPDATE takes or renews the site's lease for its
  machine.
* Every handler that changes a device locks the customer's row and raises
  `config_version` of the sites it touches, so that their collectors pull again.
  A trigger ends and starts the device's assignment periods and deletes its
  latest reading; ingestion compares the time of a reading with them.
* The polling threads, the thread that applies a configuration and the upload
  channels of a collector share dictionaries and locks, one at a time.
* A scan is asked for by an administrator, or created by the claim of a
  collector; its report finds the job in whatever state it is by then.
* The supervisor and the collector share only files. A loss of power can come
  between any two writes.

### Which behaviours are hard, and what makes each part correct

* *Readings*: answers lost after a commit, late requests, a bad row in a batch,
  restarts at any point. Every reading is in the cloud exactly once before its
  local copy is given up, or is quarantined for a fault of its own; a bad row
  never blocks the others.
* *Evaluator*: long sequences of readings, rules and sources; two tables that
  must agree; delays that restart. No false alarm, no early end, no orphan.
* *Alarms*: the row changes between being read and being acknowledged;
  snapshots arrive out of order. The cloud never knows more than happened, an
  ended alarm never reopens, every alarm arrives.
* *Email*: a lease that expires under a living worker, a crash after the server
  accepted the message, cancellations during the session. Attempts bound the
  copies sent, a final status is final, a recovered alarm is not announced.
* *Configuration*: applying and recording are two steps; several threads apply.
  A revision on record is never newer than the tables, and the site converges.
* *Updater*: every file operation can fail or be cut short. There is always a
  whole executable to go back to, and only proven releases become permanent.

* *Identity*: answers lost after the cloud has committed, machines that retry,
  packages downloaded long ago, a collector that wakes up after another took its
  site. Within a lease one machine speaks for a site; a credential exists only for
  what was granted; a machine that was granted one gets it; retirement is final.
* *Discovery*: jobs given up and reported nevertheless, two handlers that look
  before either writes, deletion by age. A completed result does not change under
  its reader, candidates come from complete scans only, every scan ends.
* *Registry*: many handlers over the same rows, two of which read before they
  lock. Links are flat, a retired site is empty, no list changes unannounced.
* *Polling*: a poll in flight across a reconfiguration, a request in flight across
  a removal and a restoration, threads that clear what another is about to write.
  Nothing read while a device was removed is ever stored, what is shown is
  current, the last sample before an outage is kept, sessions follow.

`PROJECT.json`, "hazards", lists each at the line where it bites.

## 2. The modules

Names follow the source where they can. Each module states one type invariant
and the properties of its component; definitions commented "Mutant" are
plausible bugs, used only to see that the properties notice them.

**`StoreAndForward`** is the abstract contract of a collector: a reading is
captured, held, and released only once delivered, or refused. It knows nothing
of batches or retries.

**`ReadingUpload`**: `row[r]` is the state of a row of the local `readings`
(`synced_at` and `sync_error` together), `attempts` is `sync_attempts`, `copies`
counts the cloud's rows. The upload thread is `sent`, `todo` and `reply`, the
local variables of `sync_once`: `Select` is its SELECT, `Split` the start of the
one-by-one retry after 400 or 422, `RejectItem` the counting and quarantine of a
row rejected alone, `GiveUp` any other failure. `late` holds requests the
collector gave up on, which `IngestLate` may still process. `ready` is
`_config_ready`: uploads wait for a first configuration. The refinement mapping
`LocalView`, `Stored` shows it to be `StoreAndForward`.

**`AlarmEvaluator`**: one action per turn of the loop over metrics in
`_evaluate_alarms`, split by the state of the row it finds. A metric is one
number with a limit. `age` is `now - pending_since`, capped at the delay.
`streak` is a history variable: for how long the readings have stayed on one
side of the limit. The code runs all of a device's metrics in one transaction;
the model's steps are finer, which only adds behaviours.

**`AlarmUpload`** extends the evaluator with the channel of the alarms. A
request carries `Snapshot`s: copies of rows as they were when read. `Verdict` is the
cloud's answer: validation (400 or 422) before `authorize_ingest_target` (403), which
looks for an assignment period at the alarm's end or, while it has none, its start;
`uncovered` holds the starts and ends that no period covers. `Merge` is
the cloud's upsert (`COALESCE` of the end, the last peak). The wait for a
configuration is left to `ReadingUpload`; without it there are more behaviours.

**`AlarmMirror`** is its contract: an alarm of a device is raised, ends, and is
forgotten only when it is over and the cloud knows of it; the cloud is told of
alarms by word that may be old and repeated, but is never told an end that did not
happen, and never unlearns one. It promises no more than finding 1 allows: the
cloud may know of a forgotten alarm without ever knowing its end. The refinement
mapping is `LocalAlarms`, `KnownAlarms`: an event of the demo generator is no
alarm, an event of a device is raised when its row is inserted.

**`EmailQueue`**: `note` is `email_notifications`, `job` what a worker holds of
its claim. `claim_notification` is `Claim` and its other outcomes `ClaimStops`;
the SMTP session is `MailAccepted` or `MailRefused`; `finish_notification` is
`Decide` (what it reads) then `Finish` (what it writes): settings are locked
from one to the other, the event and the maintenance periods are not. `Claim`
counts an attempt, so a claim's attempt number stands for its token.

**`NoticeLedger`** is its contract with a recipient: a notice is attempted a limited
number of times and arrives at most as often, is called sent only after it arrived and
failed only after it was attempted, and once settled stays so, although a copy may
still arrive. The mapping is `LedgerView` (a claimed row is still queued), `TriesView`
and the count of accepted messages: `Claim` is an `Attempt`, `MailAccepted` an `Arrive`,
what ends a row a `Settle` or, like everything that queues or cancels, a `Revise`.

**`ConfigSync`**: a configuration is the revision it belongs to. A thread asks
or pushes, is answered, applies, records: `Apply` and `Record` are separate
because the process may end, or another thread run, in between. `overlap` is a
history variable: have two threads ever been at work at once.

**`CollectorUpdate`**: `pc` is the next file operation of the supervisor. A copy
is two steps with a `Torn` target in between; a rename and `atomic_json` are one.
`PowerLoss` leaves only the files. `InstallFails`, `RecoveryFails`, `DownloadFails`
and `ForcedStopFails` are failed operations. After a failed trial, or a step that
fails once the new executable is in place, `stop_worker(force=True)` comes first
(`forcing`): when it raises, recovery, blocking and restart are all skipped and the
loop goes on with the worker it could not stop. Two history variables: `abandoned`,
has this supervisor given up taking back the open transaction, by this or by a
recovery that failed; `clobbered`, was the saved executable copied over while a
transaction was open, with no commit since. `Committed` is what the next boot
would run. Signatures and digests are assumed to reject what they should.

**`EdgeIdentity`**: one customer with machines, sites, activation tokens and
tokens that `provision_edge.py` can mint. `site[s].holder` and `.recent` are
`active_collector_instance` and whether `active_collector_seen_at` is within the
lease; `Lapse` is the passing of 90 s. `Accept` is `edge_identity`, part of every
request. Except a provisioned one, a token is an HMAC of what it was issued for,
so the model's tokens are pairs of an origin and a machine. `owner` and `enabled`
are `edge_tokens`. A request and its answer are one step with a variant whose
answer is lost (`ActivateLost`; the other handlers change nothing the second
time). `Approve` fails when the token's row is already there: `token_hash` is the
primary key. `writers` is a history variable: who was accepted for a site since
its lease was free or it was provisioned.

**`SiteAccess`** is its contract: computers speak for a site only with a key of it, one
at a time, and not once it is closed; a site is closed only when nobody speaks for it;
a key is never used for anything else again, so what was revoked does not come back.
The mapping: who holds the lease speaks (`SpeakerView`), enabled tokens are keys
(`KeyView`), tokens that were ever inserted are used (`UsedKeys`), and a site's state is
its phase (`PhaseView`). Packages and applications do not exist to the contract; a claim
or an approval is an `Issue`, a provisioning a `Replace`, each a single step however
often its answer is lost.

**`DiscoveryJobs`**: `job` and `found` are the two tables. The handlers run at
READ COMMITTED, so those that look before they insert are two steps
(`CreateLooks`/`CreateInserts`, `ClaimLooks`/`ClaimCommits`), and the unique index
on a site's active job is the condition of `Insert`. `report` holds results on
their way; `Complete` does not look at the job's status, as the code does not. Time
is two facts about a job: `age` (five minutes; the retention) and `overdue`.

**`ScanBoard`** is the contract of discovery: one scan of a site is wanted at a
time, a scan that was given up may still be answered, what a finished one shows
stays until it is deleted, and a job's id is never used again. The mapping is
`BoardView`, `ShownView`. A claim that deletes old jobs, fails overdue ones and
inserts a new one is a single `Revise`, as it is a single transaction.

**`DeviceRegistry`**: every handler is one step under the customer's lock, except
`apply_customer_config`, which reads the configuration it validates against
before it locks: `SaveReads`, then `WebSaves` or `ConsoleSaves`. `Writable` is the
unique index on addresses, looked at row by row. `version` is `config_version`
modulo 2, as only whether a step changes it matters.

**`DevicePolling`**: one device. `reg`, `ended` and `shown` are its registration
with the running assignment period, the periods that ended, and its row of
`latest_readings`; `Change` is the trigger. `conf` is the collector's row of it;
`Pull` commits a configuration and `Purge` forgets what it no longer has, a step
later. `poll` is the worker, one step per lock it takes: session (`Connect`), read,
decide, `Keep`, `Publish`, or `CloseFailed`, `GoesDown` and the last sample's
`Keep`. `connected` distinguishes a collector with a cloud from one whose console
changes devices. `Sample.assigned` is history: was the device enabled when it was
read.

The `MC*` modules give small values to the constants; `*Proofs` hold proofs.

## 3. The runs

| Run | Properties | Distinct states |
|---|---|---|
| `reading_upload` | `AckedIsStored`, `StoredOnce`, `QuarantineEarned`, refinement of `StoreAndForward`, `EveryReadingSettles` | 18 thousand |
| `alarm_upload` | `OpenEventMatchesRow`, `NoFalseAlarm`, `NoEarlyEnd` of the evaluator; `PrunedIsStored`, `CloudNotAhead`, `EveryAlarmSettles` of its channel; refinement of `AlarmMirror` | 379 thousand |
| `alarm_ack_race` | finding 1 | |
| `email_queue` | `AttemptsCoverSends`, refinement of `NoticeLedger`, `NoAlarmAfterRecovery`, `EveryNoticeSettles` | 224 thousand |
| `config_sync` | `ReportedIsRunning`, `NeverAheadOfCloud`, `NeverGoesBack`, `ConfigConverges` | 23 thousand |
| `config_race` | finding 2 | |
| `collector_update` | `RollbackReady`, `InstalledIsProven`, `OnlyProvenCollects`, `CommitsForward`, `CollectionSettles` | 35 thousand |
| `update_rollback` | finding 3 | |
| `edge_identity` | `OneWriterPerLease`, `CredentialIsGranted`, `RetiredIsClosed`, refinement of `SiteAccess`, `CredentialArrives` | 462 thousand |
| `discovery_jobs` | `CandidatesAreComplete`, refinement of `ScanBoard`, `EveryScanSettles` | 87 thousand |
| `device_registry` | `LinksAreFlat`, `RetiredSiteIsEmpty`, `EveryChangeIsPublished` | 53 thousand, up to symmetry |
| `device_polling` | `GapIsNeverStored`, `ShownIsCurrent`, `LastSampleKept`, `SessionsFollow` | 1.5 million |

Types are not checked by a run: each module's type invariant is proved, and the
safety invariants rest on it. So are properties that a contract implies:
`CloudEndIsFinal` (`AlarmMirror`), `FinalIsFinal` (`NoticeLedger`), `OneActiveJob` and
`CompletedIsFinal` (`ScanBoard`).

Deadlock is checked in all but two. `edge_identity` may end with every bound
reached, and so may `device_polling`: a collector without a cloud whose console has
removed the device has nothing left to do. Symmetry is used in `device_registry`
only, which checks no liveness.

### Bounds, and why they are enough

* *Readings*: four, of which one is malformed and one is refused with 403, the
  good ones around them; batches of two, so that a bad row shares its batch with
  either kind; two attempts, so that the limit is reached in two steps; one late
  request and one restart. The proofs have none of these bounds.
* *Alarms*: one series (series share nothing but the events table) with two
  sources, so that a change of source can end an alarm; values below the limit and
  twice above it, so that a peak can rise and fall; a delay of one tick, so that
  it can be interrupted; two alarms, the first of which the cloud rejects, so
  that batches mix good and bad; the start of the second, or its end, or neither,
  is not covered (403), so that one is refused until it ends, one from then on, and
  one never; one rejection to the quarantine, one late request, one restart. The
  proofs have no such bounds.
* *Email*: one event, one recipient, both kinds of notice; two workers, to race
  for a lease; two attempts, one edit by the administrator. The proofs have any
  number of each.
* *Configuration*: the channel and one console thread, four revisions and two
  failures.
* *Updater*: four releases, the second bad, so that a good one is followed by a
  bad one, and that by good ones; two losses of power and two errors, so that a
  recovery can itself be interrupted or fail, and so can one after a forced stop
  that failed.
* *Identity*: two machines that compete for two sites, one activation package that
  both may have, one provisioned token, one rotation, a limit of one
  collector, so that a second is refused until the first is retired (provisioning
  is not limited).
* *Discovery*: two jobs, so that the second replaces the first, one administrator
  and two collectors of one site, one address that is found or not.
* *Registry*: three registrations of which two may be enabled, two sites and two
  addresses, so that a device can be moved, duplicated and collide with another;
  one saver, whose reading goes stale by the actions of everybody else.
* *Polling*: two addresses; four instants, which are just enough for a sample, a
  removal, a sample that a poll in flight takes from the gap, and a restoration;
  one request in flight and one restart.

`Max...` constants marked "bound" in the modules limit the environment, and so do
the sets of ids "ever used". `BatchSize`, `MaxAttempts`, `Delay`, `MaxCollectors`
and `Capacity` are parameters of the code.

### Fairness

* The channels are threads that loop until the process ends: weak fairness of
  their steps. A failed request is retried for ever, with a back-off, so we
  assume that a batch, or a single row, that keeps being sent is answered in the
  end: strong fairness of the cloud's answer. It is stated for each row by
  itself because an answer given to one request helps no other. Lost answers
  are otherwise free, and the retention pass is never obliged to run.
* Email workers poll for ever, SMTP sockets have timeouts, and leases and retry
  delays run out. `Claim` needs strong fairness because leases come and go.
  Nothing is assumed of crashes: `EveryNoticeSettles` holds with a worker that
  crashes at every attempt.
* The configuration and heartbeat channels loop for ever; the console has to
  finish what it was answered but never has to begin anything.
* The supervisor is one loop, started again at boot: weak fairness of its steps.
  Losses of power and errors are bounded, publishing ends at `MaxVersion`.
* The launcher asks for a credential until it has one: weak fairness of
  `Activate` or `FetchCredential` of each machine, while losing an answer stays
  possible.
* Discovery: a collector polls for ever, a handler that has looked also commits, a
  scan ends (with a report, or because the collector stopped), and time passes.
  Reports may all be lost, and administrators need never ask.
* Polling: the monitor loop goes round and a poll ends, a newer revision is pulled,
  and the thread that applies a configuration finishes. Nothing is assumed of the
  instrument, the network or the uploads.

### What the properties leave out, on purpose

* `EveryReadingSettles` promises nothing while a row that the cloud answers with
  403 (no assignment period of its device covers it) is queued: `sync_once`
  counts only 400 and 422 as permanent, gives up on the batch, and reads the same
  rows again. The rows behind it wait for an administrator. The code does so
  deliberately, and the run confirms that this is the only exception.
* `EveryAlarmSettles` has the same exception, for the same lines of
  `sync_alarms_once` (`cloud_sync.py:775-779`): an alarm that is answered with 403 and
  stays queued is read again for ever, and the alarms of its batch with it. The
  exception ends when the alarm ends at a covered time. (The other 403 and 409
  answers of `ingest_alarms` are about rows of another customer or site, which the
  SELECT leaves out.)
* `ReportedIsRunning`, `NeverGoesBack` and `ConfigConverges` hold as long as no two
  threads were at work at once (`overlap`); finding 2 shows what happens otherwise.
  `NeverAheadOfCloud` holds with any overlap.
* `RollbackReady`, `InstalledIsProven`, `OnlyProvenCollects` and `CommitsForward` hold
  until an update is begun with a journal open (`clobbered`, until the next commit);
  finding 3 shows what happens then.
* `OnlyProvenCollects` and `CollectionSettles` allow any worker to a supervisor that
  could not stop it after its trial, or could not take the installation back
  (`abandoned`): `check_update` skips the rest (`collector_updater.py:271-278`), `run`
  reports the failure, and goes on. `OnlyProvenCollects` says that the transaction is
  still open then, and the next boot recovers it before it starts a worker.
* `LastSampleKept` takes the local database to accept what is written: a sample whose
  write fails is logged and dropped (`monitoring_service.py:1206-1209`).
* That a device alarm which a change of source has ended is known to be over in the
  cloud is promised by nobody: the step (`monitoring_service.py:1313-1318`) leaves
  `synced_at` as it was, and `AlarmMirror` allows for it.
* `OneWriterPerLease` begins anew when a site is provisioned: the command clears
  the lease so that a replacement need not wait.
* `CredentialArrives` promises nothing to a machine whose package was replaced
  between its approval and its first question, or on whose disk an activation file
  lies that always fails.
* `RetiredIsClosed` leaves out tokens provisioned after the retirement, which the
  command inserts without looking; `LeaseFree` then refuses them.
* `ShownIsCurrent` and `GapIsNeverStored` are about a device with a cloud and a
  clock that both sides share and that is not set back.

## 4. Findings

1. `alarm_ack_race` (`cloud_sync.py:831`): the acknowledgement of an older
   snapshot marks an event that has ended meanwhile as synced. Its end is never
   uploaded, and the retention pass may then delete the only record of it.
   The repository's README.md:431 says that alarm events upload on clearing.
2. `config_race` (`cloud_sync.py:324`): an older answer, applied after a newer
   one and before that one's revision is recorded, leaves old rooms and devices
   under the newest revision, which is never pulled again.
3. `update_rollback` (`collector_updater.py:72`): when a recovery has failed, its
   journal stays and the supervisor runs on. A later switch copies over the
   saved executable in place, and a loss of power during the copy makes the
   next boot restore part of a file.

Seen while modelling, present in the models, and contradicting no property of a
run:

* `finish_notification` (`email_alerts.py:357`) can put a notice back on the queue
  whose alarm has ended since lines 333-334 looked. The next claim cancels it: it
  is queued again, not sent, which is what `NoAlarmAfterRecovery` is about.
* A machine that was revoked, re-enrols under a new generation and is approved
  again derives the token it had: the insertion violates the primary key and the
  approval cannot succeed (the last guard of `Approve`).
* A rotation between an approval and the machine's first question leaves it
  approved and unable to ask: its package is of an old generation (`CanFetch`).
* A claim that is retried more than a day after the first, its answer having been
  lost, is refused, and so is a new package, as the site has an enabled token.
* Two credentials of one site can be enabled at once, when an activation token
  is claimed after a provisioning; the lease still keeps its holders apart.
* The web's save of names writes the addresses it read before the lock over those
  a rebinding has set since; a console's save disables what was registered while
  its list was open. Neither breaks the registry's invariants, and both are
  published. The limit of devices can be exceeded by such a save, as only the
  list it sends is counted.
* A poll in flight puts a removed device back into the collector's latest
  readings and uploads it; `RetiredTarget` makes the cloud ignore it.

## 5. Proofs

All of them are for every value of the constants, from the assumptions the
modules state about them (the `...Assumption`s): sets of numbers, positive
limits, names that are not also the name of nothing, tokens of different origin
told apart, a finite set of email workers.

**`ReadingUploadProofs`**: `TypeCorrect`, `NoReadingLost`, `NoReadingDuplicated`,
`OnlyBadRowsQuarantined`, `UploadRefinesContract`. `AckedIsStored` is not
inductive: an answer is written to the database a step after it was given. `Inv`
adds what the thread knows (`ChannelInv`: the rows it handles are queued, and
"ok" means that they are in the cloud, "invalid" that one of them is malformed),
that late requests carry recorded rows only (`LateInv`), and that the cloud
holds only well-formed rows that were not set aside (`CloudInv`). The last is
what a late request could break, and what keeps the abstract `Refuse` possible.
The refinement maps each action to one of the contract's or to a stutter:
`Record` to `Capture`, the inserts to `Deliver`, `Acknowledge` to `Release`, the
rejection that reaches the limit to `Refuse`.

**`CollectorUpdateProofs`**: `UpdateTypeCorrect`, `AlwaysRollbackReady`,
`OnlyProvenInstalled`, `OnlyProvenRuns`, `UpdatesMoveForward`. Every invariant is
false in the middle of a switch unless one knows what has been written so far, so
the inductive invariant says what each step of the supervisor finds: whether a
worker runs (`WorkerInv`), what was staged and put in place, and that it is newer
than what runs (`ReleaseInv`), when the journal is there, and that it goes back to
an older release (`JournalInv`), that outside an
installation it is there only if the supervisor gave up (`OpenInv`), and, unless an update was begun with it there, what it would
restore (`SafeInv`). Its step lemmas have one case per action.
The hard case is `ForcedStopFails`, from which any worker reaches the loop; what it
leaves open, `OpenInv` keeps until the next boot.
`CommittedStays` shows that no action but `Unjournal` changes what the next boot
would run, and `UpdatesMoveForward` that this one changes it for the better.

**`AlarmUploadProofs`** first proves the evaluator by itself (`EvalSpec`):
`EvaluatorTypeCorrect`, `TablesAgree`, `AlarmsAreReal`, `AlarmsEndInTime`,
`HistoryIsFinal`. The tables' agreement is restated series by series (`Agrees`): a
row that is on has exactly one open event, and of its own source; one that is not
has none of any source. It is the part about *any* source that makes a change of
source safe. The timing properties need `PendingInv`: while a row is pending, every
reading since its `pending_since` was on the same side of the limit. `EventsChange`
then says the three ways in which a step can change the events table
(`EventsAreHistory`), and the three action properties follow from it.

Then the composition (`AlarmSpec`): `AlarmTypeCorrect`, `TablesStayAgreed`,
`PrunedAlarmsAreStored`, `CloudIsNeverAhead`, `CloudEndStays`. Requests carry copies
of rows that change after they were made, so `RequestInv` says that each is of the
past: it names an event the table has, with at most its end and its peak.
`EventsGrow` shows that the evaluator only adds events, ends them and raises their
peaks, so the past stays the past. `SyncedInv` makes `PrunedIsStored` inductive:
what is taken for acknowledged was stored, including between the answer and the
update. The evaluator's action properties are not inherited by a composition whose
other thread writes the same table: `AcknowledgeShape` shows that it writes
`synced_at` only, and `UploadedAlarmsAreReal`, `UploadedAlarmsEndInTime` and
`UploadedHistoryIsFinal` follow. `AlarmsRefineMirror` maps each action to one of the
contract's or to a stutter: opening an event to `Raise` (`OpensMaps`), every way to
end events to `End` (`EndsMaps`), the upsert of a request, on time or late, to `Tell`
(`IngestMaps`, which needs `RequestInv`: what is told has happened), retention to
`Forget` (`PruneMaps`, which needs `SyncedInv`). Selecting, retrying, splitting,
acknowledging and restarting are stutters (`MirrorUnseen`).

**`PullChannelProofs`** is about what the collector fetches, its configuration and its
scans. `ConfigTypeCorrect`, `ReportsWhatRuns`, `RevisionIsIssued`,
`OnlyOverlapLeavesStale`, `ConfigMovesForward`: `ConfigInv` says that the record is
the saved copy, that the tables and the record hold revisions the cloud has issued,
and what a thread was answered and has applied (`TaskInv`); while no two threads have
overlapped, that at most one of them is at work, on an answer no older than the
tables (`AloneInv`). `OnlyOverlapLeavesStale` is the converse of finding 2: with one
thread at a time it cannot happen. `DiscoveryTypeCorrect`, `OneJobAtATime`,
`OnlyFinishedScansShow`, `FinishedScansStay`, `DiscoveryRefinesBoard`: `DiscoveryInv`
needs that a job is handed out once (`HandedOutOnce`: one collector scans for it or
one report is on its way, and not when it is completed), which is why a late report
finds the job wanted or given up, never finished. Every handler is a `Tidied` table
(old jobs deleted, overdue ones failed), with at most one job inserted afterwards;
`RowsKeepInv` and `RowsMap` are about that relation, so that each handler has only to
be shown to be one.

**`EmailQueueProofs`**: `EmailTypeCorrect`, `SendsAreCovered`,
`SettledNoticesStay`, `NoLateAlarmNotice`, `EmailRefinesLedger`. For the first, `BudgetInv` counts the
workers that are talking to the mail server about a notice together with the
messages it accepted: all of them are at most the attempts. Without the workers it
is not inductive, as several may hold claims of one row that expired. `Steady`
says how a step may change the rows, and both action properties follow. The
refinement needs `ClaimInv` besides: a row being sent has been attempted, and a worker
that reports a success has had its message accepted. `RowsRevised` is about the steps
that queue, requeue and cancel, `RowSettled` about those that end a row;
`AcceptedMaps` is where `BudgetInv` is needed, for a copy that arrives after its row was
settled or claimed by another worker.

**`EdgeIdentityProofs`**: `IdentityTypeCorrect`, `OneWriter`,
`CredentialsAreGranted`, `RetiredStaysClosed`, `WaitingIsCurrent`,
`IdentityRefinesAccess`. `LeaseInv`:
whoever spoke for a site since its lease was free still holds it. `OwnerInv`:
issued packages have a site and enabled tokens an owner, which is what a claim and
an approval rely on when they insert one. The refinement needs `HolderIsRecent` as well:
who holds a lease was heard of within it, so that a retirement, which looks only at
when the collector was last seen, closes a site for which nobody speaks; and that an
inserted token has no owner yet, so that no key is used twice.

**`DeviceRegistryProofs`**: `RegistryTypeCorrect`, `DuplicatesStaySilent`,
`AddressesAreUnique`, `RetiredStaysEmpty`, `ChangesArePublished`. The invariants
are inductive together. The stale saves are the hard cases: what `Writable` and the
conditions of the UPDATE leave possible of a list read long ago.

**`DevicePollingProofs`**: `PollingTypeCorrect`, `GapsStayEmpty`,
`LatestIsCurrent`, `OutageEdgeIsKept`. `CoverInv`: a sample anywhere in the system
that an assignment period covers was read while the device was assigned, also
after later changes, as periods start and end only now; and an instant tells
samples apart, which is what `_persist_sample` relies on. `KeptInv`: what was
recorded last is in the database, and the worker that saves after a failure has
the very sample the device is shown offline with. `WorkerInv` says what the worker
holds at each step.

Liveness and ENABLED are out of the prover's reach, so these are model-checked
only: `EveryReadingSettles`, `EveryAlarmSettles`, `EveryNoticeSettles`,
`ConfigConverges`, `CollectionSettles`, `CredentialArrives`, `EveryScanSettles`,
`SessionsFollow`. Every invariant and every action property of the passing runs, and
the five refinements, are proved.

## 6. Plan

Done, in this order: `ReadingUpload` with its contract, `AlarmEvaluator`,
`AlarmUpload`, `EmailQueue`, `ConfigSync`, `CollectorUpdate`, `EdgeIdentity`,
`DiscoveryJobs`, `DeviceRegistry`, `DevicePolling`; proofs about all of them; the
contracts `AlarmMirror`, `ScanBoard`, `SiteAccess` and `NoticeLedger` with their
refinements.

Left to do: the diagnostics outbox as a bounded variant of `ReadingUpload`; the
identity of a machine and its lease composed with the upload channels, which now take
it that their site accepts them.

## 7. Not modelled

* Components: the diagnostics outbox (log lines whose loss at the limit is
  intended), `data_management.py` (one locked transaction per request), backups
  and archives (file I/O), accounts and pages of the dashboards, Windows packaging
  and services, front ends.
* Of modelled components: Modbus framing and decoding (a poll gives a sample or
  fails), back-off times, the console's connection test and its own scan, and
  failures of the local database in polling; test messages, the suppression of
  disabled devices and the heartbeat of the email worker; names and pairing
  codes; signatures, HMACs and digests, which are assumed to do their work. The
  lookup of a token and the update of the lease, two statements of
  `edge_identity`, are one step.
* The operator's command `provision_customer.py`, which sets up a customer with a
  first site, room, device and token. Its upsert (lines 59-73) overwrites a device
  with `enabled=true`, raises no `config_version`, and looks neither at `retired_at`
  nor at links of duplicates: the properties of `DeviceRegistry` are about the
  handlers and not about it. What it does to tokens, `provision_edge.py` does as well.
