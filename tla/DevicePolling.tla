----------------------------- MODULE DevicePolling -----------------------------
(***************************************************************************)
(* One device, from the instrument to the cloud: the collector polls it    *)
(* (MonitoringService in monitoring_service.py), keeps its latest reading  *)
(* and a history, and uploads both, while the registration of the device   *)
(* is removed, restored or given another address.                          *)
(*                                                                         *)
(* Threads of the collector: the monitor loop, the worker that polls, the  *)
(* thread that applies a configuration, the channel of latest readings and *)
(* that of the history.  They share the configuration database, the        *)
(* sessions and the dictionaries latest and last_recorded, and take the    *)
(* lock of one at a time, never of all.  The cloud's handlers run one at a *)
(* time: ingestion shares a lock of the customer's row, changes take it.   *)
(***************************************************************************)
EXTENDS Naturals, FiniteSets

CONSTANTS
  Address,      \* endpoints the device may be registered at
  MaxTime,      \* bound: instants at which a sample is read or a registration changes
  MaxSent,      \* bound: requests with latest readings on their way
  MaxRestarts,  \* bound: restarts of the collector
  None

ASSUME PollingAssumption == /\ MaxTime \in Nat /\ MaxSent \in Nat /\ MaxRestarts \in Nat
                            /\ None \notin Address

VARIABLES
  \* the cloud
  now,       \* the clock of both sides
  reg,       \* devices: the registration, and when its assignment period started
  ended,     \* device_assignment_periods that have ended
  shown,     \* latest_readings
  history,   \* readings
  \* the collector
  connected, \* it has a cloud; if not, its console changes the device
  stale,     \* the cloud's revision is not the one it has applied
  conf,      \* devices in its database
  apply,     \* the thread that applies a configuration
  client,    \* _device_clients: the endpoint of the open session
  poll,      \* the worker that polls the device
  failing,   \* _device_failures is not 0
  latest,    \* self.latest
  recorded,  \* self.last_recorded
  rows,      \* readings in its database
  sent,      \* latest/batch requests on their way
  restarts

cloudVars == <<reg, ended, shown, history>>
memory == <<client, poll, failing, latest, recorded>>
pollVars == <<now, cloudVars, connected, stale, conf, apply, memory, rows, sent, restarts>>

\* A sample, when and where it was read; assigned: the device was enabled then
\* (history, for the properties).
Sample == [t : 1..MaxTime, from : Address, assigned : BOOLEAN]
NoSample == [t |-> 0, from |-> None, assigned |-> FALSE]

\* The worker holds the device's I/O lock while it is reading.
Idle == [pc |-> "idle", at |-> None, sample |-> NoSample]
WorkerState == {"idle", "submitted", "reading", "read", "keeping", "publishing",
                "failed", "down", "saving"}

PollingTypeOK ==
  /\ now \in 0..MaxTime
  /\ reg \in [on : BOOLEAN, at : Address, since : 0..MaxTime]
  /\ ended \subseteq [from : 0..MaxTime, to : 0..MaxTime]
  /\ shown \in Sample \cup {NoSample}
  /\ history \subseteq Sample
  /\ connected \in BOOLEAN /\ stale \in BOOLEAN
  /\ conf \in [on : BOOLEAN, at : Address]
  /\ apply \in {"idle", "closing", "purging"}
  /\ client \in Address \cup {None}
  /\ poll \in [pc : WorkerState, at : Address \cup {None}, sample : Sample \cup {NoSample}]
  /\ failing \in BOOLEAN
  /\ latest \in [kind : {"none", "online", "offline"}, sample : Sample \cup {NoSample}]
  /\ recorded \in 0..MaxTime
  /\ rows \subseteq Sample
  /\ sent \subseteq Sample
  /\ restarts \in 0..MaxRestarts

NoLatest == [kind |-> "none", sample |-> NoSample]

PollingInit == \E a \in Address :
  /\ now = 0
  /\ reg = [on |-> TRUE, at |-> a, since |-> 0]
  /\ conf = [on |-> TRUE, at |-> a]
  /\ connected \in BOOLEAN
  /\ ended = {} /\ history = {} /\ rows = {} /\ sent = {}
  /\ shown = NoSample
  /\ stale = FALSE /\ failing = FALSE
  /\ apply = "idle"
  /\ client = None
  /\ poll = Idle
  /\ latest = NoLatest
  /\ recorded = 0
  /\ restarts = 0

--------------------------------------------------------------------------------
(* The cloud: changes of the registration (the trigger track_device_assignment  *)
(* runs with each of them), and ingestion.                                      *)

Tick == now < MaxTime /\ now' = now + 1

\* Mutant: the latest reading survives a change of the device.
ChangeKeepsLatest(on, a) ==
  /\ ended' = IF reg.on THEN ended \cup {[from |-> reg.since, to |-> now + 1]} ELSE ended
  /\ reg' = [on |-> on, at |-> a, since |-> now + 1]
  /\ UNCHANGED shown

\* The running period ends, another begins, the latest reading is deleted.
Change(on, a) ==
  /\ ended' = IF reg.on THEN ended \cup {[from |-> reg.since, to |-> now + 1]} ELSE ended
  /\ reg' = [on |-> on, at |-> a, since |-> now + 1]
  /\ shown' = NoSample

\* Removing, restoring, and moving to another address; the revision goes up.
Administer ==
  /\ connected
  /\ Tick
  /\ \/ reg.on /\ Change(FALSE, reg.at)
     \/ ~reg.on /\ Change(TRUE, reg.at)
     \/ reg.on /\ \E a \in Address \ {reg.at} : Change(TRUE, a)
  /\ stale' = TRUE
  /\ UNCHANGED <<history, connected, conf, apply, memory, rows, sent, restarts>>

\* ingest_latest: the site had the device, but no running period of it covers s.
RetiredTarget(s) == ~(reg.on /\ reg.since <= s.t)

DeliverLatest(s) ==
  /\ s \in sent
  /\ sent' = sent \ {s}
  /\ shown' = IF RetiredTarget(s) \/ ~reg.on \/ s.t < shown.t THEN shown ELSE s
  /\ UNCHANGED <<now, reg, ended, history, connected, stale, conf, apply, memory, rows,
                 restarts>>

\* Mutant: whoever has the device now may send what it read before.
CoveredByNow(s) == reg.on

\* authorize_ingest_target for a reading of the past: some period covers it.
Covered(s) == \/ reg.on /\ reg.since <= s.t
              \/ \E p \in ended : p.from <= s.t /\ s.t <= p.to

\* The history channel, as ReadingUpload has it: what is refused stays and is retried.
UploadRow(s) ==
  /\ connected
  /\ s \in rows \ history
  /\ Covered(s)
  /\ history' = history \cup {s}
  /\ UNCHANGED <<now, reg, ended, shown, connected, stale, conf, apply, memory, rows, sent,
                 restarts>>

--------------------------------------------------------------------------------
(* The collector applies a configuration: of the cloud, or of its own console.  *)

\* apply_edge_configuration commits the devices of a newer revision ...
Pull ==
  /\ connected /\ stale /\ apply = "idle"
  /\ conf' = [on |-> reg.on, at |-> reg.at]
  /\ stale' = FALSE
  /\ apply' = "purging"
  /\ UNCHANGED <<now, cloudVars, connected, memory, rows, sent, restarts>>

\* update_collector_connections commits what the console says.
ConsoleSaves(on, a) ==
  /\ ~connected /\ apply = "idle"
  /\ Tick
  /\ conf.on
  /\ [on |-> on, at |-> a] # conf
  /\ conf' = [on |-> on, at |-> a]
  /\ apply' = "closing"
  /\ UNCHANGED <<cloudVars, connected, stale, memory, rows, sent, restarts>>

\* _close_device_client waits for the worker that reads.
ConsoleCloses ==
  /\ apply = "closing"
  /\ poll.pc # "reading"
  /\ client' = None
  /\ apply' = "purging"
  /\ UNCHANGED <<now, cloudVars, connected, stale, conf, poll, failing, latest, recorded,
                 rows, sent, restarts>>

\* ... and then forgets the devices that are not in it (the console: that have changed).
Purge ==
  /\ apply = "purging"
  /\ apply' = "idle"
  /\ IF connected /\ conf.on
     THEN UNCHANGED <<latest, recorded, failing>>
     ELSE /\ latest' = NoLatest
          /\ recorded' = 0
          /\ failing' = (failing /\ connected)
  /\ UNCHANGED <<now, cloudVars, connected, stale, conf, client, poll, rows, sent, restarts>>

--------------------------------------------------------------------------------
(* The monitor loop (_run) and the worker (_poll_device_scoped).                *)

Worker(pc) == poll' = [poll EXCEPT !.pc = pc]
WorkerOnly == UNCHANGED <<now, cloudVars, connected, stale, conf, apply, sent, restarts>>

\* Mutant: only the session of a device that is still enabled is compared.
ObsoleteIfMoved == client # None /\ conf.on /\ client # conf.at

\* A session of a device that is disabled, or is at another endpoint now.
Obsolete == client # None /\ (~conf.on \/ client # conf.at)

\* The sessions of devices that are not busy are looked through in every round.
CloseObsolete ==
  /\ poll = Idle
  /\ Obsolete
  /\ client' = None
  /\ WorkerOnly /\ UNCHANGED <<poll, failing, latest, recorded, rows>>

\* The failures of a device that is not collected any more, if it was due for
\* another poll, are forgotten, whatever the worker is still doing for it.
ForgetFailures ==
  /\ ~conf.on /\ failing
  /\ failing' = FALSE
  /\ WorkerOnly /\ UNCHANGED <<client, poll, latest, recorded, rows>>

\* The device is due: the worker gets it as it is configured now.
Submit ==
  /\ poll = Idle
  /\ conf.on /\ ~Obsolete
  /\ poll' = [Idle EXCEPT !.pc = "submitted", !.at = conf.at]
  /\ WorkerOnly /\ UNCHANGED <<client, failing, latest, recorded, rows>>

\* _client_for_device, under the I/O lock: the session it has, or a new one.
Connect ==
  /\ poll.pc = "submitted"
  /\ \/ client' = poll.at /\ Worker("reading")
     \/ client # poll.at /\ client' = None /\ Worker("failed")
  /\ WorkerOnly /\ UNCHANGED <<failing, latest, recorded, rows>>

\* read_realtime gives a sample ...
Read ==
  /\ poll.pc = "reading"
  /\ Tick
  /\ poll' = [poll EXCEPT !.pc = "read",
                          !.sample = [t |-> now + 1, from |-> poll.at, assigned |-> reg.on]]
  /\ UNCHANGED <<cloudVars, connected, stale, conf, apply, client, failing, latest,
                 recorded, rows, sent, restarts>>

\* ... or times out, or raises.
ReadFails ==
  /\ poll.pc = "reading"
  /\ Worker("failed")
  /\ WorkerOnly /\ UNCHANGED <<client, failing, latest, recorded, rows>>

\* A first reading, one after failures and one that changes an alarm are kept, and
\* one every record_seconds.
Decide ==
  /\ poll.pc = "read"
  /\ \/ Worker("keeping")
     \/ latest.kind # "none" /\ ~failing /\ Worker("publishing")
  /\ WorkerOnly /\ UNCHANGED <<client, failing, latest, recorded, rows>>

\* _persist_sample, whose write is taken to succeed: one that fails is logged, and
\* the sample is in no table.
Keep ==
  /\ poll.pc \in {"keeping", "saving"}
  /\ rows' = IF poll.sample.t = recorded THEN rows ELSE rows \cup {poll.sample}
  /\ recorded' = poll.sample.t
  /\ IF poll.pc = "keeping" THEN Worker("publishing") ELSE poll' = Idle
  /\ WorkerOnly /\ UNCHANGED <<client, failing, latest>>

Publish ==
  /\ poll.pc = "publishing"
  /\ latest' = [kind |-> "online", sample |-> poll.sample]
  /\ failing' = FALSE
  /\ poll' = Idle
  /\ WorkerOnly /\ UNCHANGED <<client, recorded, rows>>

\* A failed poll drops its session ...
CloseFailed ==
  /\ poll.pc = "failed"
  /\ client' = None
  /\ Worker("down")
  /\ WorkerOnly /\ UNCHANGED <<failing, latest, recorded, rows>>

\* Mutant: the last sample before an outage is not kept.
GoesDownSilently ==
  /\ poll.pc = "down"
  /\ latest' = [kind |-> "offline", sample |-> latest.sample]
  /\ failing' = TRUE
  /\ poll' = Idle
  /\ WorkerOnly /\ UNCHANGED <<client, recorded, rows>>

\* ... reports the device offline, with what it last read, and keeps that sample.
GoesDown ==
  /\ poll.pc = "down"
  /\ latest' = [kind |-> "offline", sample |-> latest.sample]
  /\ failing' = TRUE
  /\ poll' = IF latest.kind = "online"
             THEN [poll EXCEPT !.pc = "saving", !.sample = latest.sample] ELSE Idle
  /\ WorkerOnly /\ UNCHANGED <<client, recorded, rows>>

\* sync_latest_once sends what is online; a request may be lost or come late.
SendLatest ==
  /\ connected
  /\ latest.kind = "online"
  /\ Cardinality(sent) < MaxSent
  /\ sent' = sent \cup {latest.sample}
  /\ UNCHANGED <<now, cloudVars, connected, stale, conf, apply, memory, rows, restarts>>

LoseLatest(s) ==
  /\ s \in sent
  /\ sent' = sent \ {s}
  /\ UNCHANGED <<now, cloudVars, connected, stale, conf, apply, memory, rows, restarts>>

Restart ==
  /\ restarts < MaxRestarts
  /\ restarts' = restarts + 1
  /\ apply' = "idle"
  /\ client' = None
  /\ poll' = Idle
  /\ failing' = FALSE
  /\ latest' = NoLatest
  /\ recorded' = 0
  /\ stale' = connected
  /\ UNCHANGED <<now, cloudVars, connected, conf, rows, sent>>

Work == \/ CloseObsolete \/ Submit \/ Connect \/ Read \/ ReadFails \/ Decide \/ Keep
        \/ Publish \/ CloseFailed \/ GoesDown

PollingNext == \/ Administer \/ Pull \/ ConsoleCloses \/ Purge \/ Work
               \/ \E on \in BOOLEAN, a \in Address : ConsoleSaves(on, a)
               \/ \E s \in sent : DeliverLatest(s) \/ LoseLatest(s)
               \/ \E s \in rows : UploadRow(s)
               \/ ForgetFailures \/ SendLatest \/ Restart

PollingSpec == PollingInit /\ [][PollingNext]_pollVars

\* The threads run: the loop goes round, a poll ends, a configuration is applied.
FairPollingSpec == /\ PollingSpec
                   /\ WF_pollVars(Work)
                   /\ WF_pollVars(Pull)
                   /\ WF_pollVars(ConsoleCloses)
                   /\ WF_pollVars(Purge)

--------------------------------------------------------------------------------
\* What was read while the device was removed is never stored, neither as its
\* latest reading nor in its history, whatever is restored later and however late
\* it comes (cloud_schema.sql: "moves and restores never authorize uploads from a
\* retirement gap").
GapIsNeverStored == /\ \A s \in history : s.assigned
                    /\ shown # NoSample => shown.assigned

\* A latest reading is shown for an enabled device only, and was read since its
\* registration last changed: not one that a poll in flight, or a request on its
\* way, brought from before (ingest_latest, track_device_assignment).
ShownIsCurrent == shown # NoSample => reg.on /\ reg.since <= shown.t

\* The outage's edge is in the history: once a device is reported offline, the
\* sample it last gave is kept, at the time it was read ("Save the last actually
\* received sample at its original timestamp"), as long as the local database takes
\* what is written to it: the sample of a write that fails is dropped.
LastSampleKept ==
  (latest.kind = "offline" /\ latest.sample # NoSample /\ poll.pc # "saving")
    => latest.sample \in rows

\* However polls, changes and restarts interleave, sessions follow the
\* configuration in the end: no removed device holds its gateway's only session.
SessionsFollow == <>[](client # None => conf.on /\ client = conf.at)
================================================================================
