------------------------------- MODULE AlarmUpload ------------------------------
(***************************************************************************)
(* The alarms channel, composed with the alarm evaluator: the evaluator    *)
(* keeps changing rows of alarm_events while the upload thread             *)
(* (CloudSyncService.sync_alarms_once in cloud_sync.py) sends them, the    *)
(* cloud upserts them (ingest_alarms in cloud_api.py) and the retention    *)
(* pass deletes them (storage_maintenance.py).                             *)
(*                                                                         *)
(* A request carries the rows as they were when they were read, so sent,   *)
(* todo and late hold snapshots, never references to the table.            *)
(***************************************************************************)
EXTENDS AlarmEvaluator, FiniteSets

CONSTANTS
  BadEvents,    \* events whose payload fails the cloud's validation (400/422)
  Gaps,         \* what assignment periods may leave uncovered (403): sets of
                \* <<e, FALSE>>, the start of event e, and <<e, TRUE>>, its end
  BatchSize,    \* rows taken per request (batch_size)
  MaxAttempts,  \* rejections before a row is quarantined (max_item_attempts)
  MaxLate,      \* bound: abandoned requests the cloud may still process
  MaxRestarts   \* bound: restarts of the collector

EventId == 1..MaxEvents

ASSUME ChannelAssumption == /\ BadEvents \subseteq EventId
                            /\ Gaps \subseteq SUBSET (EventId \X BOOLEAN)
                            /\ BatchSize \in Nat \ {0}
                            /\ MaxAttempts \in Nat \ {0}
                            /\ MaxLate \in Nat
                            /\ MaxRestarts \in Nat

VARIABLES
  sent,      \* snapshots in the request in progress, {} between requests
  todo,      \* snapshots of a rejected batch still to be sent one by one
  reply,     \* the answer to the request in progress
  late,      \* abandoned requests that may still reach the cloud
  attempts,  \* alarm_events.sync_attempts
  gone,      \* events deleted by the retention pass
  cloud,     \* the cloud's alarm_events table
  uncovered, \* starts and ends that no row of device_assignment_periods covers
  restarts   \* restarts so far

channel == <<sent, todo, reply>>
alarmVars == <<evalVars, channel, late, attempts, gone, cloud, uncovered, restarts>>

NoRow == [ended |-> FALSE, peak |-> 0, stored |-> FALSE]

Snapshot == [id : EventId, ended : BOOLEAN, peak : Value]

AlarmTypeOK == /\ EvalTypeOK
               /\ sent \in SUBSET Snapshot
               /\ todo \in SUBSET Snapshot
               /\ reply \in {"none", "ok", "invalid", "error"}
               /\ late \in SUBSET (SUBSET Snapshot)
               /\ attempts \in [EventId -> 0..MaxAttempts]
               /\ gone \in SUBSET DOMAIN events
               /\ cloud \in [EventId -> [ended : BOOLEAN, peak : Value \cup {0},
                                         stored : BOOLEAN]]
               /\ uncovered \in Gaps
               /\ restarts \in 0..MaxRestarts

AlarmInit == /\ EvalInit
             /\ sent = {}
             /\ todo = {}
             /\ reply = "none"
             /\ late = {}
             /\ attempts = [e \in EventId |-> 0]
             /\ gone = {}
             /\ cloud = [e \in EventId |-> NoRow]
             /\ uncovered \in Gaps
             /\ restarts = 0

Ids(S) == {x.id : x \in S}

--------------------------------------------------------------------------------
(* The upload thread. *)

\* Device events not synced and not quarantined.
Pending == {e \in DOMAIN events : /\ e \notin gone
                                  /\ events[e].source = "device"
                                  /\ ~events[e].synced
                                  /\ attempts[e] < MaxAttempts}

\* ORDER BY sync_attempts, started_at: events are numbered as they start.
Before(d, e) == \/ attempts[d] < attempts[e]
                \/ attempts[d] = attempts[e] /\ d < e

PendingRows ==
  {e \in Pending : Cardinality({d \in Pending : Before(d, e)}) < BatchSize}

SnapshotOf(e) == [id |-> e, ended |-> events[e].ended, peak |-> events[e].peak]

Select == /\ sent = {}
          /\ Pending # {}
          /\ sent' = {SnapshotOf(e) : e \in PendingRows}
          /\ UNCHANGED <<evalVars, todo, reply, late, attempts, gone, cloud, uncovered,
                         restarts>>

\* The batch is retried in the order it was read, whatever attempts are now:
\* rows not yet sent alone have not been charged, so the order is the same.
IsFirst(x, S) == \A y \in S \ {x} : Before(x.id, y.id)

SendFirst(S) == \E x \in S : /\ IsFirst(x, S)
                             /\ sent' = {x}
                             /\ todo' = S \ {x}

Advance == /\ reply' = "none"
           /\ \/ todo = {} /\ sent' = {} /\ todo' = {}
              \/ SendFirst(todo)

\* UPDATE alarm_events SET synced_at WHERE id IN (the rows sent), whatever
\* the evaluator has written to them since they were read.
Acknowledge ==
  /\ sent # {}
  /\ reply = "ok"
  /\ events' = [e \in DOMAIN events |->
                  IF e \in Ids(sent) THEN [events[e] EXCEPT !.synced = TRUE]
                                     ELSE events[e]]
  /\ Advance
  /\ UNCHANGED <<alarm, age, rule, source, streak, late, attempts, gone, cloud, uncovered,
                 restarts>>

Split == /\ reply = "invalid"
         /\ Cardinality(sent) > 1
         /\ SendFirst(sent)
         /\ reply' = "none"
         /\ UNCHANGED <<evalVars, late, attempts, gone, cloud, uncovered, restarts>>

\* Mutant: every row of the batch is charged, also those not yet sent alone.
RejectItemChargesTodo ==
  /\ reply = "invalid"
  /\ Cardinality(sent) = 1
  /\ attempts' = [e \in EventId |-> IF e \in Ids(sent \cup todo) THEN attempts[e] + 1
                                                                 ELSE attempts[e]]
  /\ Advance
  /\ UNCHANGED <<evalVars, late, gone, cloud, uncovered, restarts>>

\* A row sent alone was rejected; at MaxAttempts it is quarantined.
RejectItem ==
  /\ reply = "invalid"
  /\ Cardinality(sent) = 1
  /\ attempts' = [e \in EventId |-> IF e \in Ids(sent) THEN attempts[e] + 1
                                                       ELSE attempts[e]]
  /\ Advance
  /\ UNCHANGED <<evalVars, late, gone, cloud, uncovered, restarts>>

GiveUp == /\ reply = "error"
          /\ reply' = "none"
          /\ sent' = {}
          /\ todo' = {}
          /\ UNCHANGED <<evalVars, late, attempts, gone, cloud, uncovered, restarts>>

\* The request in progress is lost, or reaches the cloud once nobody waits.
Abandoned == \/ UNCHANGED late
             \/ /\ Cardinality(late) < MaxLate
                /\ late' = late \cup {sent}

TimedOut == /\ sent # {}
            /\ reply = "none"
            /\ reply' = "error"
            /\ Abandoned
            /\ UNCHANGED <<evalVars, sent, todo, attempts, gone, cloud, uncovered, restarts>>

\* The collector starts again, reading from src; the database survives.
Restart(src) == /\ restarts < MaxRestarts
                /\ restarts' = restarts + 1
                /\ RestartWith(src)
                /\ sent' = {}
                /\ todo' = {}
                /\ reply' = "none"
                /\ IF sent # {} /\ reply = "none" THEN Abandoned ELSE UNCHANGED late
                /\ UNCHANGED <<attempts, gone, cloud, uncovered>>

--------------------------------------------------------------------------------
(* The cloud, and the retention pass. *)

\* Mutant: the request's ended_at replaces the stored one.
MergeLastWins(old, x) == [ended |-> x.ended, peak |-> x.peak, stored |-> TRUE]

\* ended_at = COALESCE(stored, sent), peak_value = the one sent.
Merge(old, x) == [ended |-> old.ended \/ x.ended, peak |-> x.peak, stored |-> TRUE]

\* authorize_ingest_target, at ended_at or started_at.
Refused(x) == <<x.id, x.ended>> \in uncovered

\* The payload is validated before any row is looked at; a 403 is not permanent
\* for the upload thread.
Verdict(S) == IF Ids(S) \cap BadEvents # {} THEN "invalid"
              ELSE IF \E x \in S : Refused(x) THEN "error" ELSE "ok"

\* One transaction: an invalid or refused event undoes the whole request.
Upsert(S) ==
  cloud' = [e \in EventId |-> IF Verdict(S) = "ok" /\ e \in Ids(S)
                              THEN Merge(cloud[e], CHOOSE x \in S : x.id = e)
                              ELSE cloud[e]]

Ingest == /\ sent # {}
          /\ reply = "none"
          /\ Upsert(sent)
          /\ reply' = Verdict(sent)
          /\ UNCHANGED <<evalVars, sent, todo, late, attempts, gone, uncovered, restarts>>

IngestLate(S) == /\ S \in late
                 /\ Upsert(S)
                 /\ late' = late \ {S}
                 /\ UNCHANGED <<evalVars, channel, attempts, gone, uncovered, restarts>>

\* Mutant: ended events are deleted whether they were uploaded or not.
PruneEnded(e) == /\ e \in DOMAIN events \ gone
                 /\ events[e].ended
                 /\ gone' = gone \cup {e}
                 /\ UNCHANGED <<evalVars, channel, late, attempts, cloud, uncovered, restarts>>

\* Old enough, ended_at IS NOT NULL and synced_at IS NOT NULL.
Prune(e) == /\ e \in DOMAIN events \ gone
            /\ events[e].ended
            /\ events[e].synced
            /\ gone' = gone \cup {e}
            /\ UNCHANGED <<evalVars, channel, late, attempts, cloud, uncovered, restarts>>

--------------------------------------------------------------------------------
UploadStep == Select \/ Acknowledge \/ Split \/ RejectItem \/ GiveUp

Evaluator == /\ EvalStep
             /\ UNCHANGED <<channel, late, attempts, gone, cloud, uncovered, restarts>>

AlarmNext == \/ Evaluator
             \/ UploadStep
             \/ TimedOut
             \/ Ingest
             \/ \E S \in late : IngestLate(S)
             \/ \E e \in EventId : Prune(e)
             \/ \E src \in Sources : Restart(src)

(***************************************************************************)
(* The alarms thread loops for ever, and a request that is retried for     *)
(* ever is answered in the end.                                            *)
(***************************************************************************)
AlarmFairness == /\ WF_alarmVars(UploadStep)
                 /\ SF_alarmVars(Cardinality(sent) > 1 /\ Ingest)
                 /\ \A e \in EventId : SF_alarmVars(Ids(sent) = {e} /\ Ingest)

AlarmSpec == AlarmInit /\ [][AlarmNext]_alarmVars
FairAlarmSpec == AlarmSpec /\ AlarmFairness

--------------------------------------------------------------------------------
(* Properties. *)

(***************************************************************************)
(* An alarm deleted from the collector is in the cloud: the retention pass *)
(* never destroys the only record of an alarm.                             *)
(***************************************************************************)
PrunedIsStored == \A e \in gone : cloud[e].stored

(***************************************************************************)
(* What the cloud holds of an alarm was once true: it has no alarm the     *)
(* collector did not raise, none it has ended that is still open, and no   *)
(* peak above the one measured, whichever snapshots arrive, and when.      *)
(***************************************************************************)
CloudNotAhead ==
  \A e \in EventId :
    cloud[e].stored => /\ e \in DOMAIN events
                       /\ events[e].source = "device"
                       /\ cloud[e].ended => events[e].ended
                       /\ cloud[e].peak <= events[e].peak

(***************************************************************************)
(* An alarm the cloud knows to be over stays over: a snapshot taken while  *)
(* it was open, delayed or sent again, never reopens it.                   *)
(***************************************************************************)
CloudEndIsFinal ==
  [][\A e \in EventId : cloud[e].ended => cloud'[e].ended]_alarmVars

(***************************************************************************)
(* The refinement: an alarm exists for the mirror from the insert of its   *)
(* event on, if a device raised it, and its rows in the two databases say  *)
(* how far it is known.  The demo generator's alarms exist for nobody.     *)
(***************************************************************************)
Raised(e) == e \in DOMAIN events /\ events[e].source = "device"

LocalAlarms == [e \in EventId |-> IF e \in gone THEN "forgotten"
                                  ELSE IF ~Raised(e) THEN "none"
                                  ELSE IF events[e].ended THEN "ended" ELSE "open"]

KnownAlarms == [e \in EventId |-> IF ~cloud[e].stored THEN "none"
                                  ELSE IF cloud[e].ended THEN "ended" ELSE "open"]

Mirror == INSTANCE AlarmMirror WITH Alarm <- EventId, local <- LocalAlarms,
                                    known <- KnownAlarms

\* The evaluator, the upload with its lost, late and repeated requests, and the
\* retention pass keep what AlarmMirror promises of every alarm of a device.
ImplementsAlarmMirror == Mirror!Spec

(***************************************************************************)
(* Every alarm raised by a device reaches the cloud, or is quarantined     *)
(* when the cloud rejects that alarm itself: a rejected alarm never blocks *)
(* the ones that share its batches, and is never charged to them.  This is *)
(* not so of an alarm that the cloud answers with 403: one that stays      *)
(* pending is read again for ever, and its batch with it.                  *)
(***************************************************************************)
Blocked == \E e \in Pending \ BadEvents : Refused(SnapshotOf(e))

EveryAlarmSettles ==
  \/ <>[]Blocked
  \/ \A e \in EventId :
       Raised(e) ~> (cloud[e].stored \/ (e \in BadEvents /\ attempts[e] = MaxAttempts))

(***************************************************************************)
(* An alarm deleted from the collector was acknowledged as it finally was: *)
(* the cloud knows that it is over (README: alarm events upload on         *)
(* activation, peak updates, and clearing; the local cache prunes only     *)
(* cloud-acknowledged records).                                            *)
(***************************************************************************)
PrunedIsAcknowledged == \A e \in gone : cloud[e].ended
================================================================================
