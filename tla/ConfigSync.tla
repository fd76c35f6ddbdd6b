------------------------------- MODULE ConfigSync -------------------------------
(***************************************************************************)
(* How a collector follows its site's configuration in the cloud           *)
(* (cloud_sync.py, edge_configuration_payload and edge_heartbeat in        *)
(* cloud_api.py).  The configuration channel pulls; the console, on the    *)
(* HTTP server's threads, creates rooms and devices or pushes the whole    *)
(* configuration, and applies what the cloud answers.  Nothing serializes  *)
(* these threads.                                                          *)
(*                                                                         *)
(* Every committed edit of the topology increments sites.config_version,   *)
(* so a revision also names the configuration that was current with it.    *)
(***************************************************************************)
EXTENDS Naturals, FiniteSets

CONSTANTS
  Console,      \* HTTP threads of the collector's console that edit
  MaxRevision,  \* bound: edits of the cloud's configuration
  MaxFailures   \* bound: lost answers, failed applications and restarts

ASSUME ConfigAssumption == MaxRevision \in Nat \ {0} /\ MaxFailures \in Nat

VARIABLES
  cloud,     \* sites.config_version
  local,     \* the configuration in the collector's tables, 0 before the first
  last,      \* _last_config_revision, 0 for None
  saved,     \* applied_config_revision in cloud_sync_state
  status,    \* config_apply_status
  task,      \* what each thread is doing
  reported,  \* sites.applied_config_version, as the last heartbeat reported it
  failures,  \* failures so far
  overlap    \* history: were two threads ever at work at the same time

configVars == <<cloud, local, last, saved, status, task, reported, failures,
                overlap>>

Thread == {"config"} \cup Console
Revision == 0..MaxRevision

\* An answer: the revision it states, and the revision its rooms belong to.
NoTask == [step |-> "idle", revision |-> 0, rooms |-> 0]
Step == {"idle", "asked", "pushed", "answered", "answeredPush", "applied"}

\* Beyond the types, a revision is on record only with some configuration.
ConfigTypeOK == /\ cloud \in Revision \ {0}
                /\ local \in Revision
                /\ last \in Revision
                /\ saved \in Revision
                /\ status \in {"awaiting", "applied", "failed"}
                /\ task \in [Thread -> [step : Step, revision : Revision, rooms : Revision]]
                /\ reported \in Revision
                /\ failures \in 0..MaxFailures
                /\ overlap \in BOOLEAN
                /\ last # 0 => local # 0

ConfigInit == /\ cloud = 1
              /\ local = 0
              /\ last = 0
              /\ saved = 0
              /\ status = "awaiting"
              /\ task = [t \in Thread |-> NoTask]
              /\ reported = 0
              /\ failures = 0
              /\ overlap = FALSE

Idle(t) == task[t].step = "idle"
Return(t) == task' = [task EXCEPT ![t] = NoTask]

Fail == /\ failures < MaxFailures
        /\ failures' = failures + 1

--------------------------------------------------------------------------------
(* The cloud. *)

\* An administrator edits the topology or the thresholds in the cloud.
CloudEdit == /\ cloud < MaxRevision
             /\ cloud' = cloud + 1
             /\ UNCHANGED <<local, last, saved, status, task, reported, failures, overlap>>

\* Mutant: rooms and revision are read in two transactions.
AnswerTorn(t, rev) == \E rooms \in {rev - 1, rev} \ {0} :
  task' = [task EXCEPT ![t] = [step |-> "answered", revision |-> rev, rooms |-> rooms]]

\* edge_configuration_payload: one REPEATABLE READ snapshot.
AnswerWith(t, rev) ==
  task' = [task EXCEPT ![t] = [step |-> "answered", revision |-> rev, rooms |-> rev]]

AnswerPull(t) == /\ t = "config"
                 /\ task[t].step = "asked"
                 /\ AnswerWith(t, cloud)
                 /\ UNCHANGED <<cloud, local, last, saved, status, reported, failures, overlap>>

\* edge_create_cleanroom, edge_create_device: commit, then read the snapshot.
AnswerCreate(t) == /\ t \in Console
                   /\ task[t].step = "asked"
                   /\ cloud < MaxRevision
                   /\ cloud' = cloud + 1
                   /\ AnswerWith(t, cloud + 1)
                   /\ UNCHANGED <<local, last, saved, status, reported, failures, overlap>>

\* apply_customer_config: commit, then answer with the rooms alone.
AnswerPush(t) == /\ task[t].step = "pushed"
                 /\ cloud < MaxRevision
                 /\ cloud' = cloud + 1
                 /\ task' = [task EXCEPT ![t] = [step |-> "answeredPush", revision |-> 0,
                                                 rooms |-> cloud + 1]]
                 /\ UNCHANGED <<local, last, saved, status, reported, failures, overlap>>

--------------------------------------------------------------------------------
(* The collector. *)

Start(t, step) == /\ task' = [task EXCEPT ![t].step = step]
                  /\ overlap' = (overlap \/ \E u \in Thread \ {t} : ~Idle(u))

\* pull_config_once, or create_cleanroom_once or create_device_once.
Ask(t) == /\ Idle(t)
          /\ Start(t, "asked")
          /\ UNCHANGED <<cloud, local, last, saved, status, reported, failures>>

\* push_config_once
Push(t) == /\ t \in Console
           /\ Idle(t)
           /\ Start(t, "pushed")
           /\ UNCHANGED <<cloud, local, last, saved, status, reported, failures>>

AlreadyApplied(t) == /\ task[t].step = "answered"
                     /\ task[t].revision = last
                     /\ status' = "applied"
                     /\ Return(t)
                     /\ UNCHANGED <<cloud, local, last, saved, reported, failures, overlap>>

\* Mutant: the revision is recorded before the configuration is applied.
ApplyAfterRecording(t) ==
  /\ task[t].step = "answered"
  /\ task[t].revision # last
  /\ last' = task[t].revision
  /\ saved' = task[t].revision
  /\ task' = [task EXCEPT ![t].step = "applied"]
  /\ UNCHANGED <<cloud, local, status, reported, failures, overlap>>

\* config_applier replaces the rooms and devices in one transaction.
Apply(t) == /\ task[t].step = "answered"
            /\ task[t].revision # last
            /\ local' = task[t].rooms
            /\ task' = [task EXCEPT ![t].step = "applied"]
            /\ UNCHANGED <<cloud, last, saved, status, reported, failures, overlap>>

\* The applier fails and its transaction is rolled back.
ApplyFails(t) == /\ task[t].step = "answered"
                 /\ task[t].revision # last
                 /\ Fail
                 /\ status' = "failed"
                 /\ Return(t)
                 /\ UNCHANGED <<cloud, local, last, saved, reported, overlap>>

\* _last_config_revision, then its row in the database, then the status.
Record(t) == /\ task[t].step = "applied"
             /\ last' = task[t].revision
             /\ saved' = task[t].revision
             /\ status' = "applied"
             /\ Return(t)
             /\ UNCHANGED <<cloud, local, reported, failures, overlap>>

\* Mutant: the revision made up for the applier, the clock's, is recorded.
ApplyPushedRecords(t) == /\ task[t].step = "answeredPush"
                         /\ local' = task[t].rooms
                         /\ last' = MaxRevision
                         /\ saved' = MaxRevision
                         /\ Return(t)
                         /\ UNCHANGED <<cloud, status, reported, failures, overlap>>

\* push_config_once applies the rooms and records no revision.
ApplyPushed(t) == /\ task[t].step = "answeredPush"
                  /\ local' = task[t].rooms
                  /\ Return(t)
                  /\ UNCHANGED <<cloud, last, saved, status, reported, failures, overlap>>

\* The request or its answer is lost.
Lost(t) == /\ task[t].step \in {"asked", "pushed", "answered", "answeredPush"}
           /\ Fail
           /\ Return(t)
           /\ UNCHANGED <<cloud, local, last, saved, status, reported, overlap>>

\* heartbeat_once; edge_heartbeat refuses a revision newer than its own (409).
Heartbeat == /\ last # 0
             /\ last <= cloud
             /\ reported # last
             /\ reported' = last
             /\ UNCHANGED <<cloud, local, last, saved, status, task, failures, overlap>>

\* The process starts again: __init__ loads the saved revision.
Restart == /\ Fail
           /\ last' = saved
           /\ status' = IF saved = 0 THEN "awaiting" ELSE "applied"
           /\ task' = [t \in Thread |-> NoTask]
           /\ UNCHANGED <<cloud, local, saved, reported, overlap>>

--------------------------------------------------------------------------------
Pulling == \/ Ask("config")
           \/ AnswerPull("config")
           \/ AlreadyApplied("config")
           \/ Apply("config")
           \/ Record("config")

Answering(t) == \/ AlreadyApplied(t) \/ Apply(t) \/ Record(t) \/ ApplyPushed(t)

Editing(t) == \/ Ask(t) \/ Push(t)
              \/ AnswerCreate(t) \/ AnswerPush(t)
              \/ Answering(t)

ConfigNext == \/ CloudEdit
              \/ Pulling
              \/ \E t \in Console : Editing(t)
              \/ \E t \in Thread : Lost(t) \/ ApplyFails(t)
              \/ Heartbeat
              \/ Restart

ConfigSpec == ConfigInit /\ [][ConfigNext]_configVars

(***************************************************************************)
(* The configuration and heartbeat channels loop for ever; a step of the   *)
(* pull, once possible, is taken, and a request of the console that was    *)
(* answered is finished.                                                   *)
(***************************************************************************)
FairConfigSpec == /\ ConfigSpec
                  /\ WF_configVars(Pulling)
                  /\ \A t \in Console : WF_configVars(Answering(t))
                  /\ WF_configVars(Heartbeat)

--------------------------------------------------------------------------------
(* Properties. *)

(***************************************************************************)
(* The collector never reports, nor remembers across a restart, a revision *)
(* newer than the configuration in its tables: a crash or a failed         *)
(* application leaves the old revision on record.  Threads that overlap    *)
(* break this, see NothingStaleUnderNewRevision.                           *)
(***************************************************************************)
ReportedIsRunning == ~overlap => saved <= local /\ reported <= local

(***************************************************************************)
(* The revision on record was issued by the cloud: the heartbeat is never  *)
(* refused (409) for a revision newer than the cloud's own.                *)
(***************************************************************************)
NeverAheadOfCloud == last <= cloud

(***************************************************************************)
(* An answer is applied because its revision is another one, not because   *)
(* it is newer (_apply_configuration_payload compares for equality), so    *)
(* nothing in the collector keeps an older answer out.  Yet, unless its    *)
(* threads overlap, the configuration it runs, the revision on record and  *)
(* the one reported never go back, whatever fails or starts again.         *)
(***************************************************************************)
NeverGoesBack ==
  [][~overlap' => local <= local' /\ last <= last' /\ reported <= reported']_configVars

(***************************************************************************)
(* Once the cloud's configuration stops changing (it does, MaxRevision     *)
(* bounds its edits), the collector ends up running it and says so, unless *)
(* two of its threads were at work at the same time.                       *)
(***************************************************************************)
Converged == local = cloud /\ last = cloud /\ reported = cloud
ConfigConverges == <>[](Converged \/ overlap)

(***************************************************************************)
(* No old configuration is left in the tables while the collector believes *)
(* it runs the current one, which it would then never pull again (comment  *)
(* in edge_configuration_payload: a collector may permanently cache old    *)
(* devices under the new revision; _create_topology_item_once: atomically  *)
(* apply the returned revision).                                           *)
(***************************************************************************)
NothingStaleUnderNewRevision ==
  (\A t \in Thread : Idle(t)) => ~(last = cloud /\ local < cloud)
================================================================================
