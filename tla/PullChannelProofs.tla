--------------------------- MODULE PullChannelProofs ---------------------------
(***************************************************************************)
(* Proofs about the two channels on which a collector asks the cloud what  *)
(* to do: its configuration, for any console threads, edits and failures,  *)
(* and its discovery jobs, for any jobs, administrators, collectors and    *)
(* addresses.                                                              *)
(***************************************************************************)
EXTENDS ConfigSync, DiscoveryJobs, TLAPS

(***************************************************************************)
(* What a thread holds came from the cloud, and an answer always carries   *)
(* some configuration.                                                     *)
(***************************************************************************)
TaskInv(t) == /\ task[t].revision <= cloud
              /\ task[t].rooms <= cloud
              /\ task[t].step \in {"answered", "answeredPush", "applied"} =>
                   task[t].rooms # 0
              /\ task[t].step = "applied" => local # 0

(***************************************************************************)
(* While threads do not overlap: an answer is at least as new as the       *)
(* tables, its revision names its rooms, and what is applied but not yet   *)
(* on record is what the tables hold.                                      *)
(***************************************************************************)
AloneInv == /\ \A t, u \in Thread : Idle(t) \/ Idle(u) \/ t = u
            /\ saved <= local
            /\ reported <= saved
            /\ \A t \in Thread :
                 /\ task[t].step = "answered" =>
                      task[t].revision = task[t].rooms /\ local <= task[t].rooms
                 /\ task[t].step = "answeredPush" => local <= task[t].rooms
                 /\ task[t].step = "applied" => task[t].revision = local

ConfigInv == /\ ConfigTypeOK
             /\ last = saved
             /\ saved <= cloud
             /\ local <= cloud
             /\ \A t \in Thread : TaskInv(t)
             /\ ~overlap => AloneInv

TaskRow == [step : Step, revision : Revision, rooms : Revision]

\* No step of the configuration channel goes back, threads permitting.
NotBack == ~overlap' => local <= local' /\ last <= last' /\ reported <= reported'

--------------------------------------------------------------------------------
(* The configuration channel.                                               *)

LEMMA RevisionsAreNumbers ==
  ASSUME ConfigTypeOK
  PROVE  /\ cloud \in Nat /\ local \in Nat /\ last \in Nat /\ saved \in Nat
         /\ reported \in Nat /\ cloud # 0 /\ MaxRevision \in Nat
         /\ \A t \in Thread : /\ task[t] \in TaskRow
                              /\ task[t].revision \in Nat /\ task[t].rooms \in Nat
BY ConfigAssumption DEF ConfigTypeOK, Revision, TaskRow

\* Only the thread that takes the step has another task after it.
LEMMA WriteTask ==
  ASSUME ConfigTypeOK, NEW t \in Thread, NEW new \in TaskRow,
         task' = [task EXCEPT ![t] = new]
  PROVE  /\ task' \in [Thread -> TaskRow] /\ task'[t] = new
         /\ \A u \in Thread \ {t} : task'[u] = task[u]
BY DEF ConfigTypeOK, TaskRow

LEMMA NoTaskIsRow == NoTask \in TaskRow
BY ConfigAssumption DEF NoTask, TaskRow, Step, Revision

LEMMA ConfigInitInv == ConfigInit => ConfigInv
<1>. SUFFICES ASSUME ConfigInit PROVE ConfigInv
  OBVIOUS
<1>. USE DEF ConfigInit
<1>1. /\ cloud = 1 /\ local = 0 /\ last = 0 /\ saved = 0 /\ reported = 0 /\ failures = 0
      /\ status = "awaiting" /\ overlap = FALSE
      /\ \A t \in Thread : task[t] = NoTask
  OBVIOUS
<1>2. ConfigTypeOK
  <2>1. task \in [Thread -> TaskRow]
    BY NoTaskIsRow
  <2>2. cloud \in Revision \ {0} /\ 0 \in Revision /\ failures \in 0..MaxFailures
    BY ConfigAssumption DEF Revision
  <2>. QED  BY <1>1, <2>1, <2>2 DEF ConfigTypeOK, TaskRow
<1>3. \A t \in Thread : TaskInv(t)
  BY <1>1 DEF TaskInv, NoTask
<1>4. AloneInv
  BY <1>1 DEF AloneInv, Idle, NoTask
<1>. QED  BY <1>1, <1>2, <1>3, <1>4 DEF ConfigInv

(* The steps in which the cloud changes, and those that answer a thread.    *)
LEMMA CloudEditStep ==
  ASSUME ConfigInv, CloudEdit
  PROVE  ConfigInv' /\ NotBack
<1>1. /\ cloud < MaxRevision /\ cloud' = cloud + 1
      /\ UNCHANGED <<local, last, saved, status, task, reported, failures, overlap>>
  BY DEF CloudEdit
<1>2. /\ cloud \in Nat /\ local \in Nat /\ last \in Nat /\ saved \in Nat
      /\ reported \in Nat /\ MaxRevision \in Nat
      /\ \A t \in Thread : task[t].revision \in Nat /\ task[t].rooms \in Nat
  BY RevisionsAreNumbers DEF ConfigInv
<1>3. ConfigTypeOK'
  BY <1>1, <1>2 DEF ConfigInv, ConfigTypeOK, Revision
<1>4. \A t \in Thread : TaskInv(t)'
  BY <1>1, <1>2 DEF ConfigInv, TaskInv
<1>5. ~overlap' => AloneInv'
  BY <1>1 DEF ConfigInv, AloneInv, Idle
<1>. QED  BY <1>1, <1>2, <1>3, <1>4, <1>5 DEF ConfigInv, NotBack

\* A thread gets an answer that states at most the cloud's revision by then.
LEMMA AnswerStep ==
  ASSUME ConfigInv, NEW t \in Thread, NEW step \in {"answered", "answeredPush"},
         NEW rev \in {0, cloud'},
         task' = [task EXCEPT ![t] = [step |-> step, revision |-> rev, rooms |-> cloud']],
         ~Idle(t), cloud' \in Revision, cloud <= cloud', step = "answered" => rev = cloud',
         UNCHANGED <<local, last, saved, status, reported, failures, overlap>>
  PROVE  ConfigInv' /\ NotBack
<1>. DEFINE new == [step |-> step, revision |-> rev, rooms |-> cloud']
<1>1. /\ cloud \in Nat /\ local \in Nat /\ last \in Nat /\ saved \in Nat
      /\ reported \in Nat /\ cloud # 0 /\ MaxRevision \in Nat
      /\ \A u \in Thread : task[u].revision \in Nat /\ task[u].rooms \in Nat
  BY RevisionsAreNumbers DEF ConfigInv
<1>2. /\ task' \in [Thread -> TaskRow] /\ task'[t] = new
      /\ \A u \in Thread \ {t} : task'[u] = task[u]
  <2>1. new \in TaskRow
    BY ConfigAssumption DEF TaskRow, Step, Revision
  <2>. QED  BY <2>1, WriteTask DEF ConfigInv
<1>3. cloud' \in Nat /\ cloud' # 0 /\ rev \in Nat /\ rev <= cloud'
  BY <1>1 DEF Revision
<1>4. ConfigTypeOK'
  BY <1>2, <1>3 DEF ConfigInv, ConfigTypeOK, TaskRow, Revision
<1>5. \A u \in Thread : TaskInv(u)'
  BY <1>1, <1>2, <1>3 DEF ConfigInv, TaskInv
<1>6. ASSUME ~overlap' PROVE AloneInv'
  <2>1. AloneInv
    BY <1>6 DEF ConfigInv
  <2>2. \A u \in Thread : Idle(u)' => Idle(u)
    BY <1>2 DEF Idle
  <2>3. local <= cloud'
    BY <1>1, <1>3 DEF ConfigInv
  <2>. QED  BY <1>2, <2>1, <2>2, <2>3 DEF AloneInv, Idle
<1>. QED  BY <1>1, <1>3, <1>4, <1>5, <1>6 DEF ConfigInv, NotBack

LEMMA AnswersStep ==
  ASSUME ConfigInv, NEW t \in Thread, AnswerPull(t) \/ AnswerCreate(t) \/ AnswerPush(t)
  PROVE  ConfigInv' /\ NotBack
<1>1. /\ cloud \in Nat /\ cloud \in Revision
      /\ cloud < MaxRevision => cloud + 1 \in Revision
  BY RevisionsAreNumbers DEF ConfigInv, ConfigTypeOK, Revision
<1>2. /\ ~Idle(t) /\ cloud' \in Revision /\ cloud <= cloud'
      /\ UNCHANGED <<local, last, saved, status, reported, failures, overlap>>
  BY <1>1 DEF AnswerPull, AnswerCreate, AnswerPush, AnswerWith, Idle
<1>3. CASE AnswerPull(t) \/ AnswerCreate(t)
  <2>1. task' = [task EXCEPT ![t] = [step |-> "answered", revision |-> cloud',
                                     rooms |-> cloud']]
    BY <1>3 DEF AnswerPull, AnswerCreate, AnswerWith
  <2>. QED  BY <1>2, <2>1, AnswerStep
<1>4. CASE AnswerPush(t)
  <2>1. task' = [task EXCEPT ![t] = [step |-> "answeredPush", revision |-> 0,
                                     rooms |-> cloud']]
    BY <1>4 DEF AnswerPush
  <2>. QED  BY <1>2, <2>1, AnswerStep
<1>. QED  BY <1>3, <1>4

(* The steps of the collector, each by one thread.                          *)
LEMMA StartStep ==
  ASSUME ConfigInv, NEW t \in Thread, NEW step \in {"asked", "pushed"},
         Idle(t), Start(t, step),
         UNCHANGED <<cloud, local, last, saved, status, reported, failures>>
  PROVE  ConfigInv' /\ NotBack
<1>. DEFINE new == [task[t] EXCEPT !.step = step]
<1>1. /\ cloud \in Nat /\ local \in Nat /\ last \in Nat /\ saved \in Nat /\ reported \in Nat
      /\ \A u \in Thread : task[u] \in TaskRow
  BY RevisionsAreNumbers DEF ConfigInv
<1>2. /\ new \in TaskRow /\ new.step = step
      /\ new.revision = task[t].revision /\ new.rooms = task[t].rooms
  BY <1>1 DEF TaskRow, Step
<1>3. /\ task' = [task EXCEPT ![t] = new]
      /\ overlap' = (overlap \/ \E u \in Thread \ {t} : ~Idle(u))
  BY DEF Start
<1>. HIDE DEF new
<1>4. /\ task' \in [Thread -> TaskRow] /\ task'[t] = new
      /\ \A u \in Thread \ {t} : task'[u] = task[u]
  BY <1>2, <1>3, WriteTask DEF ConfigInv
<1>5. overlap' \in BOOLEAN
  BY <1>3 DEF ConfigInv, ConfigTypeOK
<1>6. ConfigTypeOK'
  BY <1>4, <1>5 DEF ConfigInv, ConfigTypeOK, TaskRow
<1>7. \A u \in Thread : TaskInv(u)'
  BY <1>2, <1>4 DEF ConfigInv, TaskInv
<1>8. ASSUME ~overlap' PROVE AloneInv'
  <2>1. AloneInv /\ \A u \in Thread \ {t} : Idle(u)
    BY <1>3, <1>8 DEF ConfigInv
  <2>2. \A u \in Thread \ {t} : Idle(u)'
    BY <1>4, <2>1 DEF Idle
  <2>. QED  BY <1>2, <1>4, <2>1, <2>2 DEF AloneInv, Idle
<1>. QED  BY <1>1, <1>6, <1>7, <1>8 DEF ConfigInv, NotBack

\* A thread that is done, or gives up, with nothing changed but the status.
LEMMA ReturnStep ==
  ASSUME ConfigInv, NEW t \in Thread, Return(t),
         status' \in {"awaiting", "applied", "failed"}, failures' \in 0..MaxFailures,
         UNCHANGED <<cloud, local, last, saved, reported, overlap>>
  PROVE  ConfigInv' /\ NotBack
<1>1. /\ cloud \in Nat /\ local \in Nat /\ last \in Nat /\ saved \in Nat /\ reported \in Nat
  BY RevisionsAreNumbers DEF ConfigInv
<1>2. /\ task' \in [Thread -> TaskRow] /\ task'[t] = NoTask
      /\ \A u \in Thread \ {t} : task'[u] = task[u]
  BY NoTaskIsRow, WriteTask DEF ConfigInv, Return
<1>3. ConfigTypeOK'
  BY <1>2 DEF ConfigInv, ConfigTypeOK, TaskRow
<1>4. \A u \in Thread : TaskInv(u)'
  BY <1>1, <1>2 DEF ConfigInv, TaskInv, NoTask
<1>5. ASSUME ~overlap' PROVE AloneInv'
  <2>1. AloneInv /\ Idle(t)' /\ \A u \in Thread \ {t} : Idle(u)' <=> Idle(u)
    BY <1>2, <1>5 DEF ConfigInv, Idle, NoTask
  <2>. QED  BY <1>2, <2>1 DEF AloneInv, NoTask
<1>. QED  BY <1>1, <1>3, <1>4, <1>5 DEF ConfigInv, NotBack

LEMMA ApplyStep ==
  ASSUME ConfigInv, NEW t \in Thread, Apply(t)
  PROVE  ConfigInv' /\ NotBack
<1>. DEFINE new == [task[t] EXCEPT !.step = "applied"]
<1>1. /\ cloud \in Nat /\ local \in Nat /\ last \in Nat /\ saved \in Nat /\ reported \in Nat
      /\ \A u \in Thread : /\ task[u] \in TaskRow
                           /\ task[u].revision \in Nat /\ task[u].rooms \in Nat
  BY RevisionsAreNumbers DEF ConfigInv
<1>2. /\ task[t].step = "answered" /\ local' = task[t].rooms
      /\ task' = [task EXCEPT ![t] = new]
      /\ UNCHANGED <<cloud, last, saved, status, reported, failures, overlap>>
  BY DEF Apply
<1>3. /\ new \in TaskRow /\ new.step = "applied"
      /\ new.revision = task[t].revision /\ new.rooms = task[t].rooms
  BY <1>1 DEF TaskRow, Step
<1>. HIDE DEF new
<1>4. /\ task' \in [Thread -> TaskRow] /\ task'[t] = new
      /\ \A u \in Thread \ {t} : task'[u] = task[u]
  BY <1>2, <1>3, WriteTask DEF ConfigInv
<1>5. task[t].rooms \in Revision \ {0} /\ task[t].rooms <= cloud
  BY <1>1, <1>2 DEF TaskRow, ConfigInv, TaskInv
<1>6. ConfigTypeOK'
  BY <1>2, <1>4, <1>5 DEF ConfigInv, ConfigTypeOK, TaskRow
<1>7. \A u \in Thread : TaskInv(u)'
  BY <1>2, <1>3, <1>4, <1>5 DEF ConfigInv, TaskInv
<1>8. ASSUME ~overlap'
      PROVE  AloneInv' /\ local <= local'
  <2>1. AloneInv
    BY <1>2, <1>8 DEF ConfigInv
  <2>2. /\ \A u \in Thread \ {t} : Idle(u)
        /\ task[t].revision = task[t].rooms /\ local <= task[t].rooms
        /\ saved <= local /\ reported <= saved
    BY <1>2, <2>1 DEF AloneInv, Idle
  <2>3. \A u \in Thread \ {t} : Idle(u)' /\ task'[u].step = "idle"
    BY <1>4, <2>2 DEF Idle
  <2>4. saved' <= local' /\ local <= local'
    BY <1>1, <1>2, <2>2
  <2>. QED  BY <1>2, <1>3, <1>4, <2>2, <2>3, <2>4 DEF AloneInv
<1>. QED  BY <1>1, <1>2, <1>5, <1>6, <1>7, <1>8 DEF ConfigInv, NotBack

LEMMA RecordStep ==
  ASSUME ConfigInv, NEW t \in Thread, Record(t)
  PROVE  ConfigInv' /\ NotBack
<1>1. /\ cloud \in Nat /\ local \in Nat /\ last \in Nat /\ saved \in Nat /\ reported \in Nat
      /\ \A u \in Thread : /\ task[u] \in TaskRow
                           /\ task[u].revision \in Nat /\ task[u].rooms \in Nat
  BY RevisionsAreNumbers DEF ConfigInv
<1>2. /\ task[t].step = "applied" /\ last' = task[t].revision /\ saved' = task[t].revision
      /\ status' = "applied" /\ Return(t)
      /\ UNCHANGED <<cloud, local, reported, failures, overlap>>
  BY DEF Record
<1>3. /\ task' \in [Thread -> TaskRow] /\ task'[t] = NoTask
      /\ \A u \in Thread \ {t} : task'[u] = task[u]
  BY <1>2, NoTaskIsRow, WriteTask DEF ConfigInv, Return
<1>4. task[t].revision \in Revision /\ task[t].revision <= cloud /\ local # 0
  BY <1>1, <1>2 DEF TaskRow, ConfigInv, TaskInv
<1>5. ConfigTypeOK'
  BY <1>2, <1>3, <1>4 DEF ConfigInv, ConfigTypeOK, TaskRow
<1>6. \A u \in Thread : TaskInv(u)'
  BY <1>1, <1>2, <1>3 DEF ConfigInv, TaskInv, NoTask
<1>7. ASSUME ~overlap'
      PROVE  AloneInv' /\ last <= last'
  <2>1. AloneInv
    BY <1>2, <1>7 DEF ConfigInv
  <2>2. /\ \A u \in Thread \ {t} : Idle(u)
        /\ task[t].revision = local /\ saved <= local /\ reported <= saved
    BY <1>2, <2>1 DEF AloneInv, Idle
  <2>3. \A u \in Thread : Idle(u)' /\ task'[u].step = "idle"
    BY <1>3, <2>2 DEF Idle, NoTask
  <2>4. saved' = local' /\ reported' <= saved' /\ last <= last'
    BY <1>1, <1>2, <2>2 DEF ConfigInv
  <2>. QED  BY <1>1, <1>2, <2>3, <2>4 DEF AloneInv
<1>. QED  BY <1>1, <1>2, <1>4, <1>5, <1>6, <1>7 DEF ConfigInv, NotBack

LEMMA ApplyPushedStep ==
  ASSUME ConfigInv, NEW t \in Thread, ApplyPushed(t)
  PROVE  ConfigInv' /\ NotBack
<1>1. /\ cloud \in Nat /\ local \in Nat /\ last \in Nat /\ saved \in Nat /\ reported \in Nat
      /\ \A u \in Thread : task[u] \in TaskRow /\ task[u].rooms \in Nat
  BY RevisionsAreNumbers DEF ConfigInv
<1>2. /\ task[t].step = "answeredPush" /\ local' = task[t].rooms /\ Return(t)
      /\ UNCHANGED <<cloud, last, saved, status, reported, failures, overlap>>
  BY DEF ApplyPushed
<1>3. /\ task' \in [Thread -> TaskRow] /\ task'[t] = NoTask
      /\ \A u \in Thread \ {t} : task'[u] = task[u]
  BY <1>2, NoTaskIsRow, WriteTask DEF ConfigInv, Return
<1>4. task[t].rooms \in Revision \ {0} /\ task[t].rooms <= cloud
  BY <1>1, <1>2 DEF TaskRow, ConfigInv, TaskInv
<1>5. ConfigTypeOK'
  BY <1>2, <1>3, <1>4 DEF ConfigInv, ConfigTypeOK, TaskRow
<1>6. \A u \in Thread : TaskInv(u)'
  BY <1>1, <1>2, <1>3, <1>4 DEF ConfigInv, TaskInv, NoTask
<1>7. ASSUME ~overlap'
      PROVE  AloneInv' /\ local <= local'
  <2>1. AloneInv
    BY <1>2, <1>7 DEF ConfigInv
  <2>2. /\ \A u \in Thread \ {t} : Idle(u)
        /\ local <= task[t].rooms /\ saved <= local /\ reported <= saved
    BY <1>2, <2>1 DEF AloneInv, Idle
  <2>3. \A u \in Thread : Idle(u)' /\ task'[u].step = "idle"
    BY <1>3, <2>2 DEF Idle, NoTask
  <2>4. saved' <= local' /\ reported' <= saved' /\ local <= local'
    BY <1>1, <1>2, <2>2
  <2>. QED  BY <2>3, <2>4 DEF AloneInv
<1>. QED  BY <1>1, <1>2, <1>4, <1>5, <1>6, <1>7 DEF ConfigInv, NotBack

(* The heartbeat, and the process starting again.                           *)
LEMMA HeartbeatStep ==
  ASSUME ConfigInv, Heartbeat
  PROVE  ConfigInv' /\ NotBack
<1>1. /\ local \in Nat /\ last \in Nat /\ saved \in Nat /\ reported \in Nat
  BY RevisionsAreNumbers DEF ConfigInv
<1>2. /\ reported' = last
      /\ UNCHANGED <<cloud, local, last, saved, status, task, failures, overlap>>
  BY DEF Heartbeat
<1>3. ConfigTypeOK' /\ \A t \in Thread : TaskInv(t)'
  BY <1>2 DEF ConfigInv, ConfigTypeOK, TaskInv
<1>4. ASSUME ~overlap'
      PROVE  AloneInv' /\ reported <= reported'
  BY <1>1, <1>2, <1>4 DEF ConfigInv, AloneInv, Idle
<1>. QED  BY <1>1, <1>2, <1>3, <1>4 DEF ConfigInv, NotBack

LEMMA RestartStep ==
  ASSUME ConfigInv, Restart
  PROVE  ConfigInv' /\ NotBack
<1>1. /\ cloud \in Nat /\ local \in Nat /\ last \in Nat /\ saved \in Nat /\ reported \in Nat
  BY RevisionsAreNumbers DEF ConfigInv
<1>2. /\ failures < MaxFailures /\ failures' = failures + 1 /\ last' = saved
      /\ status' \in {"awaiting", "applied"}
      /\ task' = [t \in Thread |-> NoTask]
      /\ UNCHANGED <<cloud, local, saved, reported, overlap>>
  BY DEF Restart, Fail
<1>3. failures' \in 0..MaxFailures
  BY <1>2, ConfigAssumption DEF ConfigInv, ConfigTypeOK
<1>4. task' \in [Thread -> TaskRow] /\ \A t \in Thread : task'[t] = NoTask
  BY <1>2, NoTaskIsRow
<1>5. ConfigTypeOK'
  BY <1>2, <1>3, <1>4 DEF ConfigInv, ConfigTypeOK, TaskRow
<1>6. \A t \in Thread : TaskInv(t)'
  BY <1>1, <1>2, <1>4 DEF TaskInv, NoTask
<1>7. ~overlap' => AloneInv'
  BY <1>2, <1>4 DEF ConfigInv, AloneInv, Idle, NoTask
<1>. QED  BY <1>1, <1>2, <1>5, <1>6, <1>7 DEF ConfigInv, NotBack

LEMMA ConfigStepInv ==
  ASSUME ConfigInv, [ConfigNext]_configVars
  PROVE  ConfigInv' /\ NotBack
<1>. DEFINE Goal == ConfigInv' /\ NotBack
<1>1. "config" \in Thread /\ Console \subseteq Thread
  BY DEF Thread
<1>2. ASSUME NEW t \in Thread, Ask(t) PROVE Goal
  BY <1>2, StartStep DEF Ask
<1>3. ASSUME NEW t \in Thread, Push(t) PROVE Goal
  BY <1>3, StartStep DEF Push
<1>4. ASSUME NEW t \in Thread, AlreadyApplied(t) PROVE Goal
  BY <1>4, ReturnStep DEF AlreadyApplied, ConfigInv, ConfigTypeOK
<1>5. ASSUME NEW t \in Thread, Lost(t) \/ ApplyFails(t) PROVE Goal
  <2>1. Fail => failures' \in 0..MaxFailures
    BY ConfigAssumption DEF Fail, ConfigInv, ConfigTypeOK
  <2>. QED  BY <1>5, <2>1, ReturnStep DEF Lost, ApplyFails, ConfigInv, ConfigTypeOK
<1>6. ASSUME NEW t \in Thread, Answering(t) PROVE Goal
  BY <1>4, <1>6, ApplyStep, RecordStep, ApplyPushedStep DEF Answering
<1>7. CASE Pulling
  BY <1>1, <1>2, <1>4, <1>7, AnswersStep, ApplyStep, RecordStep DEF Pulling
<1>8. ASSUME NEW t \in Console, Editing(t) PROVE Goal
  BY <1>1, <1>2, <1>3, <1>6, <1>8, AnswersStep DEF Editing
<1>9. CASE UNCHANGED configVars
  <2>1. /\ cloud \in Nat /\ local \in Nat /\ last \in Nat /\ reported \in Nat
    BY RevisionsAreNumbers DEF ConfigInv
  <2>. QED  BY <1>9, <2>1 DEF configVars, ConfigInv, ConfigTypeOK, TaskInv, AloneInv, Idle, NotBack
<1>. QED  BY <1>5, <1>7, <1>8, <1>9, CloudEditStep, HeartbeatStep, RestartStep DEF ConfigNext

LEMMA ConfigInvariance == ConfigSpec => []ConfigInv
<1>1. ConfigInv /\ [ConfigNext]_configVars => ConfigInv'
  BY ConfigStepInv
<1>. QED  BY <1>1, ConfigInitInv, PTL DEF ConfigSpec

\* Types hold, and a revision is only ever on record with some configuration.
THEOREM ConfigTypeCorrect == ConfigSpec => []ConfigTypeOK
<1>1. ConfigInv => ConfigTypeOK
  BY DEF ConfigInv
<1>. QED  BY <1>1, ConfigInvariance, PTL

\* Unless threads overlap, neither the saved nor the reported revision is newer
\* than the tables, for any failures and restarts.
THEOREM ReportsWhatRuns == ConfigSpec => []ReportedIsRunning
<1>1. ConfigInv => ReportedIsRunning
  BY RevisionsAreNumbers DEF ConfigInv, AloneInv, ReportedIsRunning
<1>. QED  BY <1>1, ConfigInvariance, PTL

\* The heartbeat never states a revision the cloud has not issued, even when
\* threads overlap.
THEOREM RevisionIsIssued == ConfigSpec => []NeverAheadOfCloud
<1>1. ConfigInv => NeverAheadOfCloud
  BY DEF ConfigInv, NeverAheadOfCloud
<1>. QED  BY <1>1, ConfigInvariance, PTL

\* Old rooms under the current revision, the race of the README's second
\* finding, take two threads at work at the same time: nothing else leads there.
THEOREM OnlyOverlapLeavesStale ==
  ConfigSpec => [](~overlap => NothingStaleUnderNewRevision)
<1>1. ConfigInv => (~overlap => NothingStaleUnderNewRevision)
  BY RevisionsAreNumbers DEF ConfigInv, AloneInv, NothingStaleUnderNewRevision
<1>. QED  BY <1>1, ConfigInvariance, PTL

\* Unless threads overlap, what runs, what is on record and what is reported
\* only move forward, although answers are compared for equality alone.
THEOREM ConfigMovesForward == ConfigSpec => NeverGoesBack
<1>1. ConfigInv /\ [ConfigNext]_configVars => NotBack
  BY ConfigStepInv
<1>. QED  BY <1>1, ConfigInvariance, PTL DEF ConfigSpec, NeverGoesBack, NotBack

--------------------------------------------------------------------------------
(* The discovery channel.                                                   *)

Rows == [Job -> JobRow]

\* Not claimed by anybody so far: waiting, or not yet inserted.
Fresh(row) == \/ row.status = "pending"
              \/ row.status = "absent" /\ row.age = 0

\* No collector scans for the job, and no report of it is on its way.
Untaken(j) == /\ \A c \in Collector : scanning[c] # j
              /\ \A r \in report : r.job # j

\* The partial unique index: a site has at most one active job.
OneActiveJob == \A i, j \in Active(job) : i = j

\* A job is handed out once: it is somebody's scan, or a report, or neither.
HandedOutOnce ==
  /\ \A j \in Job : Fresh(job[j]) \/ job[j].status = "completed" => Untaken(j)
  /\ \A c, d \in Collector : scanning[c] = scanning[d] /\ scanning[c] # None => c = d
  /\ \A r, q \in report : r.job = q.job => r = q
  /\ \A c \in Collector, r \in report : scanning[c] # r.job

DiscoveryInv == /\ DiscoveryTypeOK
                /\ OneActiveJob
                /\ HandedOutOnce
                /\ CandidatesAreComplete
                /\ \A j \in Job : Fresh(job[j]) => found[j] = NothingFound

\* What housekeeping and the five-minute limit do to a row.
Tidied(old, new) ==
  \/ new = old
  \/ old.status \in {"pending", "running"} /\ new.status = "failed"
  \/ old.status \in {"completed", "failed"} /\ new.status = "absent" /\ new.age = 2

\* What a step that brings no report may do to a row.
Later(old, new) ==
  \/ new.status = old.status /\ (old.status = "absent" => new.age = old.age)
  \/ old.status \in {"pending", "running"} /\ new.status = "failed"
  \/ old.status \in {"completed", "failed"} /\ new.status = "absent" /\ new.age = 2
  \/ Fresh(old) /\ new.status \in {"pending", "running"}

LEMMA FailOldTidies ==
  ASSUME NEW rows \in Rows
  PROVE  FailOld(rows) \in Rows /\ \A j \in Job : Tidied(rows[j], FailOld(rows)[j])
<1>1. ASSUME NEW row \in JobRow
      PROVE  Failed(row) \in JobRow /\ Failed(row).status = "failed"
  BY DEF Failed, JobRow
<1>2. \A j \in Active(rows) : rows[j].status \in {"pending", "running"}
  BY DEF Active
<1>. QED  BY <1>1, <1>2 DEF FailOld, Tidied, Rows

LEMMA HousekeepingTidies ==
  ASSUME NEW rows \in Rows
  PROVE  /\ Housekeeping(rows) \in Rows
         /\ \A j \in Job : Tidied(rows[j], Housekeeping(rows)[j])
<1>. DEFINE gone == [NoJob EXCEPT !.age = 2]
            mid == Delete(rows)
<1>1. gone \in JobRow /\ gone.status = "absent" /\ gone.age = 2
  <2>1. NoJob \in JobRow /\ NoJob.status = "absent"
    BY DEF NoJob, JobRow
  <2>. QED  BY <2>1 DEF JobRow
<1>2. ASSUME NEW row \in JobRow
      PROVE  Failed(row) \in JobRow /\ Failed(row).status = "failed"
  BY DEF Failed, JobRow
<1>. HIDE DEF gone
<1>3. /\ mid \in Rows
      /\ \A j \in Job : \/ mid[j] = rows[j]
                        \/ rows[j].status \in {"completed", "failed"} /\ mid[j] = gone
  BY <1>1 DEF Delete, Rows, gone
<1>. HIDE DEF mid
<1>4. /\ FailOverdue(mid) \in Rows
      /\ \A j \in Job : \/ FailOverdue(mid)[j] = mid[j]
                        \/ /\ mid[j].status = "running"
                           /\ FailOverdue(mid)[j].status = "failed"
  BY <1>2, <1>3 DEF FailOverdue, Rows
<1>5. \A j \in Job : Tidied(rows[j], FailOverdue(mid)[j])
  BY <1>1, <1>3, <1>4 DEF Tidied
<1>. QED  BY <1>4, <1>5 DEF Housekeeping, mid

LEMMA InsertShape ==
  ASSUME NEW rows \in Rows, NEW src \in {"manual", "automatic"}, NEW new \in Insert(rows, src)
  PROVE  /\ new \in Rows
         /\ \/ new = rows
            \/ /\ Active(rows) = {}
               /\ \E j \in Unused(rows) : /\ new[j].status = "pending"
                                         /\ \A i \in Job \ {j} : new[i] = rows[i]
<1>. DEFINE row == [NoJob EXCEPT !.status = "pending", !.source = src]
<1>1. row \in JobRow /\ row.status = "pending"
  <2>1. NoJob \in JobRow
    BY DEF NoJob, JobRow
  <2>. QED  BY <2>1 DEF JobRow
<1>. HIDE DEF row
<1>2. CASE new = rows
  BY <1>2
<1>3. CASE Active(rows) = {} /\ \E j \in Unused(rows) : new = [rows EXCEPT ![j] = row]
  <2>1. PICK j \in Unused(rows) : new = [rows EXCEPT ![j] = row]
    BY <1>3
  <2>2. j \in Job
    BY DEF Unused
  <2>. QED  BY <1>1, <1>3, <2>1, <2>2 DEF Rows
<1>. QED  BY <1>2, <1>3 DEF Insert, row

\* Tidying never makes a row fresh or active, and a fresh row left by it may start.
LEMMA TidiedThenStarted ==
  ASSUME NEW old, NEW mid, Tidied(old, mid)
  PROVE  /\ Fresh(mid) => mid = old
         /\ mid.status \in {"pending", "running"} => mid = old
         /\ Later(old, mid)
         /\ \A new : Fresh(mid) /\ new.status \in {"pending", "running"} => Later(old, new)
BY DEF Tidied, Fresh, Later

\* What an insert after some tidying leaves.
LEMMA InsertAfterTidying ==
  ASSUME DiscoveryInv, NEW mid \in Rows, \A j \in Job : Tidied(job[j], mid[j]),
         NEW new \in Rows,
         \/ new = mid
         \/ /\ Active(mid) = {}
            /\ \E j \in Unused(mid) : /\ new[j].status = "pending"
                                     /\ \A i \in Job \ {j} : new[i] = mid[i]
  PROVE  /\ \A j \in Job : Later(job[j], new[j])
         /\ \A i, j \in Active(new) : i = j
         /\ \A j \in Pending(new) : Fresh(job[j])
<1>1. \A j \in Unused(mid) : j \in Job /\ Fresh(mid[j])
  BY DEF Unused, Fresh
<1>2. \A j \in Job : Later(job[j], mid[j])
  BY TidiedThenStarted
<1>3. \A j \in Job : Fresh(mid[j]) => Fresh(job[j])
  <2>. SUFFICES ASSUME NEW j \in Job, Fresh(mid[j]) PROVE Fresh(job[j])
    OBVIOUS
  <2>1. mid[j] = job[j]
    BY TidiedThenStarted
  <2>. QED  BY <2>1
<1>4. \A i, j \in Active(mid) : i = j
  <2>1. Active(mid) \subseteq Active(job)
    BY TidiedThenStarted DEF Active
  <2>. QED  BY <2>1 DEF DiscoveryInv, OneActiveJob
<1>5. CASE new = mid
  <2>1. \A j \in Pending(mid) : Fresh(job[j])
    BY <1>3 DEF Pending, Fresh
  <2>. QED  BY <1>2, <1>4, <1>5, <2>1
<1>6. ASSUME Active(mid) = {}, NEW j \in Unused(mid), new[j].status = "pending",
             \A i \in Job \ {j} : new[i] = mid[i]
      PROVE  /\ \A i \in Job : Later(job[i], new[i])
             /\ \A i, k \in Active(new) : i = k
             /\ \A i \in Pending(new) : Fresh(job[i])
  <2>1. \A i \in Active(new) : i = j
    BY <1>6 DEF Active
  <2>2. Pending(new) \subseteq Active(new)
    BY DEF Pending, Active
  <2>3. Later(job[j], new[j]) /\ Fresh(job[j])
    BY <1>1, <1>3, <1>6, TidiedThenStarted
  <2>. QED  BY <1>2, <1>6, <2>1, <2>2, <2>3
<1>. QED  BY <1>5, <1>6

(* Every step but a report's, by what it does to the rows: the invariant,   *)
(* and what the board sees.                                                 *)
ResultsKept == \A j \in Job : job[j].status = "completed" =>
                 \/ job'[j].status = "absent"
                 \/ job'[j].status = "completed" /\ found'[j] = found[j]

LEMMA RowsKeepInv ==
  ASSUME DiscoveryInv, job' \in Rows, \A j \in Job : Later(job[j], job'[j]),
         OneActiveJob', UNCHANGED <<found, report>>,
         admin' \in [Admin -> {"idle", "creating"}], claim' \in [Collector -> ClaimState],
         \/ scanning' = scanning
         \/ \E c \in Collector, j \in Job : /\ Fresh(job[j]) /\ job'[j].status = "running"
                                           /\ scanning' = [scanning EXCEPT ![c] = j]
  PROVE  DiscoveryInv' /\ ResultsKept
<1>. USE DEF DiscoveryInv
<1>1. \A j \in Job : Fresh(job'[j]) => Fresh(job[j])
  BY DEF Later, Fresh
<1>2. \A j \in Job : job'[j].status = "completed" => job[j].status = "completed"
  BY DEF Later
<1>3. scanning' \in [Collector -> Job \cup {None}]
  BY DEF DiscoveryTypeOK
<1>4. DiscoveryTypeOK'
  BY <1>3 DEF DiscoveryTypeOK, Rows
<1>5. HandedOutOnce'
  <2>1. CASE scanning' = scanning
    BY <1>1, <1>2, <2>1 DEF HandedOutOnce, Untaken
  <2>2. ASSUME NEW c \in Collector, NEW j \in Job, Fresh(job[j]), job'[j].status = "running",
               scanning' = [scanning EXCEPT ![c] = j]
        PROVE  HandedOutOnce'
    <3>1. /\ scanning'[c] = j
          /\ \A d \in Collector \ {c} : scanning'[d] = scanning[d]
      BY <2>2 DEF DiscoveryTypeOK
    <3>2. Untaken(j)
      BY <2>2 DEF HandedOutOnce
    <3>3. ~Fresh(job'[j]) /\ job'[j].status # "completed"
      BY <2>2 DEF Fresh
    <3>. QED  BY <1>1, <1>2, <3>1, <3>2, <3>3 DEF HandedOutOnce, Untaken
  <2>. QED  BY <2>1, <2>2
<1>6. CandidatesAreComplete'
  <2>. SUFFICES ASSUME NEW j \in Job, found[j] # NothingFound
                PROVE  job'[j].status \in {"completed", "absent"}
    BY DEF CandidatesAreComplete
  <2>1. ~Fresh(job[j]) /\ job[j].status \in {"completed", "absent"}
    BY DEF CandidatesAreComplete
  <2>. QED  BY <2>1 DEF Later
<1>7. ResultsKept
  BY DEF ResultsKept, Later, Fresh
<1>. QED  BY <1>1, <1>4, <1>5, <1>6, <1>7

LEMMA RowsMap ==
  ASSUME DiscoveryInv, job' \in Rows, \A j \in Job : Later(job[j], job'[j]),
         OneActiveJob', UNCHANGED found
  PROVE  Board!Next
<1>. DEFINE D == {j \in Job : job[j].status \in {"completed", "failed"} /\ job'[j].status = "absent"}
            G == {j \in Job : job[j].status \in {"pending", "running"} /\ job'[j].status = "failed"}
            N == {j \in Job : job[j].status = "absent" /\ job'[j].status \in {"pending", "running"}}
<1>1. \A j \in Job : job[j] \in JobRow /\ job'[j] \in JobRow
  BY DEF DiscoveryInv, DiscoveryTypeOK, Rows
<1>2. /\ D \subseteq Board!In("given_up") \cup Board!In("finished")
      /\ G \subseteq Board!In("wanted")
      /\ N \subseteq Board!In("free")
  BY <1>1 DEF Board!In, BoardView, StandingOf, Later, Fresh, JobRow
<1>3. \A j \in Job : StandingOf(job'[j]) = IF j \in D THEN "deleted"
                                           ELSE IF j \in G THEN "given_up"
                                           ELSE IF j \in N THEN "wanted" ELSE StandingOf(job[j])
  BY <1>1 DEF StandingOf, Later, Fresh, JobRow
<1>4. N # {} => G = Board!In("wanted") /\ \E j \in N : N = {j}
  <2>1. N \subseteq Active(job)'
    BY DEF Active
  <2>2. \A j \in Board!In("wanted") : j \in G \/ j \in Active(job)'
    BY <1>1 DEF Board!In, BoardView, StandingOf, Later, Fresh, JobRow, Active
  <2>3. \A j \in Board!In("wanted") : j \notin N
    BY <1>1 DEF Board!In, BoardView, StandingOf, JobRow
  <2>. HIDE DEF D, G, N
  <2>4. \A i, j \in Active(job)' : i = j
    BY DEF OneActiveJob
  <2>. QED  BY <1>2, <2>1, <2>2, <2>3, <2>4
<1>5. \A j \in Job : ShownView'[j] = IF j \in D THEN NothingFound ELSE ShownView[j]
  BY <1>1 DEF ShownView, Later, Fresh, JobRow
<1>. D \in SUBSET Job /\ G \in SUBSET Job /\ N \in SUBSET Job
  OBVIOUS
<1>. HIDE DEF D, G, N
<1>6. BoardView' = [j \in Job |-> IF j \in D THEN "deleted"
                                 ELSE IF j \in G THEN "given_up"
                                 ELSE IF j \in N THEN "wanted" ELSE BoardView[j]]
  BY <1>3 DEF BoardView
<1>7. ShownView' = [j \in Job |-> IF j \in D THEN NothingFound ELSE ShownView[j]]
  BY <1>5 DEF ShownView
<1>8. Board!Revise(D, G, N)
  BY <1>2, <1>4, <1>6, <1>7 DEF Board!Revise
<1>. QED  BY <1>8 DEF Board!Next

\* The board sees nothing but the rows and the results.
LEMMA BoardUnseen ==
  ASSUME UNCHANGED <<job, found>>
  PROVE  UNCHANGED Board!boardVars
BY DEF Board!boardVars, BoardView, ShownView

\* What every action has to be shown to do.
Goes == DiscoveryInv' /\ ResultsKept /\ (Board!Next \/ UNCHANGED Board!boardVars)

\* A step that leaves the rows, the results and the hand-outs alone.
LEMMA QuietKeepsInv ==
  ASSUME DiscoveryInv, UNCHANGED <<job, found, scanning, report>>,
         admin' \in [Admin -> {"idle", "creating"}], claim' \in [Collector -> ClaimState]
  PROVE  Goes
<1>1. DiscoveryInv'
  BY DEF DiscoveryInv, DiscoveryTypeOK, OneActiveJob, Active, HandedOutOnce, Untaken,
     CandidatesAreComplete
<1>. QED  BY <1>1, BoardUnseen DEF Goes, ResultsKept

LEMMA RowsGo ==
  ASSUME DiscoveryInv, job' \in Rows, \A j \in Job : Later(job[j], job'[j]),
         OneActiveJob', UNCHANGED <<found, report>>,
         admin' \in [Admin -> {"idle", "creating"}], claim' \in [Collector -> ClaimState],
         \/ scanning' = scanning
         \/ \E c \in Collector, j \in Job : /\ Fresh(job[j]) /\ job'[j].status = "running"
                                           /\ scanning' = [scanning EXCEPT ![c] = j]
  PROVE  Goes
BY RowsKeepInv, RowsMap DEF Goes

LEMMA CreateStep ==
  ASSUME DiscoveryInv, NEW a \in Admin,
         CreateReturnsActive(a) \/ CreateLooks(a) \/ CreateInserts(a)
  PROVE  Goes
<1>. DEFINE mid == FailOld(job)
<1>1. /\ job \in Rows /\ admin \in [Admin -> {"idle", "creating"}]
      /\ claim \in [Collector -> ClaimState]
  BY DEF DiscoveryInv, DiscoveryTypeOK, Rows
<1>2. mid \in Rows /\ \A j \in Job : Tidied(job[j], mid[j])
  BY <1>1, FailOldTidies
<1>. HIDE DEF mid
<1>3. CASE CreateReturnsActive(a)
  <2>1. job' = mid /\ UNCHANGED <<found, admin, claim, scanning, report>>
    BY <1>3 DEF CreateReturnsActive, mid
  <2>2. (\A j \in Job : Later(job[j], mid[j])) /\ \A i, j \in Active(mid) : i = j
    BY <1>2, InsertAfterTidying
  <2>3. OneActiveJob'
    BY <2>1, <2>2 DEF OneActiveJob, Active
  <2>. QED  BY <1>1, <1>2, <2>1, <2>2, <2>3, RowsGo
<1>4. CASE CreateLooks(a)
  <2>1. /\ UNCHANGED <<job, found, claim, scanning, report>>
        /\ admin' \in [Admin -> {"idle", "creating"}]
    BY <1>1, <1>4 DEF CreateLooks
  <2>. QED  BY <1>1, <2>1, QuietKeepsInv
<1>5. CASE CreateInserts(a)
  <2>1. /\ job' \in Insert(mid, "manual")
        /\ admin' \in [Admin -> {"idle", "creating"}]
        /\ UNCHANGED <<found, claim, scanning, report>>
    BY <1>1, <1>5 DEF CreateInserts, mid
  <2>2. job' \in Rows
    BY <1>2, <2>1, InsertShape
  <2>3. (\A j \in Job : Later(job[j], job'[j])) /\ \A i, j \in Active(job') : i = j
    BY <1>2, <2>1, <2>2, InsertShape, InsertAfterTidying
  <2>4. OneActiveJob'
    BY <2>3 DEF OneActiveJob, Active
  <2>. QED  BY <1>1, <2>1, <2>2, <2>3, <2>4, RowsGo
<1>. QED  BY <1>3, <1>4, <1>5

LEMMA ClaimLooksStep ==
  ASSUME DiscoveryInv, NEW c \in Collector, ClaimLooks(c)
  PROVE  Goes
<1>. DEFINE auto == /\ Active(Housekeeping(job)) = {}
                    /\ NoRecentAutomatic(Housekeeping(job))
            new == [doing |-> "claiming", automatic |-> auto]
<1>1. auto \in BOOLEAN
  BY DEF NoRecentAutomatic
<1>. HIDE DEF auto
<1>2. new \in ClaimState
  BY <1>1 DEF ClaimState
<1>3. /\ claim' = [claim EXCEPT ![c] = new]
      /\ UNCHANGED <<job, found, admin, scanning, report>>
  BY DEF ClaimLooks, auto
<1>. HIDE DEF new
<1>4. claim' \in [Collector -> ClaimState] /\ admin' \in [Admin -> {"idle", "creating"}]
  BY <1>2, <1>3 DEF DiscoveryInv, DiscoveryTypeOK
<1>. QED  BY <1>3, <1>4, QuietKeepsInv

LEMMA ClaimCommitsStep ==
  ASSUME DiscoveryInv, NEW c \in Collector, ClaimCommits(c)
  PROVE  Goes
<1>. DEFINE mid == Housekeeping(job)
<1>1. job \in Rows /\ admin' \in [Admin -> {"idle", "creating"}]
        /\ claim' \in [Collector -> ClaimState]
  BY DEF DiscoveryInv, DiscoveryTypeOK, Rows, ClaimCommits, NotClaiming, ClaimState
<1>2. mid \in Rows /\ \A j \in Job : Tidied(job[j], mid[j])
  BY <1>1, HousekeepingTidies
<1>. HIDE DEF mid
<1>3. PICK rows : /\ rows = mid \/ rows \in Insert(mid, "automatic")
                  /\ IF Pending(rows) = {}
                     THEN job' = rows /\ UNCHANGED scanning
                     ELSE \E j \in Pending(rows) :
                            /\ job' = Started(rows, j)
                            /\ scanning' \in {scanning, [scanning EXCEPT ![c] = j]}
  BY DEF ClaimCommits, mid
<1>4. rows \in Rows
  BY <1>2, <1>3, InsertShape
<1>5. /\ \A j \in Job : Later(job[j], rows[j])
      /\ \A i, j \in Active(rows) : i = j
      /\ \A j \in Pending(rows) : j \in Job /\ Fresh(job[j])
  <2>1. CASE rows = mid
    BY <1>2, <1>4, <2>1, InsertAfterTidying DEF Pending
  <2>2. CASE rows \in Insert(mid, "automatic")
    BY <1>2, <1>4, <2>2, InsertShape, InsertAfterTidying DEF Pending
  <2>. QED  BY <1>3, <2>1, <2>2
<1>6. UNCHANGED <<found, report>>
  BY DEF ClaimCommits
<1>7. CASE job' = rows /\ UNCHANGED scanning
  <2>1. OneActiveJob'
    BY <1>5, <1>7 DEF OneActiveJob, Active
  <2>. QED  BY <1>1, <1>4, <1>5, <1>6, <1>7, <2>1, RowsGo
<1>8. ASSUME NEW j \in Pending(rows), job' = Started(rows, j),
             scanning' \in {scanning, [scanning EXCEPT ![c] = j]}
      PROVE  Goes
  <2>1. j \in Job /\ Fresh(job[j]) /\ rows[j].status = "pending" /\ rows[j] \in JobRow
    BY <1>4, <1>5 DEF Pending, Rows
  <2>2. job' = [rows EXCEPT ![j] = [rows[j] EXCEPT !.status = "running", !.overdue = FALSE]]
    BY <1>4, <1>8, <2>1 DEF Started, Rows
  <2>3. /\ [rows[j] EXCEPT !.status = "running", !.overdue = FALSE] \in JobRow
        /\ [rows[j] EXCEPT !.status = "running", !.overdue = FALSE].status = "running"
    BY <2>1 DEF JobRow
  <2>4. /\ job' \in Rows /\ job'[j].status = "running"
        /\ \A i \in Job \ {j} : job'[i] = rows[i]
    BY <1>4, <2>1, <2>2, <2>3 DEF Rows
  <2>5. \A i \in Job : Later(job[i], job'[i])
    BY <1>5, <2>1, <2>4 DEF Later
  <2>6. Active(job)' = Active(rows)
    BY <2>1, <2>4 DEF Active
  <2>7. OneActiveJob'
    BY <1>5, <2>6 DEF OneActiveJob
  <2>. QED  BY <1>1, <1>6, <1>8, <2>1, <2>4, <2>5, <2>7, RowsGo
<1>. QED  BY <1>3, <1>7, <1>8

\* A scan becomes a report, or is lost; a report is lost.
LEMMA HandOutStep ==
  ASSUME DiscoveryInv,
         \/ \E c \in Collector : Crash(c) \/ \E outcome \in Outcome : Posts(c, outcome)
         \/ \E r \in report : LoseReport(r)
  PROVE  Goes
<1>. USE DEF DiscoveryInv
<1>1. UNCHANGED <<job, found, admin, claim>>
  BY DEF Crash, Posts, LoseReport
<1>2. /\ scanning' \in [Collector -> Job \cup {None}]
      /\ report' \subseteq [job : Job, outcome : Outcome]
      /\ HandedOutOnce'
  <2>1. ASSUME NEW c \in Collector, Crash(c)
        PROVE  /\ scanning' \in [Collector -> Job \cup {None}] /\ report' = report
               /\ HandedOutOnce'
    <3>1. /\ scanning' \in [Collector -> Job \cup {None}] /\ report' = report
          /\ scanning'[c] = None /\ \A d \in Collector \ {c} : scanning'[d] = scanning[d]
      BY <2>1 DEF Crash, DiscoveryTypeOK
    <3>2. None \notin Job /\ \A r \in report : r.job \in Job
      BY DiscoveryAssumption DEF DiscoveryTypeOK
    <3>. QED  BY <1>1, <3>1, <3>2 DEF HandedOutOnce, Untaken
  <2>2. ASSUME NEW c \in Collector, NEW outcome \in Outcome, Posts(c, outcome)
        PROVE  /\ scanning' \in [Collector -> Job \cup {None}]
               /\ report' \subseteq [job : Job, outcome : Outcome]
               /\ HandedOutOnce'
    <3>. DEFINE new == [job |-> scanning[c], outcome |-> outcome]
    <3>1. /\ scanning' \in [Collector -> Job \cup {None}]
          /\ scanning'[c] = None /\ \A d \in Collector \ {c} : scanning'[d] = scanning[d]
          /\ scanning[c] # None /\ scanning[c] \in Job
          /\ report' = report \cup {new}
      BY <2>2 DEF Posts, DiscoveryTypeOK
    <3>2. None \notin Job /\ \A r \in report : r.job \in Job
      BY DiscoveryAssumption DEF DiscoveryTypeOK
    <3>3. new \in [job : Job, outcome : Outcome] /\ new.job = scanning[c]
      BY <3>1
    <3>. HIDE DEF new
    <3>4. \A d \in Collector \ {c} : scanning[d] # scanning[c]
      BY <3>1 DEF HandedOutOnce
    <3>5. \A r \in report : r.job # scanning[c]
      BY DEF HandedOutOnce
    <3>6. \A j \in Job : Untaken(j) => Untaken(j)'
      BY <3>1, <3>2, <3>3 DEF Untaken
    <3>7. HandedOutOnce'
      BY <1>1, <3>1, <3>2, <3>3, <3>4, <3>5, <3>6 DEF HandedOutOnce
    <3>. QED  BY <3>1, <3>3, <3>7 DEF DiscoveryTypeOK
  <2>3. ASSUME NEW r \in report, LoseReport(r)
        PROVE  scanning' = scanning /\ report' \subseteq report /\ HandedOutOnce'
    BY <1>1, <2>3 DEF LoseReport, HandedOutOnce, Untaken
  <2>. QED  BY <2>1, <2>2, <2>3 DEF DiscoveryTypeOK
<1>3. DiscoveryInv'
  BY <1>1, <1>2 DEF DiscoveryTypeOK, OneActiveJob, Active, CandidatesAreComplete
<1>. QED  BY <1>1, <1>3, BoardUnseen DEF Goes, ResultsKept

\* A report reaches a job that is running or was given up, never a finished one.
LEMMA CompleteStep ==
  ASSUME DiscoveryInv, NEW r \in report, Complete(r)
  PROVE  Goes
<1>. USE DEF DiscoveryInv
<1>. DEFINE k == r.job
            row == [job[k] EXCEPT !.status = r.outcome.status, !.overdue = FALSE]
<1>1. /\ k \in Job /\ r.outcome \in Outcome /\ job[k] \in JobRow /\ job \in Rows
      /\ found \in [Job -> [Host -> Answer]]
  BY DEF DiscoveryTypeOK, Rows
<1>2. /\ r.outcome.status \in {"completed", "failed"} /\ r.outcome.found \in [Host -> Answer]
      /\ r.outcome.status = "failed" => r.outcome.found = NothingFound
  <2>1. NothingFound \in [Host -> Answer]
    BY DEF NothingFound, Answer
  <2>. QED  BY <1>1, <2>1 DEF Outcome
<1>3. /\ job[k].status # "absent" /\ found' = [found EXCEPT ![k] = r.outcome.found]
      /\ report' = report \ {r} /\ UNCHANGED <<admin, claim, scanning>>
      /\ job' = [job EXCEPT ![k] = row]
  BY <1>1 DEF Complete, Rows
<1>4. row \in JobRow /\ row.status = r.outcome.status /\ row.age = job[k].age
  BY <1>1, <1>2 DEF JobRow
<1>. HIDE DEF row
<1>5. /\ job' \in Rows /\ job'[k] = row /\ \A j \in Job \ {k} : job'[j] = job[j]
      /\ found' \in [Job -> [Host -> Answer]] /\ found'[k] = r.outcome.found
      /\ \A j \in Job \ {k} : found'[j] = found[j]
  BY <1>1, <1>2, <1>3, <1>4 DEF Rows
<1>6. job[k].status \in {"running", "failed"}
  BY <1>1, <1>3 DEF HandedOutOnce, Untaken, Fresh, JobRow
<1>7. \A q \in report' : q.job # k
  BY <1>3 DEF HandedOutOnce
<1>8. DiscoveryTypeOK'
  BY <1>3, <1>5 DEF DiscoveryTypeOK, Rows
<1>9. OneActiveJob'
  <2>1. Active(job)' \subseteq Active(job)
    BY <1>2, <1>4, <1>5 DEF Active
  <2>. QED  BY <2>1 DEF OneActiveJob
<1>10. HandedOutOnce'
  <2>1. Untaken(k)'
    BY <1>3, <1>7 DEF HandedOutOnce, Untaken
  <2>2. \A j \in Job : Untaken(j) => Untaken(j)'
    BY <1>3 DEF Untaken
  <2>. QED  BY <1>3, <1>5, <2>1, <2>2 DEF HandedOutOnce
<1>11. CandidatesAreComplete' /\ \A j \in Job : Fresh(job'[j]) => found'[j] = NothingFound
  BY <1>2, <1>4, <1>5 DEF CandidatesAreComplete, Fresh
<1>12. ResultsKept
  BY <1>5, <1>6 DEF ResultsKept
<1>13. Board!Next \/ UNCHANGED Board!boardVars
  <2>1. \A j \in Job \ {k} : StandingOf(job'[j]) = StandingOf(job[j])
    BY <1>5
  <2>2. CASE r.outcome.status = "completed"
    <3>1. BoardView[k] \in {"wanted", "given_up"}
      BY <1>1, <1>6 DEF BoardView, StandingOf
    <3>2. BoardView' = [BoardView EXCEPT ![k] = "finished"]
      <4>1. StandingOf(job'[k]) = "finished"
        BY <1>4, <1>5, <2>2 DEF StandingOf
      <4>. QED  BY <1>1, <2>1, <4>1 DEF BoardView
    <3>3. ShownView' = [ShownView EXCEPT ![k] = r.outcome.found]
      BY <1>1, <1>4, <1>5, <2>2 DEF ShownView
    <3>4. Board!Finish(k, r.outcome.found)
      BY <3>1, <3>2, <3>3 DEF Board!Finish
    <3>. QED  BY <1>1, <1>2, <3>4 DEF Board!Next
  <2>3. CASE r.outcome.status = "failed"
    <3>. DEFINE G == IF job[k].status = "running" THEN {k} ELSE {}
    <3>1. G \in SUBSET Job /\ {} \in SUBSET Job
      BY <1>1
    <3>2. G \subseteq Board!In("wanted")
      BY <1>1 DEF Board!In, BoardView, StandingOf
    <3>3. \A j \in Job : StandingOf(job'[j]) = IF j \in G THEN "given_up" ELSE StandingOf(job[j])
      BY <1>4, <1>5, <1>6, <2>1, <2>3 DEF StandingOf
    <3>4. ShownView' = ShownView
      BY <1>1, <1>4, <1>5, <1>6, <2>3 DEF ShownView
    <3>. HIDE DEF G
    <3>5. Board!Revise({}, G, {})
      <4>1. BoardView' = [j \in Job |-> IF j \in {} THEN "deleted"
                                       ELSE IF j \in G THEN "given_up"
                                       ELSE IF j \in {} THEN "wanted" ELSE BoardView[j]]
        BY <3>3 DEF BoardView
      <4>2. ShownView' = [j \in Job |-> IF j \in {} THEN NothingFound ELSE ShownView[j]]
        BY <3>4 DEF ShownView
      <4>. QED  BY <3>2, <4>1, <4>2 DEF Board!Revise
    <3>. QED  BY <3>1, <3>5 DEF Board!Next
  <2>. QED  BY <1>2, <2>2, <2>3
<1>. QED  BY <1>8, <1>9, <1>10, <1>11, <1>12, <1>13 DEF Goes

LEMMA TimeStep ==
  ASSUME DiscoveryInv, NEW j \in Job, Ages(j) \/ RunsOverdue(j)
  PROVE  Goes
<1>1. job \in Rows /\ job[j] \in JobRow /\ job[j].status # "absent"
  BY DEF DiscoveryInv, DiscoveryTypeOK, Rows, Ages, RunsOverdue
<1>2. PICK row \in JobRow : row.status = job[j].status /\ job' = [job EXCEPT ![j] = row]
  <2>1. CASE Ages(j)
    <3>. DEFINE row == [job[j] EXCEPT !.age = job[j].age + 1]
    <3>1. job' = [job EXCEPT ![j] = row]
      BY <1>1, <2>1 DEF Ages, Rows
    <3>2. job[j].age \in 0..2 /\ job[j].age < 2
      BY <1>1, <2>1 DEF Ages, JobRow
    <3>3. row \in JobRow /\ row.status = job[j].status
      BY <1>1, <3>2 DEF JobRow
    <3>. QED  BY <3>1, <3>3
  <2>2. CASE RunsOverdue(j)
    <3>. DEFINE row == [job[j] EXCEPT !.overdue = TRUE]
    <3>1. job' = [job EXCEPT ![j] = row]
      BY <1>1, <2>2 DEF RunsOverdue, Rows
    <3>2. row \in JobRow /\ row.status = job[j].status
      BY <1>1 DEF JobRow
    <3>. QED  BY <3>1, <3>2
  <2>. QED  BY <2>1, <2>2
<1>3. job' \in Rows /\ \A i \in Job : job'[i].status = job[i].status
  BY <1>1, <1>2 DEF Rows
<1>4. \A i \in Job : Later(job[i], job'[i])
  BY <1>1, <1>2, <1>3 DEF Later, Rows
<1>5. OneActiveJob'
  BY <1>3 DEF DiscoveryInv, OneActiveJob, Active
<1>6. /\ UNCHANGED <<found, admin, claim, scanning, report>>
      /\ admin' \in [Admin -> {"idle", "creating"}] /\ claim' \in [Collector -> ClaimState]
  BY DEF Ages, RunsOverdue, DiscoveryInv, DiscoveryTypeOK
<1>. QED  BY <1>3, <1>4, <1>5, <1>6, RowsGo

LEMMA DiscoveryStep ==
  ASSUME DiscoveryInv, [DiscoveryNext]_discoveryVars
  PROVE  Goes
<1>1. CASE UNCHANGED discoveryVars
  BY <1>1, QuietKeepsInv DEF discoveryVars, DiscoveryInv, DiscoveryTypeOK
<1>2. ASSUME NEW c \in Collector, CollectorStep(c)
      PROVE  Goes
  BY <1>2, ClaimLooksStep, ClaimCommitsStep, HandOutStep DEF CollectorStep
<1>. QED  BY <1>1, <1>2, CreateStep, HandOutStep, CompleteStep, TimeStep DEF DiscoveryNext

LEMMA DiscoveryInitInv == DiscoveryInit => DiscoveryInv
<1>. SUFFICES ASSUME DiscoveryInit PROVE DiscoveryInv
  OBVIOUS
<1>. USE DEF DiscoveryInit
<1>1. NoJob \in JobRow /\ NoJob.status = "absent" /\ NotClaiming \in ClaimState
  BY DEF NoJob, JobRow, NotClaiming, ClaimState
<1>2. NothingFound \in [Host -> Answer]
  BY DEF NothingFound, Answer
<1>3. DiscoveryTypeOK
  BY <1>1, <1>2 DEF DiscoveryTypeOK
<1>4. OneActiveJob /\ CandidatesAreComplete
  BY <1>1 DEF OneActiveJob, Active, CandidatesAreComplete
<1>5. HandedOutOnce
  BY DiscoveryAssumption DEF HandedOutOnce, Untaken
<1>. QED  BY <1>3, <1>4, <1>5 DEF DiscoveryInv

LEMMA DiscoveryInvariance == DiscoverySpec => []DiscoveryInv
<1>1. DiscoveryInv /\ [DiscoveryNext]_discoveryVars => DiscoveryInv'
  BY DiscoveryStep DEF Goes
<1>. QED  BY <1>1, DiscoveryInitInv, PTL DEF DiscoverySpec

\* Types hold of the jobs, the results and the requests under way.
THEOREM DiscoveryTypeCorrect == DiscoverySpec => []DiscoveryTypeOK
<1>1. DiscoveryInv => DiscoveryTypeOK
  BY DEF DiscoveryInv
<1>. QED  BY <1>1, DiscoveryInvariance, PTL

\* For any administrators and collectors, a site never has two active jobs,
\* although the handlers look before they insert.
THEOREM OneJobAtATime == DiscoverySpec => []OneActiveJob
<1>1. DiscoveryInv => OneActiveJob
  BY DEF DiscoveryInv
<1>. QED  BY <1>1, DiscoveryInvariance, PTL

\* Only a finished scan shows candidates.
THEOREM OnlyFinishedScansShow == DiscoverySpec => []CandidatesAreComplete
<1>1. DiscoveryInv => CandidatesAreComplete
  BY DEF DiscoveryInv
<1>. QED  BY <1>1, DiscoveryInvariance, PTL

\* A finished scan is what it is until it is deleted: no late or second report
\* reaches it, since a job is handed out once.
THEOREM FinishedScansStay == DiscoverySpec => CompletedIsFinal
<1>1. DiscoveryInv /\ [DiscoveryNext]_discoveryVars => ResultsKept
  BY DiscoveryStep DEF Goes
<1>. QED  BY <1>1, DiscoveryInvariance, PTL DEF DiscoverySpec, CompletedIsFinal, ResultsKept

(***************************************************************************)
(* The handlers, the collectors and whatever happens to their requests     *)
(* implement the board the administrator relies on, for every set of jobs, *)
(* administrators, collectors and addresses.                               *)
(***************************************************************************)
THEOREM DiscoveryRefinesBoard == DiscoverySpec => ImplementsScanBoard
<1>1. DiscoveryInit => Board!Init
  <2>. SUFFICES ASSUME DiscoveryInit PROVE Board!Init
    OBVIOUS
  <2>1. \A j \in Job : job[j].status = "absent" /\ job[j].age = 0
    BY DEF DiscoveryInit, NoJob
  <2>2. \A j \in Job : StandingOf(job[j]) = "free"
    BY <2>1 DEF StandingOf
  <2>. QED  BY <2>1, <2>2 DEF Board!Init, BoardView, ShownView
<1>2. DiscoveryInv /\ [DiscoveryNext]_discoveryVars => [Board!Next]_(Board!boardVars)
  BY DiscoveryStep DEF Goes
<1>. QED
  BY <1>1, <1>2, DiscoveryInvariance, PTL DEF DiscoverySpec, ImplementsScanBoard, Board!Spec
================================================================================
