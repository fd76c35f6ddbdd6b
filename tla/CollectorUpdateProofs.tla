-------------------------- MODULE CollectorUpdateProofs ------------------------
(***************************************************************************)
(* Proofs about the collector's updates, for any number of releases, bad   *)
(* or good, losses of power and errors: what can be rolled back to, what   *)
(* is on record as installed and what collects data.                       *)
(***************************************************************************)
EXTENDS CollectorUpdate, TLAPS

Recovering == {"recover", "restoring", "restored", "marking", "unlinking"}
Switching == {"switch", "saving", "journaling", "replacing"}
Trying == {"start", "trial", "commit", "unjournal"}

(* Each step finds what the steps before it have left, errors or not.       *)

WorkerInv ==
  /\ worker # Absent => worker = exe
  /\ pc \in Recovering \cup Switching \cup {"off", "blocking", "launch", "start", "failed"}
       => worker = Absent
  /\ pc \in {"downloading", "stopping"} => worker # Absent

ReleaseInv ==
  /\ pc \in (Recovering \ {"recover"}) \cup Switching \cup Trying
            \cup {"blocking", "downloading", "stopping", "reporting", "forcing", "failed"}
       => release \in Version
  /\ pc = "recover" /\ ~booting => release \in Version
  /\ pc \in Switching \cup {"stopping"} => staged = release
  /\ pc \in Switching \cup {"downloading", "stopping"} => exe \in Version /\ release > exe
  /\ pc \in Trying => exe = release
  /\ pc \in {"commit", "unjournal"} => release \in proven
  /\ pc = "unjournal" => installed = release

JournalInv ==
  /\ pc \in Recovering => journal # Absent
  /\ pc \in {"journaling", "replacing"} => previous = exe
  /\ pc = "restored" => staged = previous
  /\ journal # Absent => previous # Absent
  /\ pc \in {"replacing"} \cup Trying => journal # Absent /\ release > journal.previous
  /\ pc = "unlinking" => installed = journal.previous

(* The journal is there while the executable is not known to be proven; the *)
(* supervisor goes on with it open only when it has given up a roll-back.   *)
OpenInv ==
  /\ pc \in {"launch", "blocking", "reporting"} => journal = Absent
  /\ pc \in {"loop", "downloading", "stopping", "switch"} => journal = Absent \/ abandoned

(* Until an update is begun with the journal open, it leads back to a       *)
(* proven executable.                                                       *)
SafeInv ==
  ~clobbered =>
    /\ RollbackReady
    /\ InstalledIsProven
    /\ pc \in {"saving", "journaling"} => journal = Absent
    /\ journal # Absent => journal.previous \in proven
    /\ pc \in {"marking", "unlinking"} => exe = journal.previous

UpdateInv == UpdateTypeOK /\ WorkerInv /\ ReleaseInv /\ JournalInv /\ OpenInv /\ SafeInv

USE DEF At, Goto, files, bounds, history

--------------------------------------------------------------------------------
LEMMA UpdateInitInv == UpdateInit => UpdateInv
<1>. SUFFICES ASSUME UpdateInit PROVE UpdateInv
  OBVIOUS
<1>1. 1 \in Version /\ 1 \notin Bad /\ 1 # Absent
  BY UpdateAssumption DEF Version
<1>2. losses \in 0..MaxLosses /\ errors \in 0..MaxErrors
  BY UpdateAssumption DEF UpdateInit
<1>3. booting \in BOOLEAN /\ abandoned \in BOOLEAN /\ clobbered \in BOOLEAN
  BY DEF UpdateInit
<1>4. UpdateTypeOK
  BY <1>1, <1>2, <1>3 DEF UpdateInit, UpdateTypeOK, Pc, Content
<1>5. WorkerInv /\ ReleaseInv /\ JournalInv /\ OpenInv
  BY <1>1 DEF UpdateInit, WorkerInv, ReleaseInv, JournalInv, OpenInv, Recovering, Switching, Trying
<1>6. SafeInv
  BY <1>1 DEF UpdateInit, SafeInv, RollbackReady, InstalledIsProven, Trying
<1>. QED  BY <1>4, <1>5, <1>6 DEF UpdateInv

LEMMA RecoveryStep ==
  ASSUME UpdateInv, Recovery
  PROVE  UpdateInv'
<1>. USE UpdateAssumption DEF UpdateInv, UpdateTypeOK, WorkerInv, ReleaseInv, JournalInv,
         OpenInv, SafeInv, RollbackReady, InstalledIsProven, Recovering, Switching, Trying,
         Pc, Content, Journal
<1>1. CASE BeginRestore
  BY <1>1 DEF BeginRestore
<1>2. CASE EndRestore
  BY <1>2 DEF EndRestore
<1>3. CASE ReplaceRestored
  BY <1>3 DEF ReplaceRestored
<1>4. CASE MarkRestored
  BY <1>4 DEF MarkRestored
<1>5. CASE EndRecovery
  <2>1. UpdateTypeOK' /\ WorkerInv'
    BY <1>5 DEF EndRecovery
  <2>2. ReleaseInv' /\ JournalInv'
    BY <1>5 DEF EndRecovery
  <2>3. OpenInv' /\ SafeInv'
    BY <1>5 DEF EndRecovery
  <2>. QED  BY <2>1, <2>2, <2>3
<1>. QED  BY <1>1, <1>2, <1>3, <1>4, <1>5 DEF Recovery

(* Starting the supervisor, and the worker.                                 *)
LEMMA StartingStep ==
  ASSUME UpdateInv, Boot \/ Block \/ Launch \/ LaunchFails \/ Failed
  PROVE  UpdateInv'
<1>. USE UpdateAssumption DEF UpdateInv, UpdateTypeOK, WorkerInv, ReleaseInv, JournalInv,
         OpenInv, SafeInv, RollbackReady, InstalledIsProven, Recovering, Switching, Trying,
         Pc, Content, Journal
<1>1. CASE Boot
  <2>1. abandoned' \in BOOLEAN /\ booting' \in BOOLEAN /\ booting'
    BY <1>1 DEF Boot
  <2>2. CASE journal = Absent
    BY <1>1, <2>1, <2>2 DEF Boot
  <2>3. CASE journal # Absent
    BY <1>1, <2>1, <2>3 DEF Boot
  <2>. QED  BY <2>2, <2>3
<1>2. CASE Block
  <2>1. UpdateTypeOK' /\ WorkerInv'
    BY <1>2 DEF Block
  <2>2. ReleaseInv' /\ JournalInv'
    BY <1>2 DEF Block
  <2>3. OpenInv' /\ SafeInv'
    BY <1>2 DEF Block
  <2>. QED  BY <2>1, <2>2, <2>3
<1>3. CASE Launch
  <2>1. UpdateTypeOK'
    BY <1>3 DEF Launch
  <2>2. WorkerInv'
    BY <1>3 DEF Launch
  <2>3. ReleaseInv' /\ JournalInv'
    BY <1>3 DEF Launch
  <2>4. OpenInv' /\ SafeInv'
    BY <1>3 DEF Launch
  <2>. QED  BY <2>1, <2>2, <2>3, <2>4
<1>4. CASE LaunchFails
  BY <1>4 DEF LaunchFails
<1>5. CASE Failed
  BY <1>5 DEF Failed
<1>. QED  BY <1>1, <1>2, <1>3, <1>4, <1>5

LEMMA DownloadStep ==
  ASSUME UpdateInv, Check \/ Downloaded \/ DownloadFails \/ Stopped \/ StopRefused
  PROVE  UpdateInv'
<1>. USE UpdateAssumption DEF UpdateInv, UpdateTypeOK, WorkerInv, ReleaseInv, JournalInv,
         OpenInv, SafeInv, RollbackReady, InstalledIsProven, Recovering, Switching, Trying,
         Pc, Content, Journal
<1>1. CASE Check
  BY <1>1 DEF Check
<1>2. CASE Downloaded
  BY <1>2 DEF Downloaded
<1>3. CASE DownloadFails
  BY <1>3 DEF DownloadFails
<1>4. CASE Stopped
  BY <1>4 DEF Stopped
<1>5. CASE StopRefused
  BY <1>5 DEF StopRefused
<1>. QED  BY <1>1, <1>2, <1>3, <1>4, <1>5

LEMMA SwitchStep ==
  ASSUME UpdateInv, BeginSave \/ EndSave \/ WriteJournal \/ Replace
  PROVE  UpdateInv'
<1>. USE UpdateAssumption DEF UpdateInv, UpdateTypeOK, WorkerInv, ReleaseInv, JournalInv,
         OpenInv, SafeInv, RollbackReady, InstalledIsProven, Recovering, Switching, Trying,
         Pc, Content, Journal
<1>1. CASE BeginSave
  BY <1>1 DEF BeginSave
<1>2. CASE EndSave
  BY <1>2 DEF EndSave
<1>3. CASE WriteJournal
  BY <1>3 DEF WriteJournal
<1>4. CASE Replace
  BY <1>4 DEF Replace
<1>. QED  BY <1>1, <1>2, <1>3, <1>4

LEMMA TrialStep ==
  ASSUME UpdateInv, StartTrial \/ TrialPasses \/ TrialFails \/ Commit \/ Unjournal \/ ReportUpdated
  PROVE  UpdateInv'
<1>. USE UpdateAssumption DEF UpdateInv, UpdateTypeOK, WorkerInv, ReleaseInv, JournalInv,
         OpenInv, SafeInv, RollbackReady, InstalledIsProven, Recovering, Switching, Trying,
         Pc, Content, Journal
<1>1. CASE StartTrial
  BY <1>1 DEF StartTrial
<1>2. CASE TrialPasses
  BY <1>2 DEF TrialPasses
<1>3. CASE TrialFails
  BY <1>3 DEF TrialFails
<1>4. CASE Commit
  BY <1>4 DEF Commit
<1>5. CASE Unjournal
  <2>1. UpdateTypeOK' /\ WorkerInv'
    BY <1>5 DEF Unjournal
  <2>2. ReleaseInv' /\ JournalInv'
    BY <1>5 DEF Unjournal
  <2>3. OpenInv' /\ SafeInv'
    BY <1>5 DEF Unjournal
  <2>. QED  BY <2>1, <2>2, <2>3
<1>6. CASE ReportUpdated
  BY <1>6 DEF ReportUpdated
<1>. QED  BY <1>1, <1>2, <1>3, <1>4, <1>5, <1>6

LEMMA ErrorStep ==
  ASSUME UpdateInv, RecoveryFails \/ InstallFails \/ ForcedStop \/ ForcedStopFails
  PROVE  UpdateInv'
<1>. USE UpdateAssumption DEF UpdateInv, UpdateTypeOK, WorkerInv, ReleaseInv, JournalInv,
         OpenInv, SafeInv, RollbackReady, InstalledIsProven, Recovering, Switching, Trying,
         Pc, Content, Journal
<1>1. CASE RecoveryFails
  <2>1. abandoned' \in BOOLEAN /\ errors' \in 0..MaxErrors
    BY <1>1 DEF RecoveryFails
  <2>2. CASE booting
    <3>1. pc' = "off" /\ ~abandoned'
      BY <1>1, <2>2 DEF RecoveryFails
    <3>. QED  BY <1>1, <2>1, <3>1 DEF RecoveryFails
  <2>3. CASE ~booting
    <3>1. pc' = "loop" /\ abandoned'
      BY <1>1, <2>3 DEF RecoveryFails
    <3>. QED  BY <1>1, <2>1, <3>1 DEF RecoveryFails
  <2>. QED  BY <2>2, <2>3
<1>2. CASE InstallFails
  BY <1>2 DEF InstallFails
<1>3. CASE ForcedStop
  BY <1>3 DEF ForcedStop
<1>4. CASE ForcedStopFails
  <2>1. abandoned' \in BOOLEAN /\ (abandoned' <=> journal # Absent)
    BY <1>4 DEF ForcedStopFails
  <2>. QED  BY <1>4, <2>1 DEF ForcedStopFails
<1>. QED  BY <1>1, <1>2, <1>3, <1>4

LEMMA OutsideStep ==
  ASSUME UpdateInv, Publish \/ PowerLoss \/ WorkerExits
  PROVE  UpdateInv'
<1>. USE UpdateAssumption DEF UpdateInv, UpdateTypeOK, WorkerInv, ReleaseInv, JournalInv,
         OpenInv, SafeInv, RollbackReady, InstalledIsProven, Recovering, Switching, Trying,
         Pc, Content, Journal
<1>1. CASE Publish
  <2>1. offer' \in Version
    BY <1>1 DEF Publish, Version
  <2>. QED  BY <1>1, <2>1 DEF Publish
<1>2. CASE PowerLoss
  BY <1>2 DEF PowerLoss
<1>3. CASE WorkerExits
  BY <1>3 DEF WorkerExits
<1>. QED  BY <1>1, <1>2, <1>3

LEMMA UpdateNextInv == UpdateInv /\ [UpdateNext]_updateVars => UpdateInv'
<1>. SUFFICES ASSUME UpdateInv, [UpdateNext]_updateVars PROVE UpdateInv'
  OBVIOUS
<1>1. CASE UNCHANGED updateVars
  BY <1>1 DEF updateVars, UpdateInv, UpdateTypeOK, WorkerInv, ReleaseInv, JournalInv, OpenInv,
              SafeInv, RollbackReady, InstalledIsProven
<1>2. CASE NothingToInstall
  BY <1>1, <1>2 DEF NothingToInstall
<1>. QED
  BY <1>1, <1>2, RecoveryStep, StartingStep, DownloadStep, SwitchStep, TrialStep, ErrorStep,
     OutsideStep DEF UpdateNext, Supervise, Installation

LEMMA UpdateInvariance == UpdateSpec => []UpdateInv
BY UpdateInitInv, UpdateNextInv, PTL DEF UpdateSpec

--------------------------------------------------------------------------------
(***************************************************************************)
(* Types hold, a trial runs the release being installed, and no step ever  *)
(* leaves the collector without an executable.                             *)
(***************************************************************************)
THEOREM UpdateTypeCorrect == UpdateSpec => []UpdateTypeOK
BY UpdateInvariance, PTL DEF UpdateInv

(***************************************************************************)
(* Whenever power is lost in an open transaction, the executable to go     *)
(* back to is whole.                                                       *)
(***************************************************************************)
THEOREM AlwaysRollbackReady == UpdateSpec => []RollbackReady
<1>1. UpdateInv => RollbackReady
  BY DEF UpdateInv, SafeInv, RollbackReady
<1>. QED  BY <1>1, UpdateInvariance, PTL

(***************************************************************************)
(* Only releases that have passed their trial become permanent.            *)
(***************************************************************************)
THEOREM OnlyProvenInstalled == UpdateSpec => []InstalledIsProven
<1>1. UpdateInv => InstalledIsProven
  BY DEF UpdateInv, SafeInv, InstalledIsProven
<1>. QED  BY <1>1, UpdateInvariance, PTL

(***************************************************************************)
(* Outside its trial, only a release that has passed one collects data; a  *)
(* supervisor that failed to stop or take back a release goes on with it   *)
(* only while its transaction is open, and no boot starts it.  An update   *)
(* begun with the journal open is excepted until one is committed.         *)
(***************************************************************************)
THEOREM OnlyProvenRuns == UpdateSpec => []OnlyProvenCollects
<1>1. UpdateInv => OnlyProvenCollects
  <2>. SUFFICES ASSUME UpdateInv, worker # Absent, pc \notin {"trial", "forcing"}, ~clobbered
                PROVE  worker \in proven \/ (abandoned /\ journal # Absent)
    BY DEF OnlyProvenCollects
  <2>1. CASE journal = Absent
    BY <2>1 DEF UpdateInv, WorkerInv, SafeInv, InstalledIsProven
  <2>2. CASE journal # Absent
    <3>1. pc \in {"commit", "unjournal", "loop", "downloading", "stopping"}
      BY <2>2 DEF UpdateInv, UpdateTypeOK, WorkerInv, OpenInv, Pc, Recovering, Switching
    <3>. QED  BY <2>2, <3>1 DEF UpdateInv, WorkerInv, ReleaseInv, OpenInv, Trying
  <2>. QED  BY <2>1, <2>2
<1>. QED  BY <1>1, UpdateInvariance, PTL

LEMMA CommittedStays ==
  ASSUME UpdateInv, UpdateNext, ~Unjournal, ~clobbered'
  PROVE  Committed' = Committed
<1>. USE UpdateAssumption DEF UpdateInv, UpdateTypeOK, WorkerInv, ReleaseInv, JournalInv,
         OpenInv, SafeInv, RollbackReady, InstalledIsProven, Recovering, Switching, Trying,
         Pc, Content, Journal, Committed
<1>1. CASE exe' = exe /\ journal' = journal
  BY <1>1
<1>2. CASE ReplaceRestored
  BY <1>2 DEF ReplaceRestored
<1>3. CASE EndRecovery
  BY <1>3 DEF EndRecovery
<1>4. CASE WriteJournal
  BY <1>4 DEF WriteJournal
<1>5. CASE Replace
  BY <1>5 DEF Replace
<1>6. CASE Recovery
  BY <1>1, <1>2, <1>3, <1>6 DEF Recovery, BeginRestore, EndRestore, MarkRestored
<1>7. CASE Installation
  BY <1>1, <1>4, <1>5, <1>7 DEF Installation, Check, Downloaded, Stopped, BeginSave, EndSave,
     StartTrial, TrialPasses, TrialFails, Commit, ReportUpdated, ForcedStop, Failed
<1>8. CASE Boot \/ Block \/ Launch \/ LaunchFails \/ NothingToInstall
  BY <1>1, <1>8 DEF Boot, Block, Launch, LaunchFails, NothingToInstall, updateVars
<1>9. CASE \/ RecoveryFails \/ DownloadFails \/ StopRefused \/ InstallFails
           \/ ForcedStopFails \/ Publish \/ PowerLoss \/ WorkerExits
  BY <1>1, <1>9 DEF RecoveryFails, DownloadFails, StopRefused, InstallFails,
     ForcedStopFails, Publish, PowerLoss, WorkerExits
<1>. QED  BY <1>6, <1>7, <1>8, <1>9 DEF UpdateNext, Supervise

(***************************************************************************)
(* What the next boot would run changes in one step, the removal of the    *)
(* journal, and only to a newer release that has passed its trial: no      *)
(* sequence of publications, losses and errors takes the collector back.   *)
(***************************************************************************)
THEOREM UpdatesMoveForward == UpdateSpec => CommitsForward
<1>1. ASSUME UpdateInv, UpdateNext, Unjournal
      PROVE  Committed' > Committed /\ Committed' \in proven'
  BY <1>1 DEF Unjournal, UpdateInv, ReleaseInv, JournalInv, SafeInv, Trying, Committed
<1>2. ASSUME UpdateInv, [UpdateNext]_updateVars, ~clobbered'
      PROVE  Committed' = Committed \/ (Committed' > Committed /\ Committed' \in proven')
  <2>1. CASE UNCHANGED updateVars
    BY <2>1 DEF updateVars, Committed
  <2>. QED  BY <1>1, <1>2, <2>1, CommittedStays
<1>3. UpdateInv /\ [UpdateNext]_updateVars
        => [~clobbered' => \/ Committed' = Committed
                           \/ Committed' > Committed /\ Committed' \in proven']_updateVars
  BY <1>2
<1>. QED  BY <1>3, UpdateInvariance, PTL DEF UpdateSpec, CommitsForward
================================================================================
