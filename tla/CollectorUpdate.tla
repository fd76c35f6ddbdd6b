----------------------------- MODULE CollectorUpdate ----------------------------
(***************************************************************************)
(* The supervisor that runs and updates an installed collector             *)
(* (UpdateTransaction and Supervisor in collector_updater.py).  Only the   *)
(* files survive a loss of power, which may come between any two steps.    *)
(* A copy is two steps, between which its target holds part of the file; a *)
(* rename, and atomic_json, are one.                                       *)
(*                                                                         *)
(* The version a worker reports is the one of the executable it was        *)
(* started from, so self.current is not a variable of its own here; nor is *)
(* self.blocked_version, which the status file repeats.                    *)
(***************************************************************************)
EXTENDS Naturals

CONSTANTS
  MaxVersion,  \* bound: releases 1 .. MaxVersion are published, in this order
  Bad,         \* releases that never pass their trial
  Torn,        \* content of a file that was only partly written
  Absent,      \* no file, no journal, no worker
  MaxLosses,   \* bound: losses of power and exits of the worker
  MaxErrors    \* bound: failed copies and writes (a full disk, a locked file)

Version == 1..MaxVersion
Content == Version \cup {Torn, Absent}
Journal == [target : Version, previous : Version]

ASSUME UpdateAssumption == /\ MaxVersion \in Nat \ {0}
                           /\ Bad \subseteq Version \ {1}
                           /\ Torn \notin Version
                           /\ Absent \notin Version \cup {Torn} \cup Journal
                           /\ MaxLosses \in Nat
                           /\ MaxErrors \in Nat

VARIABLES
  exe,        \* the collector's executable
  previous,   \* collector-previous.exe
  staged,     \* collector-update.download
  journal,    \* collector-update-transaction.json
  installed,  \* the version in collector-installed.json
  blocked,    \* blocked_version in the status file
  offer,      \* the release in the cloud's manifest
  worker,     \* the version of the worker that runs
  pc,         \* the supervisor's next step
  release,    \* the release it is installing or taking back
  booting,    \* is a recovery the one made when the supervisor starts
  losses,     \* losses and exits so far
  errors,     \* errors so far
  proven,     \* history: versions that have passed their trial
  abandoned,  \* history: has this supervisor given up taking back the open transaction
  clobbered   \* history: was the saved executable copied over with the journal open,
              \* and has nothing been committed since

files == <<exe, previous, staged, journal, installed>>
bounds == <<offer, losses, errors>>
history == <<proven, abandoned, clobbered>>
updateVars == <<files, blocked, bounds, worker, pc, release, booting, history>>

Pc == {"off", "recover", "restoring", "restored", "marking", "unlinking", "blocking",
       "launch", "loop", "downloading", "stopping", "switch", "saving", "journaling",
       "replacing", "start", "trial", "commit", "unjournal", "reporting", "forcing", "failed"}

(***************************************************************************)
(* Beyond the types: a trial runs the release being installed, and the     *)
(* executable is never missing.                                            *)
(***************************************************************************)
UpdateTypeOK == /\ exe \in Version \cup {Torn}
                /\ previous \in Content
                /\ staged \in Content
                /\ journal \in Journal \cup {Absent}
                /\ installed \in Version
                /\ blocked \in Version \cup {Absent}
                /\ offer \in Version
                /\ worker \in Version \cup {Absent}
                /\ pc \in Pc
                /\ release \in Version \cup {Absent}
                /\ booting \in BOOLEAN
                /\ losses \in 0..MaxLosses
                /\ errors \in 0..MaxErrors
                /\ proven \in SUBSET (Version \ Bad)
                /\ abandoned \in BOOLEAN
                /\ clobbered \in BOOLEAN
                /\ pc \in {"trial", "commit"} => exe = release

UpdateInit == /\ exe = 1
              /\ previous = Absent
              /\ staged = Absent
              /\ journal = Absent
              /\ installed = 1
              /\ blocked = Absent
              /\ offer = 1
              /\ worker = Absent
              /\ pc = "off"
              /\ release = Absent
              /\ booting = TRUE
              /\ losses = 0
              /\ errors = 0
              /\ proven = {1}
              /\ abandoned = FALSE
              /\ clobbered = FALSE

At(step) == pc = step
Goto(step) == pc' = step

--------------------------------------------------------------------------------
(* UpdateTransaction.recover *)

\* Mutant: the journal is not looked for when the supervisor starts.
BootUnrecovered == /\ At("off")
                   /\ booting' = TRUE
                   /\ abandoned' = FALSE
                   /\ Goto("launch")
                   /\ UNCHANGED <<files, blocked, bounds, worker, release, proven, clobbered>>

Boot == /\ At("off")
        /\ booting' = TRUE
        /\ abandoned' = FALSE
        /\ IF journal = Absent THEN Goto("launch") ELSE Goto("recover")
        /\ UNCHANGED <<files, blocked, bounds, worker, release, proven, clobbered>>

\* Copy the previous executable, not straight over the current one.  At boot the
\* release taken back is the journal's, later the one that was being installed.
BeginRestore == /\ At("recover")
                /\ staged' = Torn
                /\ release' = IF booting THEN journal.target ELSE release
                /\ Goto("restoring")
                /\ UNCHANGED <<exe, previous, journal, installed, blocked, bounds, worker,
                               booting, history>>

EndRestore == /\ At("restoring")
              /\ staged' = previous
              /\ Goto("restored")
              /\ UNCHANGED <<exe, previous, journal, installed, blocked, bounds, worker,
                             release, booting, history>>

ReplaceRestored == /\ At("restored")
                   /\ exe' = staged
                   /\ staged' = Absent
                   /\ Goto("marking")
                   /\ UNCHANGED <<previous, journal, installed, blocked, bounds, worker,
                                  release, booting, history>>

MarkRestored == /\ At("marking")
                /\ installed' = journal.previous
                /\ Goto("unlinking")
                /\ UNCHANGED <<exe, previous, staged, journal, blocked, bounds, worker,
                               release, booting, history>>

EndRecovery == /\ At("unlinking")
               /\ journal' = Absent
               /\ abandoned' = FALSE
               /\ Goto("blocking")
               /\ UNCHANGED <<exe, previous, staged, installed, blocked, bounds, worker,
                              release, booting, proven, clobbered>>

\* Mutant: a release that failed is not remembered.
BlockNothing == /\ At("blocking")
                /\ Goto("launch")
                /\ UNCHANGED <<files, blocked, bounds, worker, release, booting, history>>

\* report(blocked_version = ...)
Block == /\ At("blocking")
         /\ blocked' = release
         /\ Goto("launch")
         /\ UNCHANGED <<files, bounds, worker, release, booting, history>>

\* A copy or a write of the recovery fails.  When the supervisor is starting it
\* exits, and is started again; later, it goes on without having recovered.
RecoveryFails ==
  /\ \/ pc \in {"restoring", "restored", "marking", "unlinking"}
     \/ At("blocking") /\ booting
  /\ errors < MaxErrors
  /\ errors' = errors + 1
  /\ IF booting THEN Goto("off") ELSE Goto("loop")
  /\ abandoned' = ~booting
  /\ UNCHANGED <<files, blocked, offer, losses, worker, release, booting, proven, clobbered>>

--------------------------------------------------------------------------------
(* Supervisor.run and check_update *)

\* start_worker after a recovery, at boot, or when the worker has exited.
Launch == /\ pc \in {"launch", "loop"}
          /\ worker = Absent
          /\ exe # Torn
          /\ worker' = exe
          /\ booting' = FALSE
          /\ Goto("loop")
          /\ UNCHANGED <<files, blocked, bounds, release, history>>

\* Part of an executable cannot be started, and the supervisor exits.
LaunchFails == /\ pc \in {"launch", "loop"}
               /\ worker = Absent
               /\ exe = Torn
               /\ Goto("off")
               /\ UNCHANGED <<files, blocked, bounds, worker, release, booting, history>>

\* The worker is not healthy, or there is nothing to install.
NothingToInstall == /\ At("loop")
                    /\ worker # Absent
                    /\ worker \in Bad \/ offer <= worker \/ offer = blocked
                    /\ UNCHANGED updateVars

\* A healthy worker, and a release that is newer and not the blocked one.
Check == /\ At("loop")
         /\ worker \in Version \ Bad
         /\ offer > worker
         /\ offer # blocked
         /\ release' = offer
         /\ staged' = Torn
         /\ Goto("downloading")
         /\ UNCHANGED <<exe, previous, journal, installed, blocked, bounds, worker,
                        booting, history>>

\* Mutant: the download takes the release published last.
DownloadedLatest == /\ At("downloading")
                    /\ staged' = offer
                    /\ Goto("stopping")
                    /\ UNCHANGED <<exe, previous, journal, installed, blocked, bounds,
                                   worker, release, booting, history>>

Downloaded == /\ At("downloading")
              /\ staged' = release
              /\ Goto("stopping")
              /\ UNCHANGED <<exe, previous, journal, installed, blocked, bounds, worker,
                             release, booting, history>>

\* The download fails, or does not match its signed size and digest.
DownloadFails == /\ At("downloading")
                 /\ errors < MaxErrors
                 /\ errors' = errors + 1
                 /\ staged' = Absent
                 /\ Goto("loop")
                 /\ UNCHANGED <<exe, previous, journal, installed, blocked, offer, losses,
                                worker, release, booting, history>>

Stopped == /\ At("stopping")
           /\ worker' = Absent
           /\ Goto("switch")
           /\ UNCHANGED <<files, blocked, bounds, release, booting, history>>

\* The worker does not stop in time: the installation is postponed.
StopRefused == /\ At("stopping")
               /\ errors < MaxErrors
               /\ errors' = errors + 1
               /\ Goto("loop")
               /\ UNCHANGED <<files, blocked, offer, losses, worker, release, booting,
                              history>>

\* Mutant: the journal is written before the previous executable is saved.
BeginSaveJournaled == /\ At("switch")
                      /\ previous' = Torn
                      /\ journal' = [target |-> release, previous |-> exe]
                      /\ clobbered' = (clobbered \/ journal # Absent)
                      /\ Goto("saving")
                      /\ UNCHANGED <<exe, staged, installed, blocked, bounds, worker,
                                     release, booting, proven, abandoned>>

\* switch: save the executable, write the journal, put the new one in place.
BeginSave == /\ At("switch")
             /\ previous' = Torn
             /\ clobbered' = (clobbered \/ journal # Absent)
             /\ Goto("saving")
             /\ UNCHANGED <<exe, staged, journal, installed, blocked, bounds, worker,
                            release, booting, proven, abandoned>>

EndSave == /\ At("saving")
           /\ previous' = exe
           /\ Goto("journaling")
           /\ UNCHANGED <<exe, staged, journal, installed, blocked, bounds, worker,
                          release, booting, history>>

WriteJournal == /\ At("journaling")
                /\ journal' = [target |-> release, previous |-> exe]
                /\ Goto("replacing")
                /\ UNCHANGED <<exe, previous, staged, installed, blocked, bounds, worker,
                               release, booting, history>>

Replace == /\ At("replacing")
           /\ exe' = staged
           /\ staged' = Absent
           /\ Goto("start")
           /\ UNCHANGED <<previous, journal, installed, blocked, bounds, worker, release,
                          booting, history>>

StartTrial == /\ At("start")
              /\ worker' = exe
              /\ Goto("trial")
              /\ UNCHANGED <<files, blocked, bounds, release, booting, history>>

TrialPasses == /\ At("trial")
               /\ release \notin Bad
               /\ proven' = proven \cup {release}
               /\ Goto("commit")
               /\ UNCHANGED <<files, blocked, bounds, worker, release, booting, abandoned,
                              clobbered>>

\* It exits, or is not healthy for long enough in time: even a good one may.
TrialFails == /\ At("trial")
              /\ worker' \in {worker, Absent}
              /\ Goto("forcing")
              /\ UNCHANGED <<files, blocked, bounds, release, booting, history>>

\* Mutant: the transaction is closed before its version is recorded.
CommitUnjournaled == /\ At("commit")
                     /\ journal' = Absent
                     /\ Goto("unjournal")
                     /\ UNCHANGED <<exe, previous, staged, installed, blocked, bounds,
                                    worker, release, booting, history>>

Commit == /\ At("commit")
          /\ installed' = release
          /\ Goto("unjournal")
          /\ UNCHANGED <<exe, previous, staged, journal, blocked, bounds, worker, release,
                         booting, history>>

Unjournal == /\ At("unjournal")
             /\ journal' = Absent
             /\ abandoned' = FALSE
             /\ clobbered' = FALSE
             /\ Goto("reporting")
             /\ UNCHANGED <<exe, previous, staged, installed, blocked, bounds, worker,
                            release, booting, proven>>

ReportUpdated == /\ At("reporting")
                 /\ blocked' = Absent
                 /\ Goto("loop")
                 /\ UNCHANGED <<files, bounds, worker, release, booting, history>>

\* A copy or a write of the installation fails, or its worker cannot be started.
\* Only once switched is there a worker of it to stop.
InstallFails == /\ \/ /\ pc \in {"switch", "saving", "journaling", "replacing"}
                      /\ Goto("failed")
                   \/ /\ pc \in {"start", "commit", "unjournal", "reporting"}
                      /\ Goto("forcing")
                /\ errors < MaxErrors
                /\ errors' = errors + 1
                /\ UNCHANGED <<files, blocked, offer, losses, worker, release, booting,
                               history>>

\* stop_worker(force = True): at once when the worker has exited already.
ForcedStop == /\ At("forcing")
              /\ worker' = Absent
              /\ Goto("failed")
              /\ UNCHANGED <<files, blocked, bounds, release, booting, history>>

\* The stop file cannot be written, or the worker outlives being killed: nothing is
\* taken back or blocked, and the supervisor goes on with the worker it could not stop.
ForcedStopFails == /\ At("forcing")
                   /\ worker # Absent
                   /\ errors < MaxErrors
                   /\ errors' = errors + 1
                   /\ abandoned' = (journal # Absent)
                   /\ Goto("loop")
                   /\ UNCHANGED <<files, blocked, offer, losses, worker, release, booting,
                                  proven, clobbered>>

\* recover does nothing before the journal is written; the release is blocked
\* in any case.
Failed == /\ At("failed")
          /\ IF journal = Absent THEN Goto("blocking") ELSE Goto("recover")
          /\ UNCHANGED <<files, blocked, bounds, worker, release, booting, history>>

--------------------------------------------------------------------------------
(* The environment. *)

Publish == /\ offer < MaxVersion
           /\ offer' = offer + 1
           /\ UNCHANGED <<files, blocked, losses, errors, worker, pc, release, booting,
                          history>>

PowerLoss == /\ ~At("off")
             /\ losses < MaxLosses
             /\ losses' = losses + 1
             /\ worker' = Absent
             /\ release' = Absent
             /\ Goto("off")
             /\ UNCHANGED <<files, blocked, offer, errors, booting, history>>

WorkerExits == /\ At("loop")
               /\ worker # Absent
               /\ losses < MaxLosses
               /\ losses' = losses + 1
               /\ worker' = Absent
               /\ UNCHANGED <<files, blocked, offer, errors, pc, release, booting, history>>

Recovery == BeginRestore \/ EndRestore \/ ReplaceRestored \/ MarkRestored \/ EndRecovery

Installation == \/ Check \/ Downloaded \/ Stopped
                \/ BeginSave \/ EndSave \/ WriteJournal \/ Replace
                \/ StartTrial \/ TrialPasses \/ TrialFails
                \/ Commit \/ Unjournal \/ ReportUpdated \/ ForcedStop \/ Failed

Supervise == Boot \/ Recovery \/ Block \/ Launch \/ LaunchFails \/ Installation

UpdateNext == \/ Supervise \/ NothingToInstall
              \/ RecoveryFails \/ DownloadFails \/ StopRefused \/ InstallFails \/ ForcedStopFails
              \/ Publish \/ PowerLoss \/ WorkerExits

UpdateSpec == UpdateInit /\ [][UpdateNext]_updateVars

\* The supervisor is one thread that loops for ever, and is started at boot.
FairUpdateSpec == UpdateSpec /\ WF_updateVars(Supervise)

--------------------------------------------------------------------------------
(* Properties. *)

(***************************************************************************)
(* While a transaction is open, the executable it would restore is whole   *)
(* and is the version it names, even when a roll-back has failed: a loss   *)
(* of power can come at any moment.  (Until the next commit this is lost   *)
(* if another update is begun with the journal open, see                   *)
(* RecoveryRestoresPrevious.)                                              *)
(***************************************************************************)
RollbackReady == journal # Absent /\ ~clobbered => previous = journal.previous

(***************************************************************************)
(* With no transaction open, the version on record is the installed one,   *)
(* and it has passed its trial: losing power never makes an unproven       *)
(* release permanent.                                                      *)
(***************************************************************************)
InstalledIsProven == journal = Absent /\ ~clobbered => installed = exe /\ exe \in proven

(***************************************************************************)
(* Outside its trial, and while it is not being stopped after it, only a   *)
(* version that has passed one collects data (README: an interrupted       *)
(* switch is recovered before starting a worker at next boot).  The one    *)
(* exception is a supervisor that failed to stop the worker, or to recover *)
(* (the code then reports the failure and goes on): its transaction is     *)
(* still open, and it lasts until the next boot at most.                   *)
(***************************************************************************)
OnlyProvenCollects ==
  worker # Absent /\ pc \notin {"trial", "forcing"} /\ ~clobbered
    => worker \in proven \/ (abandoned /\ journal # Absent)

\* The release that a loss of power would leave: what the journal would put back,
\* or else the executable.
Committed == IF journal = Absent THEN exe ELSE journal.previous

(***************************************************************************)
(* An update takes effect in one step, whole and only forward: what the    *)
(* next boot would run changes only to a newer release, that has passed    *)
(* its trial, whatever is published meanwhile and whenever power is lost.  *)
(***************************************************************************)
CommitsForward ==
  [][~clobbered' => \/ Committed' = Committed
                    \/ Committed' > Committed /\ Committed' \in proven']_updateVars

(***************************************************************************)
(* In the end a proven version collects data and is left to: a release     *)
(* that fails is not tried again and again (README: a failed version is    *)
(* blocked until a newer release).  A supervisor that could not take back  *)
(* an installation may go on with any worker until it is started again.    *)
(***************************************************************************)
CollectionSettles == <>[](worker \in proven \/ abandoned \/ clobbered)

(***************************************************************************)
(* A recovery puts back the executable that its journal names (comment in  *)
(* UpdateTransaction.switch: an interrupted transaction restores the known *)
(* previous executable on the next boot).                                  *)
(***************************************************************************)
RecoveryRestoresPrevious ==
  [][At("restored") /\ exe' # exe => exe' = journal.previous]_updateVars
================================================================================
