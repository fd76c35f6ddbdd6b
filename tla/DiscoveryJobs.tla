------------------------------ MODULE DiscoveryJobs ----------------------------
(***************************************************************************)
(* Scans for devices on one site: jobs an administrator asks for or the    *)
(* claim handler creates by itself, collectors that poll for a job, scan   *)
(* and report, and the assignment of what was found (cloud_api.py,         *)
(* cloud_sync.py pull_discovery_job_once, device_discovery.py).            *)
(*                                                                         *)
(* The handlers run at READ COMMITTED: what one statement read may have    *)
(* changed when the next one writes, so a handler that looks before it     *)
(* inserts is two steps.  Its own UPDATEs and DELETEs are seen by others   *)
(* when it commits, in the second.  A collector gives up on a request      *)
(* while the cloud still works on it: its reports arrive whenever they     *)
(* do, and a second collector, or the same one again, may poll meanwhile.  *)
(***************************************************************************)
EXTENDS Naturals, FiniteSets

CONSTANTS
  Job,         \* ids of the jobs ever inserted: the bound
  Admin,       \* concurrent administrators
  Collector,   \* collector instances that may speak for the site
  Host,        \* addresses on the site's network
  None

ASSUME DiscoveryAssumption == None \notin Job \cup Host

VARIABLES
  job,       \* device_discovery_jobs
  found,     \* device_discovery_results: what the last report said of each host
  admin,     \* what each administrator's handler is doing
  claim,     \* what each collector's claim request is doing in the cloud
  scanning,  \* the job each collector is scanning for
  report     \* result requests on their way

discoveryVars == <<job, found, admin, claim, scanning, report>>

\* What a scan says of an address: nothing, or a candidate.
Answer == {"none", "candidate"}
NothingFound == [h \in Host |-> "none"]

\* age: 0 new, 1 older than five minutes (the default interval of automatic
\* scans too), 2 older than the retention; overdue: running for five minutes.
JobRow == [status : {"absent", "pending", "running", "completed", "failed"},
           source : {"manual", "automatic"}, age : 0..2, overdue : BOOLEAN]
NoJob == [status |-> "absent", source |-> "manual", age |-> 0, overdue |-> FALSE]

Outcome == [status : {"completed"}, found : [Host -> Answer]]
             \cup [status : {"failed"}, found : {NothingFound}]

\* A handler between its look and its commit, with what it saw.
ClaimState == [doing : {"idle", "claiming"}, automatic : BOOLEAN]

DiscoveryTypeOK == /\ job \in [Job -> JobRow]
                   /\ found \in [Job -> [Host -> Answer]]
                   /\ admin \in [Admin -> {"idle", "creating"}]
                   /\ claim \in [Collector -> ClaimState]
                   /\ scanning \in [Collector -> Job \cup {None}]
                   /\ report \subseteq [job : Job, outcome : Outcome]

NotClaiming == [doing |-> "idle", automatic |-> FALSE]

DiscoveryInit == /\ job = [j \in Job |-> NoJob]
                 /\ found = [j \in Job |-> NothingFound]
                 /\ admin = [a \in Admin |-> "idle"]
                 /\ claim = [c \in Collector |-> NotClaiming]
                 /\ scanning = [c \in Collector |-> None]
                 /\ report = {}

Active(rows) == {j \in Job : rows[j].status \in {"pending", "running"}}

Pending(rows) == {j \in Job : rows[j].status = "pending"}
Unused(rows) == {j \in Job : rows[j].status = "absent" /\ rows[j].age = 0}

Failed(row) == [row EXCEPT !.status = "failed", !.overdue = FALSE]

\* Mutant: the UPDATE has lost its condition on the status.
FailAnyOld(rows) == [j \in Job |-> IF rows[j].status # "absent" /\ rows[j].age > 0
                                   THEN Failed(rows[j]) ELSE rows[j]]

\* create_discovery_job fails what was requested more than five minutes ago.
FailOld(rows) == [j \in Job |-> IF j \in Active(rows) /\ rows[j].age > 0
                                THEN Failed(rows[j]) ELSE rows[j]]

\* Mutant: what runs late is left to the collector.
FailNothing(rows) == rows

\* The claim fails what has been running for five minutes ...
FailOverdue(rows) == [j \in Job |-> IF rows[j].status = "running" /\ rows[j].overdue
                                    THEN Failed(rows[j]) ELSE rows[j]]

\* ... and deletes settled jobs past the retention; an id is never used again.
Delete(rows) == [j \in Job |-> IF /\ rows[j].status \in {"completed", "failed"}
                                  /\ rows[j].age = 2
                               THEN [NoJob EXCEPT !.age = 2] ELSE rows[j]]
Housekeeping(rows) == FailOverdue(Delete(rows))

\* Mutant: no index keeps a second active job out.
InsertRegardless(rows, source) ==
  IF Unused(rows) = {} THEN {rows}
  ELSE {[rows EXCEPT ![j] = [NoJob EXCEPT !.status = "pending", !.source = source]] :
          j \in Unused(rows)}

\* INSERT ... ON CONFLICT (site_id) WHERE status IN ('pending','running') DO NOTHING
Insert(rows, source) ==
  IF Active(rows) # {} \/ Unused(rows) = {} THEN {rows}
  ELSE {[rows EXCEPT ![j] = [NoJob EXCEPT !.status = "pending", !.source = source]] :
          j \in Unused(rows)}

--------------------------------------------------------------------------------
(* Administrators. *)

\* An active job that is not old is returned to whoever asks for another.
CreateReturnsActive(a) ==
  /\ admin[a] = "idle"
  /\ Active(FailOld(job)) # {}
  /\ job' = FailOld(job)
  /\ UNCHANGED <<found, admin, claim, scanning, report>>

CreateLooks(a) ==
  /\ admin[a] = "idle"
  /\ Active(FailOld(job)) = {}
  /\ admin' = [admin EXCEPT ![a] = "creating"]
  /\ UNCHANGED <<job, found, claim, scanning, report>>

\* The UPDATE of the look takes effect with the insert.
CreateInserts(a) ==
  /\ admin[a] = "creating"
  /\ job' \in Insert(FailOld(job), "manual")
  /\ admin' = [admin EXCEPT ![a] = "idle"]
  /\ UNCHANGED <<found, claim, scanning, report>>

--------------------------------------------------------------------------------
(* The claim: housekeeping, an automatic job when none is active and none was  *)
(* requested lately, and the pending job becomes running.                      *)

NoRecentAutomatic(rows) ==
  \A j \in Job : rows[j].status # "absent" /\ rows[j].source = "automatic"
                   => rows[j].age > 0

ClaimLooks(c) ==
  /\ scanning[c] = None
  /\ claim[c].doing = "idle"
  /\ claim' = [claim EXCEPT ![c] =
                 [doing |-> "claiming",
                  automatic |-> /\ Active(Housekeeping(job)) = {}
                                /\ NoRecentAutomatic(Housekeeping(job))]]
  /\ UNCHANGED <<job, found, admin, scanning, report>>

Started(rows, j) == [rows EXCEPT ![j].status = "running", ![j].overdue = FALSE]

\* The job goes to the collector, unless it has stopped waiting.
ClaimCommits(c) ==
  /\ claim[c].doing = "claiming"
  /\ claim' = [claim EXCEPT ![c] = NotClaiming]
  /\ \E rows \in IF claim[c].automatic
                 THEN Insert(Housekeeping(job), "automatic")
                 ELSE {Housekeeping(job)} :
       IF Pending(rows) = {}
       THEN job' = rows /\ UNCHANGED scanning
       ELSE \E j \in Pending(rows) :
              /\ job' = Started(rows, j)
              /\ scanning' \in {scanning, [scanning EXCEPT ![c] = j]}
  /\ UNCHANGED <<found, admin, report>>

--------------------------------------------------------------------------------
(* The collector: scan_modbus_networks, then the report. *)

\* A host is verified when it answers for the particles and the firmware and its
\* particle unit is the supported one (probe_modbus_host).
Posts(c, outcome) ==
  /\ scanning[c] # None
  /\ report' = report \cup {[job |-> scanning[c], outcome |-> outcome]}
  /\ scanning' = [scanning EXCEPT ![c] = None]
  /\ UNCHANGED <<job, found, admin, claim>>

\* It stops, or gives up, before it has reported.
Crash(c) ==
  /\ scanning[c] # None
  /\ scanning' = [scanning EXCEPT ![c] = None]
  /\ UNCHANGED <<job, found, admin, claim, report>>

LoseReport(r) ==
  /\ r \in report
  /\ report' = report \ {r}
  /\ UNCHANGED <<job, found, admin, claim, scanning>>

\* complete_edge_discovery_job: the status the job has by now is not looked at.
Complete(r) ==
  /\ r \in report
  /\ job[r.job].status # "absent"
  /\ job' = [job EXCEPT ![r.job].status = r.outcome.status, ![r.job].overdue = FALSE]
  /\ found' = [found EXCEPT ![r.job] = r.outcome.found]
  /\ report' = report \ {r}
  /\ UNCHANGED <<admin, claim, scanning>>

--------------------------------------------------------------------------------
(* Time. *)

Ages(j) ==
  /\ job[j].status # "absent"
  /\ job[j].age < 2
  /\ job' = [job EXCEPT ![j].age = @ + 1]
  /\ UNCHANGED <<found, admin, claim, scanning, report>>

RunsOverdue(j) ==
  /\ job[j].status = "running"
  /\ job[j].age > 0
  /\ ~job[j].overdue
  /\ job' = [job EXCEPT ![j].overdue = TRUE]
  /\ UNCHANGED <<found, admin, claim, scanning, report>>

CollectorStep(c) == \/ ClaimLooks(c) \/ ClaimCommits(c) \/ Crash(c)
                    \/ \E outcome \in Outcome : Posts(c, outcome)

DiscoveryNext == \/ \E a \in Admin : \/ CreateReturnsActive(a) \/ CreateLooks(a)
                                     \/ CreateInserts(a)
                 \/ \E c \in Collector : CollectorStep(c)
                 \/ \E r \in report : Complete(r) \/ LoseReport(r)
                 \/ \E j \in Job : Ages(j) \/ RunsOverdue(j)

DiscoverySpec == DiscoveryInit /\ [][DiscoveryNext]_discoveryVars

\* A collector's channel polls for ever, a scan ends, handlers return, time passes.
DiscoveryFairness ==
  /\ \A c \in Collector :
       /\ WF_discoveryVars(ClaimLooks(c))
       /\ WF_discoveryVars(ClaimCommits(c))
       /\ WF_discoveryVars(Crash(c) \/ \E outcome \in Outcome : Posts(c, outcome))
  /\ \A j \in Job : WF_discoveryVars(Ages(j)) /\ WF_discoveryVars(RunsOverdue(j))

FairDiscoverySpec == DiscoverySpec /\ DiscoveryFairness

--------------------------------------------------------------------------------
\* Only a completed job shows candidates: not one that failed, and not one that
\* a collector is still scanning for (complete_edge_discovery_job replaces the
\* results; no other statement may leave a job's results behind).
CandidatesAreComplete ==
  \A j \in Job : found[j] # NothingFound => job[j].status \in {"completed", "absent"}

\* What an administrator was shown does not change under him: a completed job
\* stays as it is until it is deleted, even when a job it replaced, or one that
\* was given up, is reported late (complete_edge_discovery_job ignores the status).
CompletedIsFinal ==
  [][\A j \in Job : job[j].status = "completed" =>
       \/ job'[j].status = "absent"
       \/ job'[j].status = "completed" /\ found'[j] = found[j]]_discoveryVars

(***************************************************************************)
(* The refinement: a job is wanted while it is active and free until it is *)
(* inserted, the results of a deleted one are shown to nobody, and neither *)
(* the claim, nor the scan, nor a report on its way exists to the board.   *)
(***************************************************************************)
StandingOf(row) ==
  CASE row.status \in {"pending", "running"} -> "wanted"
    [] row.status = "failed"                 -> "given_up"
    [] row.status = "completed"              -> "finished"
    [] row.status = "absent" /\ row.age = 0  -> "free"
    [] OTHER                                 -> "deleted"

BoardView == [j \in Job |-> StandingOf(job[j])]
ShownView == [j \in Job |-> IF job[j].status = "completed" THEN found[j] ELSE NothingFound]

Board == INSTANCE ScanBoard WITH board <- BoardView, shown <- ShownView,
                                 Result <- [Host -> Answer], Nothing <- NothingFound

\* The handlers and the collectors, with reports lost, late and overtaken, keep
\* what ScanBoard promises the administrator.
ImplementsScanBoard == Board!Spec

\* However collectors stop and reports get lost, a scan that was asked for ends
\* as completed or failed (the five-minute limits of both handlers).
EveryScanSettles ==
  \A j \in Job : job[j].status = "pending" ~> job[j].status \notin {"pending", "running"}
================================================================================
