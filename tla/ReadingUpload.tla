----------------------------- MODULE ReadingUpload -----------------------------
(***************************************************************************)
(* The readings channel: samples stored in the collector's SQLite database *)
(* are uploaded in batches (CloudSyncService.sync_once in cloud_sync.py),  *)
(* inserted by the cloud in one transaction per request (ingest_batch in   *)
(* cloud_api.py) and pruned locally (storage_maintenance.py).              *)
(*                                                                         *)
(* Three actors take steps: the sampling thread (Record), the upload       *)
(* thread, whose local variables are sent, todo and reply, and the cloud.  *)
(* A request the collector has given up on may still reach the cloud.      *)
(***************************************************************************)
EXTENDS Naturals, FiniteSets

CONSTANTS
  Reading,      \* the readings, numbered by the time they were measured
  Malformed,    \* readings whose payload fails the cloud's validation (400/422)
  Uncovered,    \* readings no assignment period of their device covers (403)
  BatchSize,    \* rows taken per request (batch_size)
  MaxAttempts,  \* rejections before a row is quarantined (max_item_attempts)
  MaxLate,      \* bound: abandoned requests the cloud may still process
  MaxRestarts   \* bound: restarts of the collector

ASSUME ReadingAssumption == /\ Reading \subseteq Nat
                            /\ Malformed \subseteq Reading
                            /\ Uncovered \subseteq Reading
ASSUME BoundAssumption == /\ BatchSize \in Nat \ {0}
                          /\ MaxAttempts \in Nat \ {0}
                          /\ MaxLate \in Nat
                          /\ MaxRestarts \in Nat

VARIABLES
  row,       \* each reading's row in the local database
  attempts,  \* readings.sync_attempts
  ready,     \* _config_ready: a configuration was pulled since the last start
  sent,      \* the rows of the request in progress, {} between requests
  todo,      \* rows of a rejected batch still to be sent one by one
  reply,     \* the answer to the request in progress
  late,      \* abandoned requests that may still reach the cloud
  copies,    \* rows per reading in the cloud's readings table
  restarts   \* restarts so far

vars == <<row, attempts, ready, sent, todo, reply, late, copies, restarts>>

RowState == {"none", "queued", "quarantined", "synced", "pruned"}

(***************************************************************************)
(* TypeOK, beyond the types: a row's rejections never pass the limit at    *)
(* which it is quarantined.                                                *)
(***************************************************************************)
TypeOK == /\ row \in [Reading -> RowState]
          /\ attempts \in [Reading -> 0..MaxAttempts]
          /\ ready \in BOOLEAN
          /\ sent \in SUBSET Reading
          /\ todo \in SUBSET Reading
          /\ reply \in {"none", "ok", "invalid", "error"}
          /\ late \in SUBSET (SUBSET Reading)
          /\ copies \in [Reading -> Nat]
          /\ restarts \in 0..MaxRestarts

Init == /\ row = [r \in Reading |-> "none"]
        /\ attempts = [r \in Reading |-> 0]
        /\ ready = FALSE
        /\ sent = {}
        /\ todo = {}
        /\ reply = "none"
        /\ late = {}
        /\ copies = [r \in Reading |-> 0]
        /\ restarts = 0

channel == <<sent, todo, reply>>

--------------------------------------------------------------------------------
(* The collector's database. *)

\* The sampling thread stores a reading; samples of different devices, and a
\* last sample saved when its device fails, need not arrive in time order.
Record(r) == /\ row[r] = "none"
             /\ row' = [row EXCEPT ![r] = "queued"]
             /\ UNCHANGED <<attempts, ready, channel, late, copies, restarts>>

\* Mutant: the retention pass forgets that the row must have been synced.
PruneUnsynced(r) ==
  /\ row[r] \in {"queued", "synced"}
  /\ r \notin sent \cup todo
  /\ row' = [row EXCEPT ![r] = "pruned"]
  /\ UNCHANGED <<attempts, ready, channel, late, copies, restarts>>

\* The retention pass deletes a synced row that is old enough.
Prune(r) == /\ row[r] = "synced"
            /\ row' = [row EXCEPT ![r] = "pruned"]
            /\ UNCHANGED <<attempts, ready, channel, late, copies, restarts>>

--------------------------------------------------------------------------------
(* The upload thread. *)

\* The configuration channel has pulled a configuration: uploads may start.
ConfigPulled == /\ ~ready
                /\ ready' = TRUE
                /\ UNCHANGED <<row, attempts, channel, late, copies, restarts>>

Pending == {r \in Reading : row[r] = "queued"}

\* ORDER BY sync_attempts, timestamp
Before(r, s) == \/ attempts[r] < attempts[s]
                \/ attempts[r] = attempts[s] /\ r < s

IsFirst(r, S) == \A s \in S \ {r} : Before(r, s)

\* The first BatchSize pending rows.
PendingRows ==
  {r \in Pending : Cardinality({s \in Pending : Before(s, r)}) < BatchSize}

Select == /\ ready
          /\ sent = {}
          /\ Pending # {}
          /\ sent' = PendingRows
          /\ UNCHANGED <<row, attempts, ready, todo, reply, late, copies, restarts>>

\* Nothing is pending: sync_once returns 0 and the thread sleeps.
NothingPending == /\ ready
                  /\ sent = {}
                  /\ Pending = {}
                  /\ UNCHANGED vars

\* The next row of the one-by-one retry, or back to the idle loop.
Advance == /\ reply' = "none"
           /\ \/ /\ todo = {}
                 /\ sent' = {}
                 /\ todo' = {}
              \/ \E r \in todo : /\ IsFirst(r, todo)
                                 /\ sent' = {r}
                                 /\ todo' = todo \ {r}

\* Mutant: any answer from the cloud is taken for an acknowledgement.
AcknowledgeAnyAnswer ==
  /\ sent # {}
  /\ reply # "none"
  /\ row' = [r \in Reading |-> IF r \in sent THEN "synced" ELSE row[r]]
  /\ Advance
  /\ UNCHANGED <<attempts, ready, late, copies, restarts>>

\* Every record was acknowledged: synced_at is set for the rows just sent.
Acknowledge ==
  /\ sent # {}
  /\ reply = "ok"
  /\ row' = [r \in Reading |-> IF r \in sent THEN "synced" ELSE row[r]]
  /\ Advance
  /\ UNCHANGED <<attempts, ready, late, copies, restarts>>

\* Mutant: a rejected batch charges an attempt to every row in it.
SplitChargesAll ==
  /\ reply = "invalid"
  /\ \E r \in sent : /\ sent # {r}
                     /\ IsFirst(r, sent)
                     /\ sent' = {r}
                     /\ todo' = sent \ {r}
  /\ attempts' = [r \in Reading |-> IF r \in sent /\ attempts[r] < MaxAttempts
                                    THEN attempts[r] + 1 ELSE attempts[r]]
  /\ reply' = "none"
  /\ UNCHANGED <<row, ready, late, copies, restarts>>

\* A batch of several rows was rejected: they are sent again one by one.
Split == /\ reply = "invalid"
         /\ \E r \in sent : /\ sent # {r}
                            /\ IsFirst(r, sent)
                            /\ sent' = {r}
                            /\ todo' = sent \ {r}
         /\ reply' = "none"
         /\ UNCHANGED <<row, attempts, ready, late, copies, restarts>>

\* Mutant: the rejection is recorded as a temporary failure.
RejectItemUncounted ==
  \E r \in Reading :
    /\ reply = "invalid"
    /\ sent = {r}
    /\ Advance
    /\ UNCHANGED <<row, attempts, ready, late, copies, restarts>>

\* A row sent alone was rejected: one more attempt, quarantined at the limit.
RejectItem ==
  \E r \in Reading :
    /\ reply = "invalid"
    /\ sent = {r}
    /\ attempts' = [attempts EXCEPT ![r] = @ + 1]
    /\ row' = [row EXCEPT ![r] = IF attempts[r] + 1 >= MaxAttempts
                                 THEN "quarantined" ELSE @]
    /\ Advance
    /\ UNCHANGED <<ready, late, copies, restarts>>

\* Any other failure: only sync_error is written, the rest of the batch is
\* dropped and the channel backs off.
GiveUp == /\ reply = "error"
          /\ reply' = "none"
          /\ sent' = {}
          /\ todo' = {}
          /\ UNCHANGED <<row, attempts, ready, late, copies, restarts>>

\* The request in progress is lost, or reaches the cloud after the collector
\* stopped waiting for it.
Abandoned == \/ UNCHANGED late
             \/ /\ Cardinality(late) < MaxLate
                /\ late' = late \cup {sent}

TimedOut == /\ sent # {}
            /\ reply = "none"
            /\ reply' = "error"
            /\ Abandoned
            /\ UNCHANGED <<row, attempts, ready, sent, todo, copies, restarts>>

\* The process ends and starts again: only the database survives.
Restart == /\ restarts < MaxRestarts
           /\ restarts' = restarts + 1
           /\ ready' = FALSE
           /\ sent' = {}
           /\ todo' = {}
           /\ reply' = "none"
           /\ IF sent # {} /\ reply = "none" THEN Abandoned ELSE UNCHANGED late
           /\ UNCHANGED <<row, attempts, copies>>

--------------------------------------------------------------------------------
(* The cloud. *)

\* Validation comes before any statement, authorization before each insert;
\* either one undoes the whole request.
Verdict(S) == IF S \cap Malformed # {} THEN "invalid"
              ELSE IF S \cap Uncovered # {} THEN "error" ELSE "ok"

\* Mutant: a plain INSERT.
InsertAgain(S) ==
  copies' = [r \in Reading |-> IF r \in S /\ Verdict(S) = "ok"
                               THEN copies[r] + 1 ELSE copies[r]]

\* INSERT ... ON CONFLICT(record_uuid) DO NOTHING
Insert(S) ==
  copies' = [r \in Reading |-> IF r \in S /\ Verdict(S) = "ok" /\ copies[r] = 0
                               THEN 1 ELSE copies[r]]

\* The request in progress is processed and its answer reaches the collector.
Ingest == /\ sent # {}
          /\ reply = "none"
          /\ Insert(sent)
          /\ reply' = Verdict(sent)
          /\ UNCHANGED <<row, attempts, ready, sent, todo, late, restarts>>

\* An abandoned request is processed; nobody waits for its answer.
IngestLate(S) == /\ S \in late
                 /\ Insert(S)
                 /\ late' = late \ {S}
                 /\ UNCHANGED <<row, attempts, ready, channel, restarts>>

--------------------------------------------------------------------------------
UploadStep == Select \/ Acknowledge \/ Split \/ RejectItem \/ GiveUp

Next == \/ \E r \in Reading : Record(r) \/ Prune(r)
        \/ ConfigPulled
        \/ UploadStep
        \/ NothingPending
        \/ TimedOut
        \/ Restart
        \/ Ingest
        \/ \E S \in late : IngestLate(S)

(***************************************************************************)
(* The channels' threads loop until the process ends, so their steps are   *)
(* weakly fair.  A failed request is retried for ever: batches that keep   *)
(* being sent, or a row that keeps being sent alone, are answered in the   *)
(* end (a network that always loses the same request starves any           *)
(* protocol).                                                              *)
(***************************************************************************)
Fairness == /\ WF_vars(ConfigPulled)
            /\ WF_vars(UploadStep)
            /\ SF_vars(Cardinality(sent) > 1 /\ Ingest)
            /\ \A r \in Reading : SF_vars(sent = {r} /\ Ingest)

Spec == Init /\ [][Next]_vars
FairSpec == Spec /\ Fairness

--------------------------------------------------------------------------------
(* Properties. *)

Stored == {r \in Reading : copies[r] > 0}

(***************************************************************************)
(* A reading marked synced, or already pruned, is in the cloud: the local  *)
(* copy is given up only for what the cloud has committed, whatever was    *)
(* lost, repeated or interrupted on the way (README: unsynced rows remain  *)
(* in SQLite until the cloud acknowledges them).                           *)
(***************************************************************************)
AckedIsStored == \A r \in Reading : row[r] \in {"synced", "pruned"} => r \in Stored

(***************************************************************************)
(* Requests repeated after a lost answer, and late ones, never duplicate a *)
(* reading in the cloud (repeated uploads are safe).                       *)
(***************************************************************************)
StoredOnce == \A r \in Reading : copies[r] <= 1

(***************************************************************************)
(* Only a row that is itself invalid is ever charged an attempt or set     *)
(* aside, and only after MaxAttempts rejections sent alone: sharing a      *)
(* batch with a bad row, and temporary failures, cost nothing.             *)
(***************************************************************************)
QuarantineEarned ==
  \A r \in Reading : /\ attempts[r] > 0 => r \in Malformed
                     /\ row[r] = "quarantined" <=> attempts[r] = MaxAttempts

LocalView == [r \in Reading |-> CASE row[r] = "none"        -> "none"
                                  [] row[r] = "queued"      -> "held"
                                  [] row[r] = "quarantined" -> "refused"
                                  [] OTHER                  -> "released"]

Forward == INSTANCE StoreAndForward WITH local <- LocalView, delivered <- Stored

(***************************************************************************)
(* Batches, retries, restarts and pruning implement the abstract           *)
(* store-and-forward contract.                                             *)
(***************************************************************************)
ImplementsStoreAndForward == Forward!Spec

(***************************************************************************)
(* Every stored reading is eventually acknowledged or quarantined: a bad   *)
(* row never blocks the good ones behind it.  The one exception is a row   *)
(* the cloud answers with 403 instead of 400 or 422: while such a row is   *)
(* queued, its batches fail as a whole and nothing is promised.            *)
(***************************************************************************)
EveryReadingSettles ==
  \A r \in Reading :
    row[r] = "queued" ~> \/ row[r] # "queued"
                         \/ \E u \in Uncovered \ Malformed : row[u] = "queued"
================================================================================
