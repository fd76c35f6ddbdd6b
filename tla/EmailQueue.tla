------------------------------- MODULE EmailQueue -------------------------------
(***************************************************************************)
(* Email notifications of alarms: rows of email_notifications are queued   *)
(* in the transaction that stores an alarm event (enqueue_alarm in         *)
(* email_alerts.py, called by ingest_alarms), claimed under a lease and    *)
(* sent by workers (claim_notification, finish_notification), and          *)
(* cancelled by the settings page (save_settings in email_api.py) and by a *)
(* maintenance period of the device (start_maintenance in                  *)
(* device_lifecycle.py).                                                   *)
(*                                                                         *)
(* A transaction is one action when its locks make it equivalent to one.   *)
(* finish_notification, after an error, is not: it reads the event and the *)
(* maintenance periods, and writes the row it decided in another           *)
(* statement; only the settings are locked from the one to the other.      *)
(*                                                                         *)
(* Time is abstracted: a retry delay may be over at any moment, and so may *)
(* a lease.  Every claim counts an attempt, so a claim's attempt number    *)
(* identifies it, as claim_token does in the code.                         *)
(***************************************************************************)
EXTENDS Naturals, FiniteSets

CONSTANTS
  Event,        \* alarm events of one device
  Recipient,
  Worker,       \* email workers
  MaxAttempts,  \* MAX_ATTEMPTS
  MaxEdits      \* bound: changes made by the administrator

ASSUME EmailAssumption == /\ MaxAttempts \in Nat \ {0}
                          /\ MaxEdits \in Nat
                          /\ IsFiniteSet(Worker)

VARIABLES
  device,     \* each event as its device knows it
  stored,     \* each event as the cloud's alarm_events table has it
  recent,     \* events that started after alerts were last enabled
  policy,     \* email_alert_settings
  maint,      \* is a maintenance period of the device active
  touched,    \* events with a maintenance period: "during" them, or only "after"
  note,       \* email_notifications, by event, kind and recipient
  job,        \* what each worker is doing
  accepted,   \* how often the mail server accepted each notification
  edits       \* changes made by the administrator so far

emailVars == <<device, stored, recent, policy, maint, touched, note, job, accepted, edits>>
queueVars == <<note, job, accepted>>
alarmVars == <<device, stored, recent>>
adminVars == <<policy, maint, touched, edits>>

Kind == {"alarm", "recovery"}
Note == [event : Event, kind : Kind, to : Recipient]

Phase == {"smtp", "accepted", "error"}
Decision == {"pending", "failed", "cancelled"}
Idle == [phase |-> "idle"]
Job == [note : Note, attempt : 1..MaxAttempts, phase : Phase \cup Decision]

Final == {"sent", "failed", "cancelled"}
NoteRow == [status : {"none", "pending", "sending"} \cup Final,
            attempts : 0..MaxAttempts, expired : BOOLEAN]
NoNote == [status |-> "none", attempts |-> 0, expired |-> FALSE]

\* Alerts are never enabled without a recipient.
Policy == {p \in [enabled : BOOLEAN, recipients : SUBSET Recipient, recovery : BOOLEAN] :
             p.enabled => p.recipients # {}}

EmailTypeOK ==
  /\ device \in [Event -> {"none", "active", "over"}]
  /\ stored \in [Event -> {"none", "open", "ended"}]
  /\ recent \in SUBSET Event
  /\ policy \in Policy
  /\ maint \in BOOLEAN
  /\ touched \in [Event -> {"no", "during", "after"}]
  /\ note \in [Note -> NoteRow]
  /\ job \in [Worker -> {Idle} \cup Job]
  /\ accepted \in [Note -> Nat]
  /\ edits \in 0..MaxEdits

EmailInit ==
  /\ device = [e \in Event |-> "none"]
  /\ stored = [e \in Event |-> "none"]
  /\ recent = {}
  /\ policy \in Policy
  /\ maint = FALSE
  /\ touched = [e \in Event |-> "no"]
  /\ note = [n \in Note |-> NoNote]
  /\ job = [w \in Worker |-> Idle]
  /\ accepted = [n \in Note |-> 0]
  /\ edits = 0

--------------------------------------------------------------------------------
(* The device and the collector. *)

AlarmStarts(e) == /\ device[e] = "none"
                  /\ device' = [device EXCEPT ![e] = "active"]
                  /\ recent' = recent \cup {e}
                  /\ touched' = [touched EXCEPT ![e] = IF maint THEN "during" ELSE "no"]
                  /\ UNCHANGED <<stored, policy, maint, queueVars, edits>>

AlarmEnds(e) == /\ device[e] = "active"
                /\ device' = [device EXCEPT ![e] = "over"]
                /\ UNCHANGED <<stored, recent, adminVars, queueVars>>

--------------------------------------------------------------------------------
(* The cloud's alarm ingestion. *)

\* device_email_suppressed: now in maintenance, or a period overlaps the event
\* as stored; a stored event without an end lasts for ever.
SuppressedAs(e, s) == \/ maint
                      \/ touched[e] = "during"
                      \/ touched[e] = "after" /\ s = "open"

Suppressed(e) == SuppressedAs(e, stored[e])

\* Mutant: the notification follows the request instead of the stored event.
EnqueueIncoming(e, incoming, kept) ==
  IF SuppressedAs(e, kept) \/ ~policy.enabled \/ e \notin recent
  THEN UNCHANGED note
  ELSE note' = [n \in Note |->
    IF /\ n.event = e
       /\ n.kind = (IF incoming = "ended" THEN "recovery" ELSE "alarm")
       /\ n.kind = "recovery" => policy.recovery
       /\ n.to \in policy.recipients
       /\ note[n].status = "none"
    THEN [note[n] EXCEPT !.status = "pending"]
    ELSE note[n]]

\* enqueue_alarm: one notification per recipient, of the kind the stored event
\* calls for, unless there was one; a recovery cancels queued alarm notices.
Enqueue(e, incoming, kept) ==
  IF SuppressedAs(e, kept) \/ ~policy.enabled \/ e \notin recent
  THEN UNCHANGED note
  ELSE note' = [n \in Note |->
    IF n.event = e /\ n.kind = "alarm" /\ kept = "ended" /\ note[n].status = "pending"
    THEN [note[n] EXCEPT !.status = "cancelled"]
    ELSE IF /\ n.event = e
            /\ n.kind = (IF kept = "ended" THEN "recovery" ELSE "alarm")
            /\ n.kind = "recovery" => policy.recovery
            /\ n.to \in policy.recipients
            /\ note[n].status = "none"
    THEN [note[n] EXCEPT !.status = "pending"]
    ELSE note[n]]

\* ingest_alarms: a snapshot of the event arrives, perhaps one taken long ago.
IngestAlarm(e, incoming) ==
  /\ device[e] # "none"
  /\ incoming = "ended" => device[e] = "over"
  /\ LET kept == IF stored[e] = "ended" THEN "ended" ELSE incoming
     IN  /\ stored' = [stored EXCEPT ![e] = kept]
         /\ Enqueue(e, incoming, kept)
  /\ UNCHANGED <<device, recent, adminVars, job, accepted>>

--------------------------------------------------------------------------------
(* Workers. *)

\* The checks made before a notification is sent, and before it is retried.
Unwanted(n) == \/ n.to \notin policy.recipients
               \/ ~policy.enabled
               \/ n.kind = "recovery" /\ ~policy.recovery
               \/ n.kind = "alarm" /\ stored[n.event] # "open"
               \/ Suppressed(n.event)

\* Pending and due, or claimed under a lease that has expired.
Claimable(n) == \/ note[n].status = "pending"
                \/ note[n].status = "sending" /\ note[n].expired

\* The claim ends the notification: it is no longer wanted, or its attempts are
\* used up.  One that may be in a worker's hands is not called cancelled.
ClaimStops(n) ==
  /\ Claimable(n)
  /\ Unwanted(n) \/ note[n].attempts >= MaxAttempts
  /\ note' = [note EXCEPT
       ![n].status = IF Unwanted(n) /\ note[n].status = "pending" THEN "cancelled" ELSE "failed",
       ![n].expired = FALSE]
  /\ UNCHANGED <<alarmVars, adminVars, job, accepted>>

\* Mutant: an attempt is counted only when its worker reports a result.
ClaimUncounted(w, n) ==
  /\ Claimable(n)
  /\ ~Unwanted(n)
  /\ note[n].attempts < MaxAttempts
  /\ job[w] = Idle
  /\ note' = [note EXCEPT ![n] = [@ EXCEPT !.status = "sending", !.expired = FALSE]]
  /\ job' = [job EXCEPT ![w] =
               [note |-> n, attempt |-> note[n].attempts + 1, phase |-> "smtp"]]
  /\ UNCHANGED <<alarmVars, adminVars, accepted>>

Claim(w, n) ==
  /\ Claimable(n)
  /\ ~Unwanted(n)
  /\ note[n].attempts < MaxAttempts
  /\ job[w] = Idle
  /\ note' = [note EXCEPT ![n] =
                [status |-> "sending", attempts |-> @.attempts + 1, expired |-> FALSE]]
  /\ job' = [job EXCEPT ![w] =
               [note |-> n, attempt |-> note[n].attempts + 1, phase |-> "smtp"]]
  /\ UNCHANGED <<alarmVars, adminVars, accepted>>

\* The mail server accepts the message; its answer may be lost.
MailAccepted(w, phase) ==
  /\ job[w].phase = "smtp"
  /\ phase \in {"accepted", "error"}
  /\ accepted' = [accepted EXCEPT ![job[w].note] = @ + 1]
  /\ job' = [job EXCEPT ![w].phase = phase]
  /\ UNCHANGED <<alarmVars, adminVars, note>>

MailRefused(w) == /\ job[w].phase = "smtp"
                  /\ job' = [job EXCEPT ![w].phase = "error"]
                  /\ UNCHANGED <<alarmVars, adminVars, note, accepted>>

\* After an error the policy and the event are read, under a share lock on the
\* settings, and the notification's next status is decided.
Decide(w) ==
  /\ job[w].phase = "error"
  /\ job' = [job EXCEPT ![w].phase =
               IF Unwanted(job[w].note) THEN "cancelled"
               ELSE IF job[w].attempt >= MaxAttempts THEN "failed" ELSE "pending"]
  /\ UNCHANGED <<alarmVars, adminVars, note, accepted>>

Outcome(w) == IF job[w].phase = "accepted" THEN "sent" ELSE job[w].phase

\* Mutant: the update's WHERE has lost the status and the claim token.
OwnsAnyway(w) == TRUE

\* WHERE status = 'sending' AND claim_token = the worker's
Owns(w) == LET n == job[w].note
           IN  note[n].status = "sending" /\ note[n].attempts = job[w].attempt

\* The result is written, unless the claim has passed to another worker.
Finish(w) ==
  /\ job[w].phase \in Decision \cup {"accepted"}
  /\ note' = IF Owns(w)
             THEN [note EXCEPT ![job[w].note].status = Outcome(w),
                               ![job[w].note].expired = FALSE]
             ELSE note
  /\ job' = [job EXCEPT ![w] = Idle]
  /\ UNCHANGED <<alarmVars, adminVars, accepted>>

\* The worker dies, or loses its database connection.
Crash(w) == /\ job[w] # Idle
            /\ job' = [job EXCEPT ![w] = Idle]
            /\ UNCHANGED <<alarmVars, adminVars, note, accepted>>

LeaseExpires(n) == /\ note[n].status = "sending"
                   /\ ~note[n].expired
                   /\ note' = [note EXCEPT ![n].expired = TRUE]
                   /\ UNCHANGED <<alarmVars, adminVars, job, accepted>>

--------------------------------------------------------------------------------
(* The customer's administrator. *)

\* save_settings waits for the share locks of workers that are deciding.
SaveSettings(new) ==
  /\ \A w \in Worker : job[w].phase \notin Decision
  /\ policy' = new
  /\ recent' = IF new.enabled /\ ~policy.enabled THEN {} ELSE recent
  /\ note' = [n \in Note |->
       IF /\ note[n].status = "pending"
          /\ \/ n.to \notin new.recipients
             \/ ~new.enabled
             \/ n.kind = "recovery" /\ ~new.recovery
       THEN [note[n] EXCEPT !.status = "cancelled"]
       ELSE note[n]]
  /\ UNCHANGED <<device, stored, maint, touched, job, accepted>>

StartMaintenance ==
  /\ ~maint
  /\ maint' = TRUE
  /\ touched' = [e \in Event |-> CASE device[e] = "active" -> "during"
                                   [] device[e] = "over" /\ touched[e] = "no" -> "after"
                                   [] OTHER -> touched[e]]
  /\ note' = [n \in Note |-> IF note[n].status = "pending"
                             THEN [note[n] EXCEPT !.status = "cancelled"]
                             ELSE note[n]]
  /\ UNCHANGED <<alarmVars, policy, job, accepted>>

EndMaintenance == /\ maint
                  /\ maint' = FALSE
                  /\ UNCHANGED <<alarmVars, policy, touched, queueVars>>

--------------------------------------------------------------------------------
WorkerStep(w) == \/ \E n \in Note : Claim(w, n)
                 \/ \E phase \in {"accepted", "error"} : MailAccepted(w, phase)
                 \/ MailRefused(w)
                 \/ Decide(w)
                 \/ Finish(w)

AlarmStep(e) == \/ AlarmStarts(e)
                \/ AlarmEnds(e)
                \/ \E incoming \in {"open", "ended"} : IngestAlarm(e, incoming)

AdminStep == /\ edits < MaxEdits
             /\ edits' = edits + 1
             /\ \/ \E new \in Policy : SaveSettings(new)
                \/ StartMaintenance
                \/ EndMaintenance

EmailNext == \/ \E e \in Event : AlarmStep(e)
             \/ \E n \in Note : ClaimStops(n) \/ LeaseExpires(n)
             \/ \E w \in Worker : WorkerStep(w) \/ Crash(w)
             \/ AdminStep

EmailSpec == EmailInit /\ [][EmailNext]_emailVars

(***************************************************************************)
(* Workers poll for ever, an SMTP session ends (its sockets have timeouts) *)
(* and time passes, so retries fall due and leases expire.  Nothing is     *)
(* assumed of crashes: they may never stop.                                *)
(***************************************************************************)
EmailFairness ==
  /\ \A n \in Note : /\ WF_emailVars(LeaseExpires(n))
                     /\ SF_emailVars(ClaimStops(n) \/ \E w \in Worker : Claim(w, n))
  /\ \A w \in Worker : WF_emailVars(WorkerStep(w))

FairEmailSpec == EmailSpec /\ EmailFairness

--------------------------------------------------------------------------------
(* Properties. *)

(***************************************************************************)
(* Every acceptance by the mail server is covered by an attempt: a message *)
(* is delivered at most MaxAttempts times, however often workers crash     *)
(* (README: attempts count at claim time, including attempts interrupted   *)
(* by a crash).                                                            *)
(***************************************************************************)
AttemptsCoverSends == \A n \in Note : accepted[n] <= note[n].attempts

(***************************************************************************)
(* A final status never changes: a worker that lost its lease cannot       *)
(* overwrite the new owner's result, and a cancelled or delivered notice   *)
(* is never queued again (README: a stale worker cannot overwrite the new  *)
(* owner's result).                                                        *)
(***************************************************************************)
FinalIsFinal ==
  [][\A n \in Note : note[n].status \in Final => note'[n].status = note[n].status]_emailVars

(***************************************************************************)
(* Once the cloud knows that an alarm is over, no notice of it as a live   *)
(* alarm is ever created, even when an older request arrives late (README: *)
(* an event first uploaded after recovery is labelled as a recovery).      *)
(***************************************************************************)
NoAlarmAfterRecovery ==
  [][\A n \in Note :
       /\ n.kind = "alarm"
       /\ stored[n.event] = "ended"
       /\ note[n].status = "none"
       => note'[n].status = "none"]_emailVars

(***************************************************************************)
(* The refinement: a row that is claimed is still queued to the recipient, *)
(* and neither claims nor leases exist.                                    *)
(***************************************************************************)
StandingOf(r) == IF r.status \in {"pending", "sending"} THEN "queued" ELSE r.status

LedgerView == [n \in Note |-> StandingOf(note[n])]
TriesView == [n \in Note |-> note[n].attempts]

Ledger == INSTANCE NoticeLedger WITH Notice <- Note, Limit <- MaxAttempts,
            standing <- LedgerView, tries <- TriesView, copies <- accepted

\* Workers that crash, lose their leases or answer late, and cancellations in
\* between, keep what NoticeLedger promises of every notice: only a worker whose
\* claim is still the last one may settle it, and not before its message went out.
ImplementsNoticeLedger == Ledger!Spec

(***************************************************************************)
(* Every queued notification is eventually sent, failed or cancelled, even *)
(* when workers keep crashing (README: rather than retrying forever).      *)
(***************************************************************************)
EveryNoticeSettles ==
  \A n \in Note : note[n].status \in {"pending", "sending"} ~> note[n].status \in Final

================================================================================
