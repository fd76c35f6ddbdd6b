---------------------------- MODULE EmailQueueProofs ---------------------------
(***************************************************************************)
(* Proofs about the email queue, for any alarms, recipients, workers and   *)
(* limit of attempts: how often a message can be delivered, and which      *)
(* changes of a notification cannot happen.                                *)
(***************************************************************************)
EXTENDS EmailQueue, FiniteSetTheorems, TLAPS

\* Workers that are talking to the mail server about n: each may still have one
\* message accepted.
Sending(n) == {w \in Worker : job[w].phase = "smtp" /\ job[w].note = n}

\* Every claim counts an attempt before its message can be accepted.
BudgetInv == \A n \in Note : accepted[n] + Cardinality(Sending(n)) <= note[n].attempts

EmailInv == EmailTypeOK /\ BudgetInv

\* How the notifications may change in one step.
Steady == \A n \in Note :
            /\ note[n].status \in Final => note'[n].status = note[n].status
            /\ n.kind = "alarm" /\ stored[n.event] = "ended" /\ note[n].status = "none"
                 => note'[n].status = "none"

USE DEF queueVars, alarmVars, adminVars

--------------------------------------------------------------------------------
(* Rows, jobs and their numbers.                                            *)

LEMMA StatusSet ==
  ASSUME NEW r \in NoteRow, NEW st \in {"none", "pending", "sending"} \cup Final
  PROVE  /\ [r EXCEPT !.status = st] \in NoteRow
         /\ [r EXCEPT !.status = st].status = st
         /\ [r EXCEPT !.status = st].attempts = r.attempts
         /\ [r EXCEPT !.status = st, !.expired = FALSE] \in NoteRow
         /\ [r EXCEPT !.status = st, !.expired = FALSE].status = st
         /\ [r EXCEPT !.status = st, !.expired = FALSE].attempts = r.attempts
         /\ [r EXCEPT !.expired = TRUE] \in NoteRow
         /\ [r EXCEPT !.expired = TRUE].status = r.status
         /\ [r EXCEPT !.expired = TRUE].attempts = r.attempts
BY DEF NoteRow

LEMMA SendingIsFinite ==
  \A n : IsFiniteSet(Sending(n)) /\ Cardinality(Sending(n)) \in Nat
<1>. TAKE n
<1>1. Sending(n) \subseteq Worker
  BY DEF Sending
<1>2. IsFiniteSet(Sending(n))
  BY <1>1, FS_Subset, EmailAssumption
<1>. QED  BY <1>2, FS_CardinalityType

LEMMA BudgetNumbers ==
  ASSUME EmailTypeOK, NEW n \in Note
  PROVE  /\ accepted[n] \in Nat /\ note[n] \in NoteRow
         /\ note[n].attempts \in Nat /\ note[n].attempts <= MaxAttempts /\ MaxAttempts \in Nat
         /\ Cardinality(Sending(n)) \in Nat
<1>1. note[n] \in NoteRow /\ accepted[n] \in Nat
  BY DEF EmailTypeOK
<1>2. note[n].attempts \in 0..MaxAttempts
  BY <1>1 DEF NoteRow
<1>. QED  BY <1>1, <1>2, SendingIsFinite, EmailAssumption

\* The budget only depends on who is sending what.
LEMMA EmailInitInv == EmailInit => EmailInv
<1>. SUFFICES ASSUME EmailInit PROVE EmailInv
  OBVIOUS
<1>. USE DEF EmailInit
<1>1. EmailTypeOK
  <2>1. note \in [Note -> NoteRow]
    BY EmailAssumption DEF NoNote, NoteRow
  <2>2. job \in [Worker -> {Idle} \cup Job] /\ accepted \in [Note -> Nat]
    OBVIOUS
  <2>3. /\ device \in [Event -> {"none", "active", "over"}]
        /\ stored \in [Event -> {"none", "open", "ended"}]
        /\ touched \in [Event -> {"no", "during", "after"}]
    OBVIOUS
  <2>4. edits \in 0..MaxEdits
    BY EmailAssumption
  <2>. QED  BY <2>1, <2>2, <2>3, <2>4 DEF EmailTypeOK
<1>2. ASSUME NEW n \in Note
      PROVE  accepted[n] + Cardinality(Sending(n)) <= note[n].attempts
  <2>1. Sending(n) = {}
    BY DEF Sending, Idle
  <2>. QED  BY <2>1, FS_EmptySet DEF NoNote
<1>. QED  BY <1>1, <1>2 DEF EmailInv, BudgetInv

\* A step that is not a worker's: no job changes, no attempt is counted.
LEMMA QuietKeepsInv ==
  ASSUME EmailInv, UNCHANGED <<job, accepted>>,
         device' \in [Event -> {"none", "active", "over"}],
         stored' \in [Event -> {"none", "open", "ended"}],
         recent' \in SUBSET Event, policy' \in Policy, maint' \in BOOLEAN,
         touched' \in [Event -> {"no", "during", "after"}],
         edits' \in 0..MaxEdits, note' \in [Note -> NoteRow],
         \A n \in Note : note'[n].attempts = note[n].attempts
  PROVE  EmailInv'
<1>1. EmailTypeOK'
  BY DEF EmailInv, EmailTypeOK
<1>2. \A n : Sending(n)' = Sending(n)
  BY DEF Sending
<1>3. BudgetInv'
  BY <1>2 DEF EmailInv, BudgetInv
<1>. QED  BY <1>1, <1>3 DEF EmailInv

--------------------------------------------------------------------------------
(* The device and the cloud's ingestion.                                    *)

LEMMA DeviceKeepsInv ==
  ASSUME EmailInv, NEW e \in Event, AlarmStarts(e) \/ AlarmEnds(e)
  PROVE  EmailInv' /\ Steady
<1>1. /\ UNCHANGED <<stored, policy, maint, note, job, accepted, edits>>
      /\ device' \in [Event -> {"none", "active", "over"}]
      /\ recent' \in SUBSET Event
      /\ touched' \in [Event -> {"no", "during", "after"}]
  BY DEF AlarmStarts, AlarmEnds, EmailInv, EmailTypeOK
<1>2. /\ stored' \in [Event -> {"none", "open", "ended"}] /\ policy' \in Policy
      /\ maint' \in BOOLEAN /\ edits' \in 0..MaxEdits /\ note' \in [Note -> NoteRow]
  BY <1>1 DEF EmailInv, EmailTypeOK
<1>3. EmailInv'
  BY <1>1, <1>2, QuietKeepsInv
<1>. QED  BY <1>1, <1>3 DEF Steady

LEMMA EnqueueShape ==
  ASSUME EmailTypeOK, NEW e, NEW incoming, NEW kept, Enqueue(e, incoming, kept)
  PROVE  /\ note' \in [Note -> NoteRow]
         /\ \A n \in Note :
              /\ note'[n].attempts = note[n].attempts
              /\ \/ note'[n] = note[n]
                 \/ note[n].status = "pending" /\ note'[n].status = "cancelled"
                 \/ /\ note[n].status = "none" /\ note'[n].status = "pending"
                    /\ n.event = e
                    /\ n.kind = IF kept = "ended" THEN "recovery" ELSE "alarm"
<1>1. CASE UNCHANGED note
  BY <1>1 DEF EmailTypeOK
<1>2. CASE ~UNCHANGED note
  <2>. DEFINE Ends(n) == /\ n.event = e /\ n.kind = "alarm" /\ kept = "ended"
                         /\ note[n].status = "pending"
              Starts(n) == /\ n.event = e
                           /\ n.kind = (IF kept = "ended" THEN "recovery" ELSE "alarm")
                           /\ n.kind = "recovery" => policy.recovery
                           /\ n.to \in policy.recipients
                           /\ note[n].status = "none"
  <2>1. note' = [n \in Note |-> IF Ends(n) THEN [note[n] EXCEPT !.status = "cancelled"]
                                ELSE IF Starts(n) THEN [note[n] EXCEPT !.status = "pending"]
                                ELSE note[n]]
    BY <1>2 DEF Enqueue
  <2>2. ASSUME NEW n \in Note
        PROVE  /\ note'[n] \in NoteRow /\ note'[n].attempts = note[n].attempts
               /\ \/ note'[n] = note[n]
                  \/ note[n].status = "pending" /\ note'[n].status = "cancelled"
                  \/ /\ note[n].status = "none" /\ note'[n].status = "pending"
                     /\ n.event = e
                     /\ n.kind = IF kept = "ended" THEN "recovery" ELSE "alarm"
    <3>1. note[n] \in NoteRow
      BY DEF EmailTypeOK
    <3>2. CASE Ends(n)
      BY <2>1, <3>1, <3>2, StatusSet DEF Final
    <3>3. CASE ~Ends(n) /\ Starts(n)
      <4>1. note'[n] = [note[n] EXCEPT !.status = "pending"]
        BY <2>1, <3>3
      <4>2. /\ note'[n] \in NoteRow /\ note'[n].attempts = note[n].attempts
            /\ note'[n].status = "pending"
        BY ONLY <3>1, <4>1 DEF NoteRow
      <4>3. /\ note[n].status = "none" /\ n.event = e
            /\ n.kind = IF kept = "ended" THEN "recovery" ELSE "alarm"
        BY <3>3
      <4>. QED  BY <4>2, <4>3
    <3>4. CASE ~Ends(n) /\ ~Starts(n)
      BY <2>1, <3>1, <3>4
    <3>. QED  BY <3>2, <3>3, <3>4
  <2>. QED  BY <2>1, <2>2
<1>. QED  BY <1>1, <1>2

LEMMA IngestKeepsInv ==
  ASSUME EmailInv, NEW e \in Event, NEW incoming \in {"open", "ended"},
         IngestAlarm(e, incoming)
  PROVE  EmailInv' /\ Steady
<1>. DEFINE kept == IF stored[e] = "ended" THEN "ended" ELSE incoming
<1>1. /\ stored' = [stored EXCEPT ![e] = kept] /\ Enqueue(e, incoming, kept)
      /\ UNCHANGED <<device, recent, policy, maint, touched, edits, job, accepted>>
  BY DEF IngestAlarm
<1>2. stored' \in [Event -> {"none", "open", "ended"}]
  BY <1>1 DEF EmailInv, EmailTypeOK
<1>3. stored[e] = "ended" => kept = "ended"
  OBVIOUS
<1>. HIDE DEF kept
<1>4. /\ note' \in [Note -> NoteRow]
      /\ \A n \in Note :
           /\ note'[n].attempts = note[n].attempts
           /\ \/ note'[n] = note[n]
              \/ note[n].status = "pending" /\ note'[n].status = "cancelled"
              \/ /\ note[n].status = "none" /\ n.event = e
                 /\ n.kind = IF kept = "ended" THEN "recovery" ELSE "alarm"
  BY <1>1, EnqueueShape DEF EmailInv
<1>5. EmailInv'
  <2>1. /\ device' \in [Event -> {"none", "active", "over"}] /\ recent' \in SUBSET Event
        /\ policy' \in Policy /\ maint' \in BOOLEAN /\ edits' \in 0..MaxEdits
        /\ touched' \in [Event -> {"no", "during", "after"}]
    BY <1>1 DEF EmailInv, EmailTypeOK
  <2>. QED  BY <1>1, <1>2, <1>4, <2>1, QuietKeepsInv
<1>6. Steady
  BY <1>3, <1>4 DEF Steady, Final
<1>. QED  BY <1>5, <1>6

--------------------------------------------------------------------------------
(* The workers.                                                             *)

\* The state outside the queue is left alone.
LEMMA OutsideKept ==
  ASSUME EmailTypeOK, UNCHANGED <<alarmVars, adminVars>>
  PROVE  /\ device' \in [Event -> {"none", "active", "over"}]
         /\ stored' \in [Event -> {"none", "open", "ended"}]
         /\ recent' \in SUBSET Event /\ policy' \in Policy /\ maint' \in BOOLEAN
         /\ touched' \in [Event -> {"no", "during", "after"}]
         /\ edits' \in 0..MaxEdits
BY DEF EmailTypeOK

LEMMA RowKeepsInv ==
  ASSUME EmailInv, NEW n \in Note, ClaimStops(n) \/ LeaseExpires(n)
  PROVE  EmailInv' /\ Steady
<1>1. note[n] \in NoteRow
  BY DEF EmailInv, EmailTypeOK
<1>2. /\ UNCHANGED <<alarmVars, adminVars, job, accepted>>
      /\ note[n].status \in {"pending", "sending"}
      /\ \E r \in NoteRow : /\ note' = [note EXCEPT ![n] = r]
                            /\ r.attempts = note[n].attempts
  <2>1. CASE ClaimStops(n)
    <3>. DEFINE st == IF Unwanted(n) /\ note[n].status = "pending" THEN "cancelled"
                      ELSE "failed"
    <3>1. note' = [note EXCEPT ![n] = [note[n] EXCEPT !.status = st, !.expired = FALSE]]
      BY <2>1 DEF ClaimStops
    <3>2. st \in {"none", "pending", "sending"} \cup Final
      BY DEF Final
    <3>. HIDE DEF st
    <3>3. /\ [note[n] EXCEPT !.status = st, !.expired = FALSE] \in NoteRow
          /\ [note[n] EXCEPT !.status = st, !.expired = FALSE].attempts = note[n].attempts
      BY <1>1, <3>2, StatusSet
    <3>4. /\ UNCHANGED <<alarmVars, adminVars, job, accepted>>
          /\ note[n].status \in {"pending", "sending"}
      BY <2>1 DEF ClaimStops, Claimable
    <3>. QED  BY <3>1, <3>3, <3>4
  <2>2. CASE LeaseExpires(n)
    <3>1. note' = [note EXCEPT ![n] = [note[n] EXCEPT !.expired = TRUE]]
      BY <2>2 DEF LeaseExpires
    <3>2. /\ [note[n] EXCEPT !.expired = TRUE] \in NoteRow
          /\ [note[n] EXCEPT !.expired = TRUE].attempts = note[n].attempts
      BY <1>1 DEF NoteRow
    <3>. QED  BY <2>2, <3>1, <3>2 DEF LeaseExpires
  <2>. QED  BY <2>1, <2>2
<1>3. /\ note' \in [Note -> NoteRow]
      /\ \A k \in Note : note'[k].attempts = note[k].attempts
      /\ \A k \in Note \ {n} : note'[k] = note[k]
  BY <1>2 DEF EmailInv, EmailTypeOK
<1>4. EmailInv'
  <2>1. /\ device' \in [Event -> {"none", "active", "over"}]
        /\ stored' \in [Event -> {"none", "open", "ended"}]
        /\ recent' \in SUBSET Event /\ policy' \in Policy /\ maint' \in BOOLEAN
        /\ touched' \in [Event -> {"no", "during", "after"}]
        /\ edits' \in 0..MaxEdits
    BY <1>2, OutsideKept DEF EmailInv
  <2>. QED  BY <1>2, <1>3, <2>1, QuietKeepsInv
<1>5. Steady
  BY <1>2, <1>3 DEF Steady, Final
<1>. QED  BY <1>4, <1>5

\* One more attempt and one more worker that is sending.
LEMMA ClaimKeepsInv ==
  ASSUME EmailInv, NEW w \in Worker, NEW n \in Note, Claim(w, n)
  PROVE  EmailInv' /\ Steady
<1>. DEFINE row == [status |-> "sending", attempts |-> note[n].attempts + 1, expired |-> FALSE]
            new == [note |-> n, attempt |-> note[n].attempts + 1, phase |-> "smtp"]
<1>1. /\ note[n].status \in {"pending", "sending"} /\ note[n].attempts < MaxAttempts
      /\ job[w] = Idle
      /\ note' = [note EXCEPT ![n] = row] /\ job' = [job EXCEPT ![w] = new]
      /\ UNCHANGED <<alarmVars, adminVars, accepted>>
  BY DEF Claim, Claimable
<1>2. note[n].attempts \in Nat /\ MaxAttempts \in Nat
  BY BudgetNumbers DEF EmailInv
<1>3. row \in NoteRow /\ row.attempts = note[n].attempts + 1
  BY <1>1, <1>2 DEF NoteRow
<1>4. new \in Job /\ new.note = n /\ new.phase = "smtp"
  <2>1. note[n].attempts + 1 \in 1..MaxAttempts
    BY <1>1, <1>2
  <2>. QED  BY <2>1 DEF Job, Phase
<1>. HIDE DEF row, new
<1>5. EmailTypeOK'
  <2>1. note' \in [Note -> NoteRow] /\ job' \in [Worker -> {Idle} \cup Job]
          /\ accepted' \in [Note -> Nat]
    BY <1>1, <1>3, <1>4 DEF EmailInv, EmailTypeOK
  <2>. QED  BY <1>1, <2>1, OutsideKept DEF EmailInv, EmailTypeOK
<1>6. /\ \A v \in Worker \ {w} : job'[v] = job[v]
      /\ job'[w] = new /\ job[w].phase # "smtp"
  BY <1>1 DEF EmailInv, EmailTypeOK, Idle
<1>7. ASSUME NEW k \in Note
      PROVE  accepted'[k] + Cardinality(Sending(k)') <= note'[k].attempts
  <2>1. /\ accepted[k] \in Nat /\ note[k].attempts \in Nat /\ Cardinality(Sending(k)) \in Nat
        /\ accepted[k] + Cardinality(Sending(k)) <= note[k].attempts
        /\ accepted'[k] = accepted[k]
    BY <1>1, BudgetNumbers DEF EmailInv, BudgetInv
  <2>2. CASE k = n
    <3>1. w \notin Sending(n) /\ Sending(n)' = Sending(n) \cup {w}
      BY <1>4, <1>6 DEF Sending
    <3>2. Cardinality(Sending(n)') = Cardinality(Sending(n)) + 1
      BY <3>1, SendingIsFinite, FS_AddElement
    <3>3. note'[n].attempts = note[n].attempts + 1
      BY <1>1, <1>3 DEF EmailInv, EmailTypeOK
    <3>. QED  BY <2>1, <2>2, <3>2, <3>3
  <2>3. CASE k # n
    <3>1. Sending(k)' = Sending(k)
      BY <1>4, <1>6, <2>3 DEF Sending
    <3>2. note'[k] = note[k]
      BY <1>1, <2>3 DEF EmailInv, EmailTypeOK
    <3>. QED  BY <2>1, <3>1, <3>2
  <2>. QED  BY <2>2, <2>3
<1>8. Steady
  <2>1. \A k \in Note \ {n} : note'[k] = note[k]
    BY <1>1 DEF EmailInv, EmailTypeOK
  <2>. QED  BY <1>1, <2>1 DEF Steady, Final
<1>. QED  BY <1>5, <1>7, <1>8 DEF EmailInv, BudgetInv

\* A worker goes on with its job or drops it; what it had accepted, if anything,
\* it was still sending.
LEMMA JobKeepsInv ==
  ASSUME EmailInv, NEW w \in Worker, NEW new \in {Idle} \cup Job,
         job[w] \in Job, job' = [job EXCEPT ![w] = new], new.phase # "smtp",
         UNCHANGED <<alarmVars, adminVars, note>>,
         \/ UNCHANGED accepted
         \/ /\ job[w].phase = "smtp"
            /\ accepted' = [accepted EXCEPT ![job[w].note] = accepted[job[w].note] + 1]
  PROVE  EmailInv' /\ Steady
<1>. DEFINE n == job[w].note
<1>1. n \in Note
  BY DEF Job
<1>2. EmailTypeOK'
  <2>1. accepted' \in [Note -> Nat]
    BY <1>1, BudgetNumbers DEF EmailInv, EmailTypeOK
  <2>2. note' \in [Note -> NoteRow] /\ job' \in [Worker -> {Idle} \cup Job]
    BY DEF EmailInv, EmailTypeOK
  <2>. QED  BY <2>1, <2>2, OutsideKept DEF EmailInv, EmailTypeOK
<1>3. job'[w] = new /\ \A v \in Worker \ {w} : job'[v] = job[v]
  BY DEF EmailInv, EmailTypeOK
<1>4. ASSUME NEW k \in Note
      PROVE  accepted'[k] + Cardinality(Sending(k)') <= note'[k].attempts
  <2>1. /\ accepted[k] \in Nat /\ note[k].attempts \in Nat /\ Cardinality(Sending(k)) \in Nat
        /\ accepted[k] + Cardinality(Sending(k)) <= note[k].attempts
        /\ note'[k] = note[k]
    BY BudgetNumbers DEF EmailInv, BudgetInv
  <2>2. Sending(k)' = Sending(k) \ {w}
    BY <1>3 DEF Sending
  <2>3. CASE w \in Sending(k)
    <3>1. Cardinality(Sending(k)') = Cardinality(Sending(k)) - 1
      <4>1. IsFiniteSet(Sending(k))
        BY SendingIsFinite
      <4>2. Cardinality(Sending(k) \ {w}) = Cardinality(Sending(k)) - 1
        BY ONLY <2>3, <4>1, FS_RemoveElement
      <4>. QED  BY <2>2, <4>2
    <3>2. accepted'[k] <= accepted[k] + 1
      BY <1>1, <2>1 DEF EmailInv, EmailTypeOK
    <3>3. accepted'[k] \in Nat
      BY <1>2 DEF EmailTypeOK
    <3>. QED  BY <2>1, <3>1, <3>2, <3>3
  <2>4. CASE w \notin Sending(k)
    <3>1. Sending(k)' = Sending(k)
      BY <2>2, <2>4
    <3>2. accepted'[k] = accepted[k]
      BY <1>1, <2>4 DEF EmailInv, EmailTypeOK, Sending
    <3>. QED  BY <2>1, <3>1, <3>2
  <2>. QED  BY <2>3, <2>4
<1>5. Steady
  BY DEF Steady
<1>. QED  BY <1>2, <1>4, <1>5 DEF EmailInv, BudgetInv

LEMMA WorkKeepsInv ==
  ASSUME EmailInv, NEW w \in Worker,
         \/ \E phase \in {"accepted", "error"} : MailAccepted(w, phase)
         \/ MailRefused(w) \/ Decide(w) \/ Crash(w)
  PROVE  EmailInv' /\ Steady
<1>1. job[w] \in Job
  BY DEF MailAccepted, MailRefused, Decide, Crash, Idle, EmailInv, EmailTypeOK
<1>2. ASSUME NEW ph \in {"accepted", "error"} \cup Decision
      PROVE  [job[w] EXCEPT !.phase = ph] \in Job /\ [job[w] EXCEPT !.phase = ph].phase # "smtp"
  BY <1>1 DEF Job, Phase, Decision
<1>3. CASE Crash(w)
  <2>1. Idle \in {Idle} \cup Job /\ Idle.phase # "smtp"
    BY DEF Idle
  <2>2. job' = [job EXCEPT ![w] = Idle] /\ UNCHANGED <<alarmVars, adminVars, note, accepted>>
    BY <1>3 DEF Crash
  <2>. QED  BY <1>1, <2>1, <2>2, JobKeepsInv
<1>4. CASE MailRefused(w)
  <2>1. /\ job' = [job EXCEPT ![w] = [job[w] EXCEPT !.phase = "error"]]
        /\ UNCHANGED <<alarmVars, adminVars, note, accepted>>
    BY <1>4 DEF MailRefused
  <2>. QED  BY <1>1, <1>2, <2>1, JobKeepsInv
<1>5. CASE Decide(w)
  <2>. DEFINE ph == IF Unwanted(job[w].note) THEN "cancelled"
                    ELSE IF job[w].attempt >= MaxAttempts THEN "failed" ELSE "pending"
  <2>1. /\ job' = [job EXCEPT ![w] = [job[w] EXCEPT !.phase = ph]]
        /\ UNCHANGED <<alarmVars, adminVars, note, accepted>>
    BY <1>5 DEF Decide
  <2>2. ph \in Decision
    BY DEF Decision
  <2>. HIDE DEF ph
  <2>. QED  BY <1>1, <1>2, <2>1, <2>2, JobKeepsInv
<1>6. ASSUME NEW phase \in {"accepted", "error"}, MailAccepted(w, phase)
      PROVE  EmailInv' /\ Steady
  <2>1. /\ job[w].phase = "smtp"
        /\ job' = [job EXCEPT ![w] = [job[w] EXCEPT !.phase = phase]]
        /\ accepted' = [accepted EXCEPT ![job[w].note] = accepted[job[w].note] + 1]
        /\ UNCHANGED <<alarmVars, adminVars, note>>
    BY <1>6 DEF MailAccepted
  <2>. QED  BY <1>1, <1>2, <2>1, JobKeepsInv
<1>. QED  BY <1>3, <1>4, <1>5, <1>6

\* A result is written to a row that is being sent, never to a settled one.
LEMMA FinishKeepsInv ==
  ASSUME EmailInv, NEW w \in Worker, Finish(w)
  PROVE  EmailInv' /\ Steady
<1>. DEFINE n == job[w].note
<1>1. /\ job[w].phase \in Decision \cup {"accepted"}
      /\ job' = [job EXCEPT ![w] = Idle]
      /\ UNCHANGED <<alarmVars, adminVars, accepted>>
  BY DEF Finish
<1>2. n \in Note /\ note[n] \in NoteRow
  BY <1>1 DEF Decision, Idle, Job, EmailInv, EmailTypeOK
<1>3. /\ note' \in [Note -> NoteRow]
      /\ \A k \in Note : /\ note'[k].attempts = note[k].attempts
                         /\ note'[k] = note[k] \/ note[k].status = "sending"
  <2>1. CASE Owns(w)
    <3>1. note' = [note EXCEPT ![n] = [note[n] EXCEPT !.status = Outcome(w), !.expired = FALSE]]
      BY <2>1 DEF Finish
    <3>2. Outcome(w) \in {"none", "pending", "sending"} \cup Final
      BY <1>1 DEF Outcome, Decision, Final
    <3>3. note[n].status = "sending"
      BY <2>1 DEF Owns
    <3>4. /\ [note[n] EXCEPT !.status = Outcome(w), !.expired = FALSE] \in NoteRow
          /\ [note[n] EXCEPT !.status = Outcome(w), !.expired = FALSE].attempts
               = note[n].attempts
      BY <1>2, <3>2, StatusSet
    <3>. QED  BY <1>2, <3>1, <3>3, <3>4 DEF EmailInv, EmailTypeOK
  <2>2. CASE ~Owns(w)
    BY <2>2 DEF Finish, EmailInv, EmailTypeOK
  <2>. QED  BY <2>1, <2>2
<1>4. EmailTypeOK'
  <2>1. job' \in [Worker -> {Idle} \cup Job] /\ accepted' \in [Note -> Nat]
    BY <1>1 DEF EmailInv, EmailTypeOK
  <2>. QED  BY <1>1, <1>3, <2>1, OutsideKept DEF EmailInv, EmailTypeOK
<1>5. ASSUME NEW k \in Note PROVE Sending(k)' = Sending(k)
  <2>1. job'[w].phase # "smtp" /\ job[w].phase # "smtp"
    BY <1>1 DEF Idle, Decision, EmailInv, EmailTypeOK
  <2>2. \A v \in Worker \ {w} : job'[v] = job[v]
    BY <1>1 DEF EmailInv, EmailTypeOK
  <2>. QED  BY <2>1, <2>2 DEF Sending
<1>6. BudgetInv'
  BY <1>1, <1>3, <1>5 DEF EmailInv, BudgetInv
<1>7. Steady
  BY <1>3 DEF Steady, Final
<1>. QED  BY <1>4, <1>6, <1>7 DEF EmailInv

--------------------------------------------------------------------------------
(* The administrator.                                                       *)

\* Queued notifications may be cancelled.
LEMMA CancelKeepsInv ==
  ASSUME EmailInv, UNCHANGED <<device, stored, job, accepted>>,
         recent' \in SUBSET Event, policy' \in Policy, maint' \in BOOLEAN,
         touched' \in [Event -> {"no", "during", "after"}], edits' \in 0..MaxEdits,
         NEW Some, Some \subseteq {n \in Note : note[n].status = "pending"},
         note' = [n \in Note |-> IF n \in Some THEN [note[n] EXCEPT !.status = "cancelled"]
                                 ELSE note[n]]
  PROVE  EmailInv' /\ Steady
<1>1. \A n \in Note : note[n] \in NoteRow
  BY DEF EmailInv, EmailTypeOK
<1>2. \A n \in Note : /\ note'[n] \in NoteRow /\ note'[n].attempts = note[n].attempts
                      /\ \/ note'[n] = note[n]
                         \/ note[n].status = "pending"
  BY <1>1, StatusSet DEF Final
<1>3. note' \in [Note -> NoteRow]
  BY <1>2
<1>4. EmailInv'
  <2>1. /\ device' \in [Event -> {"none", "active", "over"}]
        /\ stored' \in [Event -> {"none", "open", "ended"}]
    BY DEF EmailInv, EmailTypeOK
  <2>. QED  BY <1>2, <1>3, <2>1, QuietKeepsInv
<1>5. Steady
  BY <1>2 DEF Steady, Final
<1>. QED  BY <1>4, <1>5

LEMMA AdminKeepsInv ==
  ASSUME EmailInv, AdminStep
  PROVE  EmailInv' /\ Steady
<1>1. edits' \in 0..MaxEdits
  BY EmailAssumption DEF AdminStep, EmailInv, EmailTypeOK
<1>2. ASSUME NEW new \in Policy, SaveSettings(new)
      PROVE  EmailInv' /\ Steady
  <2>. DEFINE Some == {n \in Note : /\ note[n].status = "pending"
                                    /\ \/ n.to \notin new.recipients
                                       \/ ~new.enabled
                                       \/ n.kind = "recovery" /\ ~new.recovery}
  <2>1. /\ UNCHANGED <<device, stored, maint, touched, job, accepted>> /\ policy' = new
        /\ recent' \in {{}, recent}
        /\ note' = [n \in Note |-> IF n \in Some THEN [note[n] EXCEPT !.status = "cancelled"]
                                   ELSE note[n]]
    BY <1>2 DEF SaveSettings
  <2>2. /\ recent' \in SUBSET Event /\ policy' \in Policy /\ maint' \in BOOLEAN
        /\ touched' \in [Event -> {"no", "during", "after"}]
    BY <2>1 DEF EmailInv, EmailTypeOK
  <2>3. Some \subseteq {n \in Note : note[n].status = "pending"}
    OBVIOUS
  <2>. HIDE DEF Some
  <2>. QED  BY <1>1, <2>1, <2>2, <2>3, CancelKeepsInv
<1>3. CASE StartMaintenance
  <2>. DEFINE Some == {n \in Note : note[n].status = "pending"}
  <2>1. /\ UNCHANGED <<device, stored, recent, policy, job, accepted>> /\ maint' = TRUE
        /\ note' = [n \in Note |-> IF n \in Some THEN [note[n] EXCEPT !.status = "cancelled"]
                                   ELSE note[n]]
    BY <1>3 DEF StartMaintenance
  <2>2. touched' \in [Event -> {"no", "during", "after"}]
    BY <1>3 DEF StartMaintenance, EmailInv, EmailTypeOK
  <2>3. /\ recent' \in SUBSET Event /\ policy' \in Policy /\ maint' \in BOOLEAN
    BY <2>1 DEF EmailInv, EmailTypeOK
  <2>. HIDE DEF Some
  <2>. QED  BY <1>1, <2>1, <2>2, <2>3, CancelKeepsInv DEF Some
<1>4. CASE EndMaintenance
  <2>1. maint' = FALSE /\ UNCHANGED <<device, stored, recent, policy, touched, note, job, accepted>>
    BY <1>4 DEF EndMaintenance
  <2>2. /\ device' \in [Event -> {"none", "active", "over"}]
        /\ stored' \in [Event -> {"none", "open", "ended"}]
        /\ recent' \in SUBSET Event /\ policy' \in Policy /\ maint' \in BOOLEAN
        /\ touched' \in [Event -> {"no", "during", "after"}]
        /\ note' \in [Note -> NoteRow]
    BY <2>1 DEF EmailInv, EmailTypeOK
  <2>3. EmailInv'
    BY <1>1, <2>1, <2>2, QuietKeepsInv
  <2>. QED  BY <2>1, <2>3 DEF Steady
<1>. QED  BY <1>2, <1>3, <1>4 DEF AdminStep

--------------------------------------------------------------------------------
(* The step, and what follows.                                              *)

LEMMA EmailStep ==
  ASSUME EmailInv, [EmailNext]_emailVars
  PROVE  EmailInv' /\ Steady
<1>1. ASSUME NEW e \in Event, AlarmStep(e) PROVE EmailInv' /\ Steady
  BY <1>1, DeviceKeepsInv, IngestKeepsInv DEF AlarmStep
<1>2. ASSUME NEW n \in Note, ClaimStops(n) \/ LeaseExpires(n) PROVE EmailInv' /\ Steady
  BY <1>2, RowKeepsInv
<1>3. ASSUME NEW w \in Worker, WorkerStep(w) \/ Crash(w) PROVE EmailInv' /\ Steady
  BY <1>3, ClaimKeepsInv, WorkKeepsInv, FinishKeepsInv DEF WorkerStep
<1>4. CASE AdminStep
  BY <1>4, AdminKeepsInv
<1>5. CASE UNCHANGED emailVars
  <2>1. UNCHANGED <<device, stored, recent, policy, maint, touched, note, job, accepted, edits>>
    BY <1>5 DEF emailVars
  <2>2. \A n : Sending(n)' = Sending(n)
    BY <2>1 DEF Sending
  <2>. QED  BY <2>1, <2>2 DEF EmailInv, EmailTypeOK, BudgetInv, Steady
<1>. QED  BY <1>1, <1>2, <1>3, <1>4, <1>5 DEF EmailNext

LEMMA EmailInvariance == EmailSpec => []EmailInv
<1>1. EmailInv /\ [EmailNext]_emailVars => EmailInv'
  BY EmailStep
<1>. QED  BY <1>1, EmailInitInv, PTL DEF EmailSpec

\* The queue's rows and the workers' jobs keep their shape, and no claim goes
\* beyond the limit of attempts.
THEOREM EmailTypeCorrect == EmailSpec => []EmailTypeOK
<1>1. EmailInv => EmailTypeOK
  BY DEF EmailInv
<1>. QED  BY <1>1, EmailInvariance, PTL

\* A message is delivered at most as often as it was claimed, however workers
\* and leases interleave (claim_notification).
THEOREM SendsAreCovered == EmailSpec => []AttemptsCoverSends
<1>1. ASSUME EmailInv PROVE AttemptsCoverSends
  <2>1. ASSUME NEW n \in Note PROVE accepted[n] <= note[n].attempts
    <3>1. /\ accepted[n] \in Nat /\ note[n].attempts \in Nat /\ Cardinality(Sending(n)) \in Nat
          /\ accepted[n] + Cardinality(Sending(n)) <= note[n].attempts
      BY <1>1, BudgetNumbers DEF EmailInv, BudgetInv
    <3>. QED  BY <3>1
  <2>. QED  BY <2>1 DEF AttemptsCoverSends
<1>. QED  BY <1>1, EmailInvariance, PTL

\* Nothing that ends a notification is ever undone (finish_notification).
THEOREM SettledNoticesStay == EmailSpec => FinalIsFinal
<1>1. ASSUME EmailInv, [EmailNext]_emailVars
      PROVE  \A n \in Note : note[n].status \in Final => note'[n].status = note[n].status
  BY <1>1, EmailStep DEF Steady
<1>. QED  BY <1>1, EmailInvariance, PTL DEF EmailSpec, FinalIsFinal

\* No notice of a live alarm is created once the cloud knows its end
\* (enqueue_alarm follows the stored event).
THEOREM NoLateAlarmNotice == EmailSpec => NoAlarmAfterRecovery
<1>1. ASSUME EmailInv, [EmailNext]_emailVars
      PROVE  \A n \in Note : /\ n.kind = "alarm"
                             /\ stored[n.event] = "ended"
                             /\ note[n].status = "none"
                             => note'[n].status = "none"
  BY <1>1, EmailStep DEF Steady
<1>. QED  BY <1>1, EmailInvariance, PTL DEF EmailSpec, NoAlarmAfterRecovery

--------------------------------------------------------------------------------
(* The refinement of NoticeLedger.                                          *)

\* What a result rests on: a row that was claimed has been attempted, and a worker
\* that reports a success has had its message accepted.
ClaimInv == /\ \A n \in Note : note[n].status = "sending" => note[n].attempts > 0
            /\ \A w \in Worker : job[w].phase = "accepted" => accepted[job[w].note] > 0

LedgerInv == EmailInv /\ ClaimInv

LedgerGoes == [Ledger!Next]_(Ledger!ledgerVars)

\* A row keeps its attempts, and its standing, or is queued, or is cancelled.
RowGoesOn(n) == /\ note'[n].attempts = note[n].attempts
                /\ \/ StandingOf(note'[n]) = StandingOf(note[n])
                   \/ note[n].status = "none" /\ note'[n].status = "pending"
                   \/ note[n].status \in {"pending", "sending"} /\ note'[n].status = "cancelled"

LEMMA RowsRevised ==
  ASSUME UNCHANGED accepted, \A n \in Note : RowGoesOn(n)
  PROVE  LedgerGoes
<1>. DEFINE Q == {n \in Note : note[n].status = "none" /\ note'[n].status = "pending"}
            C == {n \in Note : /\ note[n].status \in {"pending", "sending"}
                               /\ note'[n].status = "cancelled"}
<1>1. Q \subseteq Ledger!In("none") /\ C \subseteq Ledger!In("queued")
  BY DEF Ledger!In, LedgerView, StandingOf
<1>2. LedgerView' = [n \in Note |-> IF n \in Q THEN "queued"
                                    ELSE IF n \in C THEN "cancelled" ELSE LedgerView[n]]
  <2>1. ASSUME NEW n \in Note
        PROVE  StandingOf(note[n])' = IF n \in Q THEN "queued"
                                      ELSE IF n \in C THEN "cancelled" ELSE LedgerView[n]
    BY DEF RowGoesOn, LedgerView, StandingOf
  <2>. HIDE DEF Q, C
  <2>. QED  BY <2>1 DEF LedgerView
<1>3. UNCHANGED <<TriesView, accepted>>
  BY DEF TriesView, RowGoesOn
<1>4. Q \in SUBSET Note /\ C \in SUBSET Note
  OBVIOUS
<1>. HIDE DEF Q, C
<1>5. Ledger!Revise(Q, C)
  BY <1>1, <1>2, <1>3 DEF Ledger!Revise
<1>. QED  BY <1>4, <1>5 DEF LedgerGoes, Ledger!Next

\* Nobody claims or reports, so what was claimed stays claimed.
LEMMA ClaimInvKept ==
  ASSUME LedgerInv,
         \A n \in Note : note'[n].status = "sending"
           => note[n].status = "sending" /\ note'[n].attempts = note[n].attempts,
         \A n \in Note : accepted'[n] \in Nat /\ accepted'[n] >= accepted[n],
         \A w \in Worker : job'[w] = job[w] \/ job'[w].phase # "accepted"
  PROVE  ClaimInv'
<1>1. ASSUME NEW w \in Worker, job'[w].phase = "accepted"
      PROVE  accepted'[job'[w].note] > 0
  <2>1. job'[w] = job[w] /\ accepted[job[w].note] > 0
    BY <1>1 DEF LedgerInv, ClaimInv
  <2>2. job[w].note \in Note
    BY <1>1, <2>1 DEF LedgerInv, EmailInv, EmailTypeOK, Idle, Job
  <2>3. accepted[job[w].note] \in Nat
    BY <2>2 DEF LedgerInv, EmailInv, EmailTypeOK
  <2>. QED  BY <2>1, <2>2, <2>3
<1>2. \A n \in Note : note'[n].status = "sending" => note'[n].attempts > 0
  BY DEF LedgerInv, ClaimInv
<1>. QED  BY <1>1, <1>2 DEF ClaimInv

\* Rows go on, and no worker takes or reports anything.
LEMMA QuietMaps ==
  ASSUME LedgerInv, UNCHANGED accepted,
         \A w \in Worker : job'[w] = job[w] \/ job'[w].phase # "accepted",
         \A n \in Note : RowGoesOn(n) /\ (note'[n].status = "sending"
                                            => note[n].status = "sending")
  PROVE  ClaimInv' /\ LedgerGoes
<1>1. \A n \in Note : accepted'[n] \in Nat /\ accepted'[n] >= accepted[n]
  BY DEF LedgerInv, EmailInv, EmailTypeOK
<1>2. ClaimInv'
  BY <1>1, ClaimInvKept DEF RowGoesOn
<1>. QED  BY <1>2, RowsRevised

LEMMA AlarmMaps ==
  ASSUME LedgerInv, NEW e \in Event, AlarmStep(e)
  PROVE  ClaimInv' /\ LedgerGoes
<1>1. CASE AlarmStarts(e) \/ AlarmEnds(e)
  <2>1. UNCHANGED <<note, job, accepted>>
    BY <1>1 DEF AlarmStarts, AlarmEnds
  <2>. QED  BY <2>1, QuietMaps DEF RowGoesOn
<1>2. ASSUME NEW incoming \in {"open", "ended"}, IngestAlarm(e, incoming)
      PROVE  ClaimInv' /\ LedgerGoes
  <2>1. PICK kept : Enqueue(e, incoming, kept)
    BY <1>2 DEF IngestAlarm
  <2>2. \A n \in Note : RowGoesOn(n) /\ (note'[n].status = "sending"
                                           => note[n].status = "sending")
    BY <2>1, EnqueueShape DEF LedgerInv, EmailInv, RowGoesOn
  <2>3. UNCHANGED <<job, accepted>>
    BY <1>2 DEF IngestAlarm
  <2>. QED  BY <2>2, <2>3, QuietMaps
<1>. QED  BY <1>1, <1>2 DEF AlarmStep

LEMMA AdminMaps ==
  ASSUME LedgerInv, AdminStep
  PROVE  ClaimInv' /\ LedgerGoes
<1>1. UNCHANGED <<job, accepted>>
  BY DEF AdminStep, SaveSettings, StartMaintenance, EndMaintenance
<1>2. ASSUME NEW n \in Note
      PROVE  \/ note'[n] = note[n]
             \/ /\ note[n].status = "pending"
                /\ note'[n] = [note[n] EXCEPT !.status = "cancelled"]
  BY DEF AdminStep, SaveSettings, StartMaintenance, EndMaintenance
<1>3. ASSUME NEW n \in Note
      PROVE  RowGoesOn(n) /\ (note'[n].status = "sending" => note[n].status = "sending")
  <2>1. note[n] \in NoteRow
    BY DEF LedgerInv, EmailInv, EmailTypeOK
  <2>2. CASE note'[n] = note[n]
    BY <2>2 DEF RowGoesOn
  <2>3. CASE note'[n] = [note[n] EXCEPT !.status = "cancelled"] /\ note[n].status = "pending"
    <3>1. note'[n].status = "cancelled" /\ note'[n].attempts = note[n].attempts
      BY <2>1, <2>3 DEF NoteRow
    <3>. QED  BY <2>3, <3>1 DEF RowGoesOn
  <2>. QED  BY <1>2, <2>2, <2>3
<1>. QED  BY <1>1, <1>3, QuietMaps

\* Only n's row changes, and not its attempts.
OneRowSet(n, st) == /\ note'[n].status = st /\ note'[n].attempts = note[n].attempts
                    /\ \A k \in Note : k # n => note'[k] = note[k]

LEMMA RowSet ==
  ASSUME EmailTypeOK, NEW n \in Note, NEW st \in {"none", "pending", "sending"} \cup Final,
         note' = [note EXCEPT ![n] = [note[n] EXCEPT !.status = st, !.expired = FALSE]]
  PROVE  OneRowSet(n, st)
<1>. DEFINE r == [note[n] EXCEPT !.status = st, !.expired = FALSE]
<1>1. note \in [Note -> NoteRow] /\ note[n] \in NoteRow
  BY DEF EmailTypeOK
<1>2. r.status = st /\ r.attempts = note[n].attempts
  BY <1>1, StatusSet
<1>3. note' = [note EXCEPT ![n] = r]
  OBVIOUS
<1>. HIDE DEF r
<1>. QED  BY <1>1, <1>2, <1>3 DEF OneRowSet

\* A claimed row is settled as the contract allows.
LEMMA RowSettled ==
  ASSUME NEW n \in Note, NEW st \in {"sent", "failed"},
         note[n].status \in {"pending", "sending"}, OneRowSet(n, st), UNCHANGED accepted,
         IF st = "sent" THEN accepted[n] > 0 ELSE note[n].attempts > 0
  PROVE  LedgerGoes
<1>1. /\ note'[n].status = st /\ note'[n].attempts = note[n].attempts
      /\ \A k \in Note : k # n => note'[k] = note[k]
  BY DEF OneRowSet
<1>2. LedgerView' = [LedgerView EXCEPT ![n] = st]
  BY <1>1 DEF LedgerView, StandingOf
<1>3. UNCHANGED TriesView
  BY <1>1 DEF TriesView
<1>4. Ledger!Settle(n, st)
  BY <1>2, <1>3 DEF Ledger!Settle, LedgerView, StandingOf, TriesView
<1>. QED  BY <1>4 DEF LedgerGoes, Ledger!Next

\* A claim that stops a notice which was ever attempted calls it failed.
LEMMA RowMaps ==
  ASSUME LedgerInv, NEW n \in Note, ClaimStops(n) \/ LeaseExpires(n)
  PROVE  ClaimInv' /\ LedgerGoes
<1>1. note \in [Note -> NoteRow] /\ note[n] \in NoteRow
  BY DEF LedgerInv, EmailInv, EmailTypeOK
<1>2. UNCHANGED <<job, accepted>>
  BY DEF ClaimStops, LeaseExpires
<1>3. CASE LeaseExpires(n)
  <2>1. /\ note'[n].status = note[n].status /\ note'[n].attempts = note[n].attempts
        /\ \A k \in Note \ {n} : note'[k] = note[k]
    BY <1>1, <1>3 DEF LeaseExpires, NoteRow
  <2>. QED  BY <1>2, <2>1, QuietMaps DEF RowGoesOn, StandingOf
<1>4. CASE ClaimStops(n) /\ Unwanted(n) /\ note[n].status = "pending"
  <2>1. note' = [note EXCEPT ![n] = [note[n] EXCEPT !.status = "cancelled",
                                                    !.expired = FALSE]]
    BY <1>4 DEF ClaimStops
  <2>2. OneRowSet(n, "cancelled")
    BY <2>1, RowSet DEF Final, LedgerInv, EmailInv
  <2>. QED  BY <1>2, <1>4, <2>2, QuietMaps DEF RowGoesOn, OneRowSet
<1>5. CASE ClaimStops(n) /\ ~(Unwanted(n) /\ note[n].status = "pending")
  <2>1. OneRowSet(n, "failed")
    <3>1. note' = [note EXCEPT ![n] = [note[n] EXCEPT !.status = "failed", !.expired = FALSE]]
      BY <1>5 DEF ClaimStops
    <3>. QED  BY <3>1, RowSet DEF Final, LedgerInv, EmailInv
  <2>2. note[n].status \in {"pending", "sending"}
    BY <1>5 DEF ClaimStops, Claimable
  <2>3. note[n].attempts > 0
    <3>1. CASE note[n].status = "sending"
      BY <3>1 DEF LedgerInv, ClaimInv
    <3>2. CASE note[n].attempts >= MaxAttempts
      BY <3>2, BudgetNumbers, EmailAssumption DEF LedgerInv, EmailInv
    <3>. QED  BY <1>5, <3>1, <3>2 DEF ClaimStops, Claimable
  <2>4. LedgerGoes
    BY <1>2, <2>1, <2>2, <2>3, RowSettled
  <2>5. \A k \in Note : accepted'[k] \in Nat /\ accepted'[k] >= accepted[k]
    BY <1>2 DEF LedgerInv, EmailInv, EmailTypeOK
  <2>6. ClaimInv'
    BY <1>2, <2>1, <2>5, ClaimInvKept DEF OneRowSet
  <2>. QED  BY <2>4, <2>6
<1>. QED  BY <1>3, <1>4, <1>5

LEMMA ClaimMaps ==
  ASSUME LedgerInv, NEW w \in Worker, NEW n \in Note, Claim(w, n)
  PROVE  ClaimInv' /\ LedgerGoes
<1>1. /\ note[n].status \in {"pending", "sending"} /\ note[n].attempts < MaxAttempts
      /\ note' = [note EXCEPT ![n] = [status |-> "sending", attempts |-> note[n].attempts + 1,
                                      expired |-> FALSE]]
      /\ job' = [job EXCEPT ![w] = [note |-> n, attempt |-> note[n].attempts + 1,
                                    phase |-> "smtp"]]
      /\ UNCHANGED accepted
  BY DEF Claim, Claimable
<1>2. /\ note'[n].status = "sending" /\ note'[n].attempts = note[n].attempts + 1
      /\ \A k \in Note \ {n} : note'[k] = note[k]
  BY <1>1 DEF LedgerInv, EmailInv, EmailTypeOK
<1>3. job'[w].phase = "smtp" /\ \A v \in Worker \ {w} : job'[v] = job[v]
  BY <1>1 DEF LedgerInv, EmailInv, EmailTypeOK
<1>4. ClaimInv'
  <2>1. note[n].attempts \in Nat
    BY BudgetNumbers DEF LedgerInv, EmailInv
  <2>. QED  BY <1>1, <1>2, <1>3, <2>1 DEF LedgerInv, ClaimInv
<1>5. Ledger!Attempt(n)
  <2>1. LedgerView[n] = "queued" /\ TriesView[n] < MaxAttempts
    BY <1>1 DEF LedgerView, StandingOf, TriesView
  <2>2. LedgerView' = LedgerView
    BY <1>1, <1>2 DEF LedgerView, StandingOf
  <2>3. TriesView' = [TriesView EXCEPT ![n] = TriesView[n] + 1]
    BY <1>2 DEF TriesView
  <2>. QED  BY <1>1, <2>1, <2>2, <2>3 DEF Ledger!Attempt
<1>. QED  BY <1>4, <1>5 DEF LedgerGoes, Ledger!Next

\* The message of a worker that is still sending is covered by an attempt.
LEMMA AcceptedMaps ==
  ASSUME LedgerInv, NEW w \in Worker, NEW phase \in {"accepted", "error"},
         MailAccepted(w, phase)
  PROVE  ClaimInv' /\ LedgerGoes
<1>. DEFINE n == job[w].note
<1>1. /\ job[w].phase = "smtp" /\ job' = [job EXCEPT ![w] = [job[w] EXCEPT !.phase = phase]]
      /\ accepted' = [accepted EXCEPT ![n] = accepted[n] + 1] /\ UNCHANGED note
  BY DEF MailAccepted
<1>2. job[w] \in Job /\ n \in Note
  BY <1>1 DEF Idle, Job, LedgerInv, EmailInv, EmailTypeOK
<1>3. /\ accepted[n] \in Nat /\ note[n].attempts \in Nat
      /\ accepted[n] + Cardinality(Sending(n)) <= note[n].attempts
      /\ Cardinality(Sending(n)) \in Nat
  BY <1>2, BudgetNumbers DEF LedgerInv, EmailInv, BudgetInv
<1>4. accepted[n] < note[n].attempts
  <2>1. Sending(n) # {}
    BY <1>1 DEF Sending
  <2>2. Cardinality(Sending(n)) # 0
    BY <2>1, SendingIsFinite, FS_EmptySet
  <2>. QED  BY <1>3, <2>2
<1>5. accepted'[n] = accepted[n] + 1 /\ \A k \in Note \ {n} : accepted'[k] = accepted[k]
  BY <1>1, <1>2 DEF LedgerInv, EmailInv, EmailTypeOK
<1>6. job'[w].note = n /\ \A v \in Worker \ {w} : job'[v] = job[v]
  BY <1>1, <1>2 DEF Job, LedgerInv, EmailInv, EmailTypeOK
<1>. HIDE DEF n
<1>7. ClaimInv'
  <2>1. ASSUME NEW v \in Worker, job'[v].phase = "accepted"
        PROVE  accepted'[job'[v].note] > 0
    <3>1. CASE v = w
      BY <1>3, <1>5, <1>6, <3>1
    <3>2. CASE v # w
      <4>1. job'[v] = job[v] /\ job[v].phase = "accepted" /\ accepted[job[v].note] > 0
        BY <1>6, <2>1, <3>2 DEF LedgerInv, ClaimInv
      <4>2. job[v].note \in Note
        BY <4>1 DEF Idle, Job, LedgerInv, EmailInv, EmailTypeOK
      <4>. QED  BY <1>3, <1>5, <4>1, <4>2
    <3>. QED  BY <3>1, <3>2
  <2>. QED  BY <1>1, <2>1 DEF LedgerInv, ClaimInv
<1>8. Ledger!Arrive(n)
  BY <1>1, <1>2, <1>4 DEF Ledger!Arrive, LedgerView, TriesView
<1>. QED  BY <1>2, <1>8, <1>7 DEF LedgerGoes, Ledger!Next

\* Only the last claim's worker settles a row: as sent when its message went out.
LEMMA FinishMaps ==
  ASSUME LedgerInv, NEW w \in Worker, Finish(w)
  PROVE  ClaimInv' /\ LedgerGoes
<1>. DEFINE n == job[w].note
<1>1. /\ job[w].phase \in Decision \cup {"accepted"}
      /\ job' = [job EXCEPT ![w] = Idle] /\ UNCHANGED accepted
  BY DEF Finish
<1>2. n \in Note /\ note \in [Note -> NoteRow] /\ note[n] \in NoteRow
  BY <1>1 DEF Decision, Idle, Job, LedgerInv, EmailInv, EmailTypeOK
<1>3. \A v \in Worker : job'[v] = job[v] \/ job'[v].phase # "accepted"
  BY <1>1 DEF Idle, LedgerInv, EmailInv, EmailTypeOK
<1>4. CASE ~Owns(w)
  <2>1. UNCHANGED note
    BY <1>4 DEF Finish
  <2>. QED  BY <1>1, <1>3, <2>1, QuietMaps DEF RowGoesOn
<1>5. CASE Owns(w)
  <2>1. note[n].status = "sending" /\ note[n].attempts > 0
    BY <1>2, <1>5 DEF Owns, LedgerInv, ClaimInv
  <2>2. Outcome(w) \in {"sent", "failed", "pending", "cancelled"}
    BY <1>1 DEF Outcome, Decision
  <2>3. OneRowSet(n, Outcome(w))
    <3>1. note' = [note EXCEPT ![n] = [note[n] EXCEPT !.status = Outcome(w), !.expired = FALSE]]
      BY <1>5 DEF Finish
    <3>. QED  BY <1>2, <2>2, <3>1, RowSet DEF Final, LedgerInv, EmailInv
  <2>4. CASE Outcome(w) \in {"pending", "cancelled"}
    BY <1>1, <1>3, <2>1, <2>3, <2>4, QuietMaps DEF RowGoesOn, StandingOf, OneRowSet
  <2>5. CASE Outcome(w) \in {"sent", "failed"}
    <3>1. Outcome(w) = "sent" => accepted[n] > 0
      BY <1>1 DEF Outcome, Decision, LedgerInv, ClaimInv
    <3>2. LedgerGoes
      BY <1>1, <1>2, <2>1, <2>3, <2>5, <3>1, RowSettled
    <3>3. \A k \in Note : accepted'[k] \in Nat /\ accepted'[k] >= accepted[k]
      BY <1>1 DEF LedgerInv, EmailInv, EmailTypeOK
    <3>4. ClaimInv'
      BY <1>3, <2>3, <2>5, <3>3, ClaimInvKept DEF OneRowSet
    <3>. QED  BY <3>2, <3>4
  <2>. QED  BY <2>2, <2>4, <2>5
<1>. QED  BY <1>4, <1>5

LEMMA LedgerStep ==
  ASSUME LedgerInv, [EmailNext]_emailVars
  PROVE  ClaimInv' /\ LedgerGoes
<1>1. ASSUME NEW e \in Event, AlarmStep(e) PROVE ClaimInv' /\ LedgerGoes
  BY <1>1, AlarmMaps
<1>2. ASSUME NEW n \in Note, ClaimStops(n) \/ LeaseExpires(n) PROVE ClaimInv' /\ LedgerGoes
  BY <1>2, RowMaps
<1>3. ASSUME NEW w \in Worker, WorkerStep(w) \/ Crash(w) PROVE ClaimInv' /\ LedgerGoes
  <2>1. CASE MailRefused(w) \/ Decide(w) \/ Crash(w)
    <3>1. UNCHANGED <<note, accepted>>
      BY <2>1 DEF MailRefused, Decide, Crash
    <3>2. \A v \in Worker : job'[v] = job[v] \/ job'[v].phase # "accepted"
      <4>1. job[w] \in Job
        BY <2>1 DEF MailRefused, Decide, Crash, Idle, LedgerInv, EmailInv, EmailTypeOK
      <4>2. \E j : job' = [job EXCEPT ![w] = j] /\ j.phase # "accepted"
        BY <2>1, <4>1 DEF MailRefused, Decide, Crash, Idle, Job
      <4>. QED  BY <4>2 DEF LedgerInv, EmailInv, EmailTypeOK
    <3>. QED  BY <3>1, <3>2, QuietMaps DEF RowGoesOn
  <2>. QED  BY <1>3, <2>1, ClaimMaps, AcceptedMaps, FinishMaps DEF WorkerStep
<1>4. CASE AdminStep
  BY <1>4, AdminMaps
<1>5. CASE UNCHANGED emailVars
  <2>1. UNCHANGED <<note, job, accepted>>
    BY <1>5 DEF emailVars
  <2>. QED  BY <2>1, QuietMaps DEF RowGoesOn
<1>. QED  BY <1>1, <1>2, <1>3, <1>4, <1>5 DEF EmailNext

\* Every behaviour of the queue, its workers and its administrator is one of the
\* contract of notices: limited attempts, "sent" only what arrived, "failed" only
\* what was attempted, and nothing settled twice (claim_notification,
\* finish_notification, enqueue_alarm, save_settings, start_maintenance).
THEOREM EmailRefinesLedger == EmailSpec => ImplementsNoticeLedger
<1>1. EmailInit => Ledger!Init /\ ClaimInv
  BY DEF EmailInit, Ledger!Init, ClaimInv, LedgerView, TriesView, StandingOf, NoNote, Idle
<1>2. LedgerInv /\ [EmailNext]_emailVars => LedgerInv' /\ [Ledger!Next]_(Ledger!ledgerVars)
  BY EmailStep, LedgerStep DEF LedgerInv, LedgerGoes
<1>3. EmailInit => LedgerInv
  BY <1>1, EmailInitInv DEF LedgerInv
<1>. QED
  BY <1>1, <1>2, <1>3, PTL DEF EmailSpec, ImplementsNoticeLedger, Ledger!Spec
================================================================================
