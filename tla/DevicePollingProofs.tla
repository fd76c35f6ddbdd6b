--------------------------- MODULE DevicePollingProofs -------------------------
(***************************************************************************)
(* Proofs about one device from the instrument to the cloud, for any       *)
(* addresses and any number of samples, changes and restarts: what is      *)
(* shown, what is stored, and what is kept at the edge of an outage.       *)
(***************************************************************************)
EXTENDS DevicePolling, TLAPS

(* The worker has a sample from the read until it is done with it, and what *)
(* is published as online is one.                                           *)
WorkerInv ==
  /\ poll.pc \in {"read", "keeping", "publishing", "saving"} => poll.sample \in Sample
  /\ poll.pc \in {"submitted", "reading"} => poll.at \in Address
  /\ latest.kind = "online" => latest.sample \in Sample
  /\ latest.kind = "none" => latest.sample = NoSample

(* Every sample there is, wherever it is.                                   *)
Held == rows \cup sent \cup history \cup ({poll.sample, latest.sample, shown} \ {NoSample})

(* Periods and samples are of the past; a sample an assignment period       *)
(* covers was read while the device was assigned; instants tell samples     *)
(* apart.                                                                   *)
CoverInv ==
  /\ reg.since <= now
  /\ \A p \in ended : p.to <= now
  /\ \A s \in Held : s.t <= now /\ (Covered(s) => s.assigned)
  /\ \A r, s \in Held : r.t = s.t => r = s

(* What was recorded last is in the database; the worker that saves after a *)
(* failure has the sample the device is shown offline with.                 *)
KeptInv ==
  /\ recorded # 0 => \E s \in rows : s.t = recorded
  /\ (poll.pc = "saving" /\ latest.sample # NoSample /\ latest.kind = "offline")
       => poll.sample = latest.sample
  /\ LastSampleKept

PollingInv == /\ PollingTypeOK /\ WorkerInv
              /\ CoverInv /\ ShownIsCurrent /\ GapIsNeverStored
              /\ KeptInv

Others == \/ Administer \/ Pull \/ ConsoleCloses \/ Purge
          \/ \E on \in BOOLEAN, a \in Address : ConsoleSaves(on, a)
          \/ \E s \in sent : DeliverLatest(s) \/ LoseLatest(s)
          \/ \E s \in rows : UploadRow(s)
          \/ ForgetFailures \/ SendLatest \/ Restart

USE DEF cloudVars, memory, WorkerOnly, Worker, Tick

--------------------------------------------------------------------------------
LEMMA PollingInitInv == PollingInit => PollingInv
<1>. SUFFICES ASSUME NEW a \in Address, now = 0,
                     reg = [on |-> TRUE, at |-> a, since |-> 0],
                     conf = [on |-> TRUE, at |-> a],
                     connected \in BOOLEAN,
                     ended = {}, history = {}, rows = {}, sent = {},
                     shown = NoSample, stale = FALSE, failing = FALSE, apply = "idle",
                     client = None, poll = Idle, latest = NoLatest, recorded = 0, restarts = 0
              PROVE  PollingInv
  BY DEF PollingInit
<1>1. PollingTypeOK
  <2>1. stale \in BOOLEAN /\ failing \in BOOLEAN
    OBVIOUS
  <2>2. /\ reg \in [on : BOOLEAN, at : Address, since : 0..MaxTime]
        /\ conf \in [on : BOOLEAN, at : Address]
    BY PollingAssumption
  <2>3. /\ poll \in [pc : WorkerState, at : Address \cup {None}, sample : Sample \cup {NoSample}]
        /\ latest \in [kind : {"none", "online", "offline"}, sample : Sample \cup {NoSample}]
    BY DEF Idle, WorkerState, NoLatest
  <2>. QED  BY <2>1, <2>2, <2>3, PollingAssumption DEF PollingTypeOK
<1>2. WorkerInv
  BY DEF WorkerInv, Idle, NoLatest
<1>3. Held = {}
  BY DEF Held, Idle, NoLatest
<1>4. CoverInv
  BY <1>3 DEF CoverInv
<1>5. ShownIsCurrent /\ GapIsNeverStored /\ KeptInv
  BY DEF ShownIsCurrent, GapIsNeverStored, KeptInv, LastSampleKept, Idle, NoLatest
<1>. QED  BY <1>1, <1>2, <1>4, <1>5 DEF PollingInv

--------------------------------------------------------------------------------
(* Types, and what the worker has.                                              *)

LEMMA SampleIsTyped ==
  ASSUME NEW s \in Sample
  PROVE  s.t \in 1..MaxTime /\ s # NoSample
<1>. QED  BY DEF Sample, NoSample

LEMMA WorkKeepsTypes ==
  ASSUME PollingTypeOK, WorkerInv, Work
  PROVE  PollingTypeOK' /\ WorkerInv'
<1>. USE PollingAssumption DEF PollingTypeOK, WorkerInv, WorkerState
<1>1. CASE CloseObsolete
  BY <1>1 DEF CloseObsolete
<1>2. CASE Submit
  <2>1. poll' = [pc |-> "submitted", at |-> conf.at, sample |-> NoSample]
    BY <1>2 DEF Submit, Idle
  <2>2. poll' \in [pc : WorkerState, at : Address \cup {None}, sample : Sample \cup {NoSample}]
    BY <2>1
  <2>. QED  BY <1>2, <2>1, <2>2 DEF Submit
<1>3. CASE Connect
  BY <1>3 DEF Connect
<1>4. CASE Read
  <2>1. now + 1 \in 1..MaxTime
    BY <1>4 DEF Read
  <2>2. [t |-> now + 1, from |-> poll.at, assigned |-> reg.on] \in Sample
    BY <1>4, <2>1 DEF Read, Sample
  <2>3. /\ poll' \in [pc : WorkerState, at : Address \cup {None},
                      sample : Sample \cup {NoSample}]
        /\ poll'.pc = "read" /\ poll'.sample \in Sample
    BY <1>4, <2>2 DEF Read
  <2>. QED  BY <1>4, <2>1, <2>3 DEF Read
<1>5. CASE ReadFails
  BY <1>5 DEF ReadFails
<1>6. CASE Decide
  BY <1>6 DEF Decide
<1>7. CASE Keep
  BY <1>7, SampleIsTyped DEF Keep, Idle
<1>8. CASE Publish
  BY <1>8 DEF Publish, Idle
<1>9. CASE CloseFailed
  BY <1>9 DEF CloseFailed
<1>10. CASE GoesDown
  <2>1. CASE latest.kind = "online"
    <3>1. poll' = [poll EXCEPT !.pc = "saving", !.sample = latest.sample]
      BY <1>10, <2>1 DEF GoesDown
    <3>2. /\ latest' = [kind |-> "offline", sample |-> latest.sample]
          /\ failing' = TRUE
          /\ UNCHANGED <<client, recorded, rows>>
      BY <1>10 DEF GoesDown
    <3>3. latest.sample \in Sample
      BY <2>1
    <3>4. /\ poll'.pc = "saving" /\ poll'.sample \in Sample
          /\ poll' \in [pc : WorkerState, at : Address \cup {None},
                        sample : Sample \cup {NoSample}]
      BY <3>1, <3>3
    <3>5. latest' \in [kind : {"none", "online", "offline"}, sample : Sample \cup {NoSample}]
      BY <3>2, <3>3
    <3>. QED  BY <1>10, <3>2, <3>4, <3>5 DEF GoesDown
  <2>2. CASE latest.kind # "online"
    BY <1>10, <2>2 DEF GoesDown, Idle
  <2>. QED  BY <2>1, <2>2
<1>. QED  BY <1>1, <1>2, <1>3, <1>4, <1>5, <1>6, <1>7, <1>8, <1>9, <1>10 DEF Work

LEMMA OthersKeepTypes ==
  ASSUME PollingTypeOK, WorkerInv, Others
  PROVE  PollingTypeOK' /\ WorkerInv'
<1>. USE PollingAssumption DEF PollingTypeOK, WorkerInv
<1>1. CASE Administer
  <2>1. now + 1 \in 0..MaxTime
    BY <1>1 DEF Administer
  <2>2. reg' \in [on : BOOLEAN, at : Address, since : 0..MaxTime]
    <3>1. \E on \in BOOLEAN, a \in Address : Change(on, a)
      <4>1. reg.at \in Address
        OBVIOUS
      <4>2. Change(FALSE, reg.at) \/ \E a \in Address : Change(TRUE, a)
        BY <1>1, <4>1 DEF Administer
      <4>. QED  BY <4>1, <4>2
    <3>. QED  BY <2>1, <3>1 DEF Change
  <2>3. ended' \subseteq [from : 0..MaxTime, to : 0..MaxTime]
    BY <1>1, <2>1 DEF Administer, Change
  <2>4. stale' \in BOOLEAN /\ shown' = NoSample
    BY <1>1 DEF Administer, Change
  <2>. QED  BY <1>1, <2>1, <2>2, <2>3, <2>4 DEF Administer
<1>2. CASE Pull
  BY <1>2 DEF Pull
<1>3. CASE ConsoleCloses
  BY <1>3 DEF ConsoleCloses
<1>4. CASE Purge
  BY <1>4 DEF Purge, NoLatest
<1>5. ASSUME NEW on \in BOOLEAN, NEW a \in Address, ConsoleSaves(on, a)
      PROVE  PollingTypeOK' /\ WorkerInv'
  BY <1>5 DEF ConsoleSaves
<1>6. ASSUME NEW s \in sent, DeliverLatest(s) \/ LoseLatest(s)
      PROVE  PollingTypeOK' /\ WorkerInv'
  BY <1>6 DEF DeliverLatest, LoseLatest
<1>7. ASSUME NEW s \in rows, UploadRow(s)
      PROVE  PollingTypeOK' /\ WorkerInv'
  <2>1. history' \subseteq Sample
    BY <1>7 DEF UploadRow
  <2>. QED  BY <1>7, <2>1 DEF UploadRow
<1>8. CASE ForgetFailures
  <2>1. /\ failing' \in BOOLEAN
        /\ UNCHANGED <<now, reg, ended, shown, history, connected, stale, conf, apply,
                       client, poll, latest, recorded, rows, sent, restarts>>
    BY <1>8 DEF ForgetFailures
  <2>. QED  BY <2>1
<1>9. CASE SendLatest
  <2>1. sent' \subseteq Sample
    BY <1>9 DEF SendLatest
  <2>. QED  BY <1>9, <2>1 DEF SendLatest
<1>10. CASE Restart
  <2>1. failing' \in BOOLEAN /\ stale' \in BOOLEAN
    BY <1>10 DEF Restart
  <2>2. /\ poll' \in [pc : WorkerState, at : Address \cup {None},
                      sample : Sample \cup {NoSample}]
        /\ latest' \in [kind : {"none", "online", "offline"}, sample : Sample \cup {NoSample}]
        /\ poll'.pc = "idle" /\ latest' = NoLatest
    BY <1>10 DEF Restart, Idle, WorkerState, NoLatest
  <2>. QED  BY <1>10, <2>1, <2>2 DEF Restart, NoLatest
<1>. QED  BY <1>1, <1>2, <1>3, <1>4, <1>5, <1>6, <1>7, <1>8, <1>9, <1>10 DEF Others
--------------------------------------------------------------------------------
(* Samples.                                                                     *)

\* A step that takes no sample and leaves time and the periods alone.
LEMMA CoverIsKept ==
  ASSUME CoverInv, Held' \subseteq Held, UNCHANGED <<now, reg, ended>>
  PROVE  CoverInv'
<1>. QED  BY DEF CoverInv, Covered

\* Time passes, or a registration changes: a period ends now and another begins.
LEMMA CoverSurvivesChange ==
  ASSUME PollingTypeOK, CoverInv, Held' \subseteq Held, now' = now + 1,
         \/ UNCHANGED <<reg, ended>>
         \/ \E on \in BOOLEAN, a \in Address : Change(on, a)
  PROVE  CoverInv'
<1>. USE DEF CoverInv
<1>1. now \in Nat /\ reg.since \in Nat
  BY PollingAssumption DEF PollingTypeOK
<1>2. \A p \in ended : p.to \in Nat
  BY PollingAssumption DEF PollingTypeOK
<1>3. \A s \in Held : s.t \in Nat
  BY SampleIsTyped, PollingAssumption DEF PollingTypeOK, Held
<1>4. CASE UNCHANGED <<reg, ended>>
  BY <1>1, <1>2, <1>3, <1>4 DEF Covered
<1>5. ASSUME NEW on \in BOOLEAN, NEW a \in Address, Change(on, a)
      PROVE  CoverInv'
  <2>1. reg' = [on |-> on, at |-> a, since |-> now + 1]
    BY <1>5 DEF Change
  <2>2. reg'.since <= now' /\ \A p \in ended' : p.to <= now'
    BY <1>1, <1>2, <1>5, <2>1 DEF Change
  <2>3. ASSUME NEW s \in Held', Covered(s)'
        PROVE  Covered(s)
    <3>1. s \in Held /\ s.t \in Nat /\ s.t <= now
      BY <1>3
    <3>2. PICK p \in ended' : p.from <= s.t /\ s.t <= p.to
      BY <1>1, <2>1, <2>3, <3>1 DEF Covered
    <3>3. CASE p \in ended
      BY <3>2, <3>3 DEF Covered
    <3>4. CASE p \notin ended
      BY <1>5, <3>2, <3>4 DEF Change, Covered
    <3>. QED  BY <3>3, <3>4
  <2>. QED  BY <1>1, <1>3, <2>2, <2>3
<1>. QED  BY <1>4, <1>5

\* A sample is read, at an instant of its own.
LEMMA CoverSurvivesRead ==
  ASSUME PollingTypeOK, WorkerInv, CoverInv, Read
  PROVE  CoverInv'
<1>. DEFINE new == [t |-> now + 1, from |-> poll.at, assigned |-> reg.on]
<1>. USE DEF CoverInv
<1>1. now \in Nat /\ reg.since \in Nat /\ now' = now + 1 /\ UNCHANGED <<reg, ended>>
  BY PollingAssumption DEF PollingTypeOK, Read
<1>2. \A p \in ended : p.to \in Nat
  BY PollingAssumption DEF PollingTypeOK
<1>3. \A s \in Held : s.t \in Nat
  BY SampleIsTyped, PollingAssumption DEF PollingTypeOK, Held
<1>4. poll'.sample = new
  BY DEF Read, PollingTypeOK
<1>5. Held' \subseteq Held \cup {new}
  BY <1>4 DEF Held, Read
<1>6. \A s \in Held : Covered(s)' => Covered(s)
  BY <1>1 DEF Covered
<1>7. new.t = now + 1
  OBVIOUS
<1>8. \A s \in Held : s.t # new.t
  BY <1>1, <1>3, <1>7
<1>9. \A s \in Held' : s.t <= now' /\ (Covered(s)' => s.assigned)
  <2>. TAKE s \in Held'
  <2>1. CASE s \in Held
    BY <1>1, <1>3, <1>6, <2>1
  <2>2. CASE s = new
    BY <1>1, <1>2, <2>2 DEF Covered
  <2>. QED  BY <1>5, <2>1, <2>2
<1>10. \A r, s \in Held' : r.t = s.t => r = s
  BY <1>5, <1>8
<1>. QED  BY <1>1, <1>2, <1>9, <1>10
LEMMA WorkKeepsCover ==
  ASSUME PollingTypeOK, WorkerInv, CoverInv, Work
  PROVE  CoverInv'
<1>1. CASE Read
  BY <1>1, CoverSurvivesRead
<1>2. CASE ~Read
  <2>1. UNCHANGED <<now, reg, ended, history, sent, shown>>
    BY <1>2 DEF Work, CloseObsolete, Submit, Connect, ReadFails, Decide, Keep, Publish,
       CloseFailed, GoesDown
  <2>2. rows' \subseteq Held
    BY <1>2, SampleIsTyped DEF Work, CloseObsolete, Submit, Connect, ReadFails, Decide, Keep,
       Publish, CloseFailed, GoesDown, Held, WorkerInv
  <2>3. /\ poll'.sample \in {poll.sample, latest.sample, NoSample}
        /\ latest'.sample \in {poll.sample, latest.sample}
    <3>. USE DEF PollingTypeOK, Idle
    <3>1. CASE CloseObsolete \/ Submit
      BY <3>1 DEF CloseObsolete, Submit
    <3>2. CASE Connect \/ ReadFails \/ CloseFailed
      BY <3>2 DEF Connect, ReadFails, CloseFailed
    <3>3. CASE Decide \/ Keep
      BY <3>3 DEF Decide, Keep
    <3>4. CASE Publish
      BY <3>4 DEF Publish
    <3>5. CASE GoesDown
      BY <3>5 DEF GoesDown
    <3>. QED  BY <1>2, <3>1, <3>2, <3>3, <3>4, <3>5 DEF Work
  <2>4. Held' \subseteq Held
    BY <2>1, <2>2, <2>3 DEF Held
  <2>. QED  BY <2>1, <2>4, CoverIsKept
<1>. QED  BY <1>1, <1>2

LEMMA OthersKeepCover ==
  ASSUME PollingTypeOK, WorkerInv, CoverInv, Others
  PROVE  CoverInv'
<1>1. CASE Administer
  <2>1. reg.at \in Address
    BY DEF PollingTypeOK
  <2>2. \E on \in BOOLEAN, a \in Address : Change(on, a)
    BY <1>1, <2>1 DEF Administer
  <2>3. Held' \subseteq Held /\ now' = now + 1
    BY <1>1 DEF Administer, Change, Held
  <2>. QED  BY <2>2, <2>3, CoverSurvivesChange
<1>2. ASSUME NEW on \in BOOLEAN, NEW a \in Address, ConsoleSaves(on, a)
      PROVE  CoverInv'
  <2>1. Held' \subseteq Held /\ now' = now + 1 /\ UNCHANGED <<reg, ended>>
    BY <1>2 DEF ConsoleSaves, Held
  <2>. QED  BY <2>1, CoverSurvivesChange
<1>3. CASE Pull \/ ConsoleCloses \/ Purge \/ ForgetFailures \/ Restart
  <2>1. Held' \subseteq Held /\ UNCHANGED <<now, reg, ended>>
    BY <1>3 DEF Pull, ConsoleCloses, Purge, ForgetFailures, Restart, Held, NoLatest, Idle
  <2>. QED  BY <2>1, CoverIsKept
<1>4. ASSUME NEW s \in sent, DeliverLatest(s) \/ LoseLatest(s)
      PROVE  CoverInv'
  <2>1. Held' \subseteq Held /\ UNCHANGED <<now, reg, ended>>
    BY <1>4 DEF DeliverLatest, LoseLatest, Held
  <2>. QED  BY <2>1, CoverIsKept
<1>5. ASSUME NEW s \in rows, UploadRow(s)
      PROVE  CoverInv'
  <2>1. Held' \subseteq Held /\ UNCHANGED <<now, reg, ended>>
    BY <1>5 DEF UploadRow, Held
  <2>. QED  BY <2>1, CoverIsKept
<1>6. CASE SendLatest
  <2>1. Held' \subseteq Held /\ UNCHANGED <<now, reg, ended>>
    BY <1>6, SampleIsTyped DEF SendLatest, Held, WorkerInv
  <2>. QED  BY <2>1, CoverIsKept
<1>. QED  BY <1>1, <1>2, <1>3, <1>4, <1>5, <1>6 DEF Others

--------------------------------------------------------------------------------
(* What the cloud shows and stores.                                             *)

LEMMA CloudIsKept ==
  ASSUME ShownIsCurrent, GapIsNeverStored, UNCHANGED <<reg, shown, history>>
  PROVE  ShownIsCurrent' /\ GapIsNeverStored'
<1>. QED  BY DEF ShownIsCurrent, GapIsNeverStored

LEMMA StepKeepsCloud ==
  ASSUME PollingTypeOK, CoverInv, ShownIsCurrent, GapIsNeverStored, Others \/ Work
  PROVE  ShownIsCurrent' /\ GapIsNeverStored'
<1>1. CASE Administer
  BY <1>1 DEF Administer, Change, ShownIsCurrent, GapIsNeverStored
<1>2. ASSUME NEW s \in sent, DeliverLatest(s)
      PROVE  ShownIsCurrent' /\ GapIsNeverStored'
  <2>1. CASE shown' = shown
    BY <1>2, <2>1, CloudIsKept DEF DeliverLatest
  <2>2. CASE shown' = s /\ reg.on /\ reg.since <= s.t
    <3>1. s.assigned
      BY <2>2 DEF CoverInv, Covered, Held
    <3>. QED  BY <1>2, <2>2, <3>1 DEF DeliverLatest, ShownIsCurrent, GapIsNeverStored
  <2>. QED  BY <1>2, <2>1, <2>2 DEF DeliverLatest, RetiredTarget
<1>3. ASSUME NEW s \in rows, UploadRow(s)
      PROVE  ShownIsCurrent' /\ GapIsNeverStored'
  <2>1. s.assigned
    BY <1>3 DEF UploadRow, CoverInv, Held
  <2>. QED  BY <1>3, <2>1 DEF UploadRow, ShownIsCurrent, GapIsNeverStored
<1>4. ASSUME NEW s \in sent, LoseLatest(s)
      PROVE  ShownIsCurrent' /\ GapIsNeverStored'
  BY <1>4, CloudIsKept DEF LoseLatest
<1>5. ASSUME NEW on \in BOOLEAN, NEW a \in Address, ConsoleSaves(on, a)
      PROVE  ShownIsCurrent' /\ GapIsNeverStored'
  BY <1>5, CloudIsKept DEF ConsoleSaves
<1>6. CASE Pull \/ ConsoleCloses \/ Purge \/ ForgetFailures \/ SendLatest \/ Restart
  BY <1>6, CloudIsKept DEF Pull, ConsoleCloses, Purge, ForgetFailures, SendLatest, Restart
<1>7. CASE Work
  BY <1>7, CloudIsKept DEF Work, CloseObsolete, Submit, Connect, Read, ReadFails, Decide, Keep,
     Publish, CloseFailed, GoesDown
<1>. QED  BY <1>1, <1>2, <1>3, <1>4, <1>5, <1>6, <1>7 DEF Others
--------------------------------------------------------------------------------
(* The edge of an outage.                                                       *)

LEMMA KeptIsKept ==
  ASSUME KeptInv, UNCHANGED latest, rows \subseteq rows',
         recorded' = recorded \/ recorded' = 0,
         poll'.pc = "saving" <=> poll.pc = "saving",
         poll.pc = "saving" => poll'.sample = poll.sample
  PROVE  KeptInv'
<1>. QED  BY DEF KeptInv, LastSampleKept

LEMMA WorkKeepsKept ==
  ASSUME PollingTypeOK, WorkerInv, CoverInv, KeptInv, Work
  PROVE  KeptInv'
<1>. USE DEF PollingTypeOK, Idle
<1>1. CASE CloseObsolete \/ Submit
  <2>1. UNCHANGED <<latest, rows, recorded>> /\ poll.pc = "idle"
    BY <1>1 DEF CloseObsolete, Submit
  <2>2. poll'.pc \in {"idle", "submitted"}
    <3>1. CASE CloseObsolete
      BY <2>1, <3>1 DEF CloseObsolete
    <3>2. CASE Submit
      BY <3>2 DEF Submit
    <3>. QED  BY <1>1, <3>1, <3>2
  <2>. QED  BY <2>1, <2>2, KeptIsKept
<1>2. CASE Connect \/ ReadFails \/ CloseFailed
  <2>1. /\ UNCHANGED <<latest, rows, recorded>>
        /\ poll.pc # "saving" /\ poll'.pc \in {"reading", "failed", "down"}
    BY <1>2 DEF Connect, ReadFails, CloseFailed
  <2>. QED  BY <2>1, KeptIsKept
<1>3. CASE Read
  BY <1>3, KeptIsKept DEF Read
<1>4. CASE Decide
  BY <1>4, KeptIsKept DEF Decide
<1>5. CASE Keep
  <2>1. poll.sample \in Sample /\ poll.sample.t \in 1..MaxTime
    BY <1>5, SampleIsTyped DEF Keep, WorkerInv
  <2>2. poll.sample \in rows'
    <3>1. CASE poll.sample.t # recorded
      BY <1>5, <3>1 DEF Keep
    <3>2. CASE poll.sample.t = recorded
      <4>1. PICK s \in rows : s.t = poll.sample.t
        BY <2>1, <3>2 DEF KeptInv
      <4>2. s = poll.sample
        BY <2>1, <4>1, SampleIsTyped DEF CoverInv, Held
      <4>. QED  BY <1>5, <3>2, <4>2 DEF Keep
    <3>. QED  BY <3>1, <3>2
  <2>3. rows \subseteq rows' /\ UNCHANGED latest /\ recorded' = poll.sample.t
    BY <1>5 DEF Keep
  <2>4. poll'.pc # "saving"
    BY <1>5 DEF Keep
  <2>5. (latest.kind = "offline" /\ latest.sample # NoSample) => latest.sample \in rows'
    BY <2>2, <2>3 DEF KeptInv, LastSampleKept
  <2>. QED  BY <2>2, <2>3, <2>4, <2>5 DEF KeptInv, LastSampleKept
<1>6. CASE Publish
  BY <1>6 DEF Publish, KeptInv, LastSampleKept
<1>7. CASE GoesDown
  <2>1. /\ poll.pc = "down" /\ UNCHANGED <<rows, recorded>>
        /\ latest' = [kind |-> "offline", sample |-> latest.sample]
    BY <1>7 DEF GoesDown
  <2>2. CASE latest.kind = "online"
    <3>1. poll'.pc = "saving" /\ poll'.sample = latest.sample
      BY <1>7, <2>2 DEF GoesDown
    <3>. QED  BY <2>1, <3>1 DEF KeptInv, LastSampleKept
  <2>3. CASE latest.kind # "online"
    <3>1. poll'.pc = "idle"
      BY <1>7, <2>3 DEF GoesDown
    <3>2. latest.sample # NoSample => latest.sample \in rows
      BY <2>1, <2>3 DEF KeptInv, LastSampleKept, WorkerInv
    <3>. QED  BY <2>1, <3>1, <3>2 DEF KeptInv, LastSampleKept
  <2>. QED  BY <2>2, <2>3
<1>. QED  BY <1>1, <1>2, <1>3, <1>4, <1>5, <1>6, <1>7 DEF Work

LEMMA OthersKeepKept ==
  ASSUME KeptInv, Others
  PROVE  KeptInv'
<1>1. CASE Administer \/ Pull \/ ConsoleCloses \/ ForgetFailures \/ SendLatest
  BY <1>1, KeptIsKept DEF Administer, Pull, ConsoleCloses, ForgetFailures, SendLatest
<1>2. CASE Purge \/ Restart
  BY <1>2, KeptIsKept DEF Purge, Restart, KeptInv, LastSampleKept, NoLatest, Idle
<1>3. ASSUME NEW on \in BOOLEAN, NEW a \in Address, ConsoleSaves(on, a)
      PROVE  KeptInv'
  BY <1>3, KeptIsKept DEF ConsoleSaves
<1>4. ASSUME NEW s, DeliverLatest(s) \/ LoseLatest(s) \/ UploadRow(s)
      PROVE  KeptInv'
  BY <1>4, KeptIsKept DEF DeliverLatest, LoseLatest, UploadRow
<1>. QED  BY <1>1, <1>2, <1>3, <1>4 DEF Others

--------------------------------------------------------------------------------
LEMMA PollingStepInv == PollingInv /\ [PollingNext]_pollVars => PollingInv'
<1>. SUFFICES ASSUME PollingInv, [PollingNext]_pollVars PROVE PollingInv'
  OBVIOUS
<1>1. CASE Work \/ Others
  BY <1>1, WorkKeepsTypes, OthersKeepTypes, WorkKeepsCover, OthersKeepCover, StepKeepsCloud,
     WorkKeepsKept, OthersKeepKept DEF PollingInv
<1>2. CASE UNCHANGED pollVars
  <2>1. PollingTypeOK' /\ WorkerInv'
    BY <1>2 DEF PollingInv, PollingTypeOK, WorkerInv, pollVars
  <2>2. CoverInv'
    BY <1>2, CoverIsKept DEF PollingInv, Held, pollVars
  <2>3. ShownIsCurrent' /\ GapIsNeverStored'
    BY <1>2, CloudIsKept DEF PollingInv, pollVars
  <2>4. KeptInv'
    BY <1>2, KeptIsKept DEF PollingInv, pollVars
  <2>. QED  BY <2>1, <2>2, <2>3, <2>4 DEF PollingInv
<1>3. PollingNext => Work \/ Others
  BY DEF PollingNext, Others
<1>. QED  BY <1>1, <1>2, <1>3

THEOREM PollingInvariant == PollingSpec => []PollingInv
<1>. QED  BY PollingInitInv, PollingStepInv, PTL DEF PollingSpec

\* Every thread finds the tables, sessions and dictionaries well formed.
THEOREM PollingTypeCorrect == PollingSpec => []PollingTypeOK
<1>1. PollingInv => PollingTypeOK
  BY DEF PollingInv
<1>. QED  BY <1>1, PollingInvariant, PTL

\* Nothing that was read while the device was removed is ever stored, however
\* often it is restored and however late its samples are sent.
THEOREM GapsStayEmpty == PollingSpec => []GapIsNeverStored
<1>1. PollingInv => GapIsNeverStored
  BY DEF PollingInv
<1>. QED  BY <1>1, PollingInvariant, PTL

\* The reading the cloud shows was read since the registration last changed.
THEOREM LatestIsCurrent == PollingSpec => []ShownIsCurrent
<1>1. PollingInv => ShownIsCurrent
  BY DEF PollingInv
<1>. QED  BY <1>1, PollingInvariant, PTL

\* When a device is reported offline, the last sample it gave is in the history, as
\* long as the writes of the local database succeed, as Keep takes them to.
THEOREM OutageEdgeIsKept == PollingSpec => []LastSampleKept
<1>1. PollingInv => LastSampleKept
  BY DEF PollingInv, KeptInv
<1>. QED  BY <1>1, PollingInvariant, PTL
================================================================================
