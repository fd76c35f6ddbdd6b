--------------------------- MODULE AlarmUploadProofs ---------------------------
(***************************************************************************)
(* Proofs about the alarm evaluator, alone and composed with the alarms    *)
(* channel, for any series, values, limit, delay, sources, batch size and  *)
(* limits of attempts and abandoned requests.  Of the evaluator: its two   *)
(* tables agree, an alarm starts and ends only after the whole delay, and  *)
(* an ended alarm is never touched again.  Of the channel: what the cloud  *)
(* holds was once true and never gets less, and the retention pass deletes *)
(* nothing the cloud does not have.                                        *)
(***************************************************************************)
EXTENDS AlarmUpload, SequenceTheorems, TLAPS

On == {"ALARM_ACTIVE", "PENDING_CLEAR"}

(* What OpenEventMatchesRow says of one series: its row tells which of its *)
(* events, of any source, are open.                                        *)
Agrees(s) ==
  IF alarm[s].state \in On
  THEN \E e \in DOMAIN events : /\ Open(s, Sources) = {e}
                                /\ events[e].source = alarm[s].source
  ELSE Open(s, Sources) = {}

(* pending_since never predates the readings it stands for: while a row is *)
(* pending, every reading since then has been on the same side of Limit.   *)
PendingInv ==
  \A s \in Series :
    /\ alarm[s].state = "PENDING_ALARM" => streak[s].over /\ age[s] <= streak[s].age
    /\ alarm[s].state = "PENDING_CLEAR" => ~streak[s].over /\ age[s] <= streak[s].age

EvalInv == /\ EvalTypeOK
           /\ \A s \in Series : Agrees(s)
           /\ PendingInv

--------------------------------------------------------------------------------
(* Facts about the table of events.                                         *)

LEMMA EventTable ==
  ASSUME EvalTypeOK
  PROVE  /\ DOMAIN events = 1..Len(events) /\ Len(events) \in Nat
         /\ \A e \in DOMAIN events : events[e] \in Event
BY LenProperties, ElementOfSeq DEF EvalTypeOK

(* The series-wise form of the invariant implies the one the runs check.    *)
LEMMA AgreesMatches ==
  ASSUME EvalTypeOK, \A s \in Series : Agrees(s)
  PROVE  OpenEventMatchesRow
<1>1. ASSUME NEW e \in DOMAIN events, ~events[e].ended
      PROVE  LET r == alarm[events[e].series]
             IN  r.state \in On /\ r.source = events[e].source
  <2>1. events[e].series \in Series /\ events[e].source \in Sources
    BY EventTable DEF Event
  <2>2. e \in Open(events[e].series, Sources)
    BY <1>1, <2>1 DEF Open
  <2>. QED  BY <2>1, <2>2 DEF Agrees
<1>2. ASSUME NEW s \in Series, alarm[s].state \in On
      PROVE  \E e \in DOMAIN events : Open(s, Sources) = {e}
  BY <1>2 DEF Agrees
<1>. QED  BY <1>1, <1>2 DEF OpenEventMatchesRow, On

(* An update in place keeps the table's type, its length and its keys.      *)
LEMMA UpdateKeepsTable ==
  ASSUME EvalTypeOK, NEW f, f \in [DOMAIN events -> Event], events' = f
  PROVE  events' \in Seq(Event) /\ DOMAIN events' = DOMAIN events
         /\ Len(events') = Len(events)
<1>1. f \in [1..Len(events) -> Event] /\ Len(events) \in Nat
  BY EventTable
<1>2. events' \in Seq(Event)
  BY <1>1, SeqDef
<1>. QED  BY <1>1, <1>2, LenProperties, EventTable

LEMMA EndShape ==
  ASSUME EvalTypeOK, NEW E \in SUBSET DOMAIN events, End(E) \/ EndQuietly(E)
  PROVE  /\ events' \in Seq(Event) /\ DOMAIN events' = DOMAIN events
         /\ Len(events') = Len(events)
         /\ \A e \in DOMAIN events : /\ events'[e].series = events[e].series
                                     /\ events'[e].source = events[e].source
                                     /\ events'[e].peak = events[e].peak
                                     /\ e \in E => events'[e].ended
                                     /\ e \notin E => events'[e].ended = events[e].ended
<1>1. \A e \in DOMAIN events : events[e] \in Event
  BY EventTable
<1>2. events' \in [DOMAIN events -> Event]
  <2>1. ASSUME NEW x \in Event
        PROVE  /\ [x EXCEPT !.ended = TRUE, !.synced = FALSE] \in Event
               /\ [x EXCEPT !.ended = TRUE] \in Event
    BY DEF Event
  <2>. QED  BY <1>1, <2>1 DEF End, EndQuietly
<1>3. \A e \in DOMAIN events : /\ events'[e].series = events[e].series
                               /\ events'[e].source = events[e].source
                               /\ events'[e].peak = events[e].peak
                               /\ e \in E => events'[e].ended
                               /\ e \notin E => events'[e].ended = events[e].ended
  <2>. TAKE e \in DOMAIN events
  <2>1. CASE e \notin E
    BY <2>1 DEF End, EndQuietly
  <2>2. CASE e \in E
    <3>1. \/ events'[e] = [events[e] EXCEPT !.ended = TRUE, !.synced = FALSE]
          \/ events'[e] = [events[e] EXCEPT !.ended = TRUE]
      BY <2>2 DEF End, EndQuietly
    <3>. QED  BY <1>1, <2>2, <3>1 DEF Event
  <2>. QED  BY <2>1, <2>2
<1>. QED  BY <1>2, <1>3, UpdateKeepsTable

LEMMA RaiseShape ==
  ASSUME EvalTypeOK, NEW E \in SUBSET DOMAIN events, NEW v \in Value, Raise(E, v)
  PROVE  /\ events' \in Seq(Event) /\ DOMAIN events' = DOMAIN events
         /\ Len(events') = Len(events)
         /\ \A e \in DOMAIN events : /\ events'[e].series = events[e].series
                                     /\ events'[e].source = events[e].source
                                     /\ events'[e].ended = events[e].ended
                                     /\ e \notin E => events'[e] = events[e]
<1>1. \A e \in DOMAIN events : events[e] \in Event
  BY EventTable
<1>2. events' \in [DOMAIN events -> Event]
  <2>1. ASSUME NEW x \in Event
        PROVE  [x EXCEPT !.synced = FALSE, !.peak = IF v > @ THEN v ELSE @] \in Event
    BY DEF Event
  <2>. QED  BY <1>1, <2>1 DEF Raise
<1>3. \A e \in DOMAIN events : /\ events'[e].series = events[e].series
                               /\ events'[e].source = events[e].source
                               /\ events'[e].ended = events[e].ended
                               /\ e \notin E => events'[e] = events[e]
  BY <1>1 DEF Raise, Event
<1>. QED  BY <1>2, <1>3, UpdateKeepsTable

LEMMA OpenShape ==
  ASSUME EvalTypeOK, NEW s \in Series, NEW v \in Value, OpenEvent(s, v)
  PROVE  /\ events' \in Seq(Event) /\ Len(events') <= MaxEvents
         /\ DOMAIN events' = DOMAIN events \cup {Len(events) + 1}
         /\ Len(events) + 1 \notin DOMAIN events
         /\ \A e \in DOMAIN events : events'[e] = events[e]
         /\ LET new == events'[Len(events) + 1]
            IN  new.series = s /\ new.source = source /\ ~new.ended /\ ~new.synced
<1>. DEFINE new == [series |-> s, source |-> source, ended |-> FALSE,
                    peak |-> v, synced |-> FALSE]
<1>1. new \in Event
  BY DEF Event, EvalTypeOK
<1>2. events \in Seq(Event) /\ events' = Append(events, new) /\ Len(events) < MaxEvents
  BY DEF OpenEvent, EvalTypeOK
<1>. HIDE DEF new
<1>3. /\ events' \in Seq(Event) /\ Len(events') = Len(events) + 1
      /\ \A i \in 1..Len(events) : events'[i] = events[i]
      /\ events'[Len(events) + 1] = new
  BY <1>1, <1>2, AppendProperties
<1>4. Len(events) \in Nat /\ DOMAIN events = 1..Len(events)
  BY EventTable
<1>5. DOMAIN events' = 1..(Len(events) + 1)
  BY <1>3, LenProperties
<1>6. new.series = s /\ new.source = source /\ ~new.ended /\ ~new.synced
  BY DEF new
<1>. QED
  BY <1>2, <1>3, <1>4, <1>5, <1>6, EvaluatorAssumption
--------------------------------------------------------------------------------
(* Facts about one turn of the loop.                                        *)

RowStates == {"absent", "NORMAL", "PENDING_ALARM", "ALARM_ACTIVE", "PENDING_CLEAR"}

LEMMA WriteRowShape ==
  ASSUME EvalTypeOK, NEW s \in Series, NEW state \in RowStates, WriteRow(s, state)
  PROVE  /\ alarm' \in [Series -> Row] /\ age' \in [Series -> 0..Delay]
         /\ alarm'[s].state = state /\ alarm'[s].source = source
         /\ age'[s] = IF state = alarm[s].state /\ source = alarm[s].source
                      THEN age[s] ELSE 0
         /\ \A x \in Series \ {s} : alarm'[x] = alarm[x] /\ age'[x] = age[x]
<1>1. [state |-> state, source |-> source] \in Row
  BY DEF Row, RowStates, EvalTypeOK
<1>2. 0 \in 0..Delay
  BY EvaluatorAssumption
<1>. QED  BY <1>1, <1>2 DEF WriteRow, EvalTypeOK

LEMMA ObserveShape ==
  ASSUME EvalTypeOK, NEW s \in Series, NEW v \in Value, Observe(s, v)
  PROVE  /\ streak' \in [Series -> [over : BOOLEAN, age : 0..Delay]]
         /\ streak'[s].over <=> Over(v)
         /\ (streak[s].over <=> Over(v)) => streak'[s] = streak[s]
         /\ \A x \in Series \ {s} : streak'[x] = streak[x]
<1>. DEFINE new == IF streak[s].over = Over(v) THEN streak[s]
                   ELSE [over |-> Over(v), age |-> 0]
<1>1. Over(v) \in BOOLEAN /\ streak[s].over \in BOOLEAN
  BY DEF Over, EvalTypeOK
<1>2. 0 \in 0..Delay
  BY EvaluatorAssumption
<1>3. streak' = [streak EXCEPT ![s] = new]
  BY DEF Observe
<1>4. new \in [over : BOOLEAN, age : 0..Delay]
  BY <1>1, <1>2 DEF EvalTypeOK
<1>5. new.over <=> Over(v)
  BY <1>1
<1>6. (streak[s].over <=> Over(v)) => new = streak[s]
  BY <1>1
<1>. HIDE DEF new
<1>. QED  BY <1>3, <1>4, <1>5, <1>6 DEF EvalTypeOK

(* A pending state is entered, and stays, only with a reading on its side.  *)
LEMMA PendingKept ==
  ASSUME EvalTypeOK, PendingInv, NEW s \in Series, NEW v \in Value,
         NEW state \in RowStates, WriteRow(s, state), Observe(s, v),
         state = "PENDING_ALARM" => Over(v), state = "PENDING_CLEAR" => ~Over(v)
  PROVE  PendingInv'
<1>1. 0 <= streak'[s].age /\ age[s] \in Nat
  BY ObserveShape DEF EvalTypeOK
<1>2. state = "PENDING_ALARM" => streak'[s].over /\ age'[s] <= streak'[s].age
  BY <1>1, WriteRowShape, ObserveShape DEF PendingInv
<1>3. state = "PENDING_CLEAR" => ~streak'[s].over /\ age'[s] <= streak'[s].age
  BY <1>1, WriteRowShape, ObserveShape DEF PendingInv
<1>. QED  BY <1>2, <1>3, WriteRowShape, ObserveShape DEF PendingInv

(* A step that ends all the open events of a series whose row then says     *)
(* that no alarm is on.                                                     *)
LEMMA EndKeepsAgreement ==
  ASSUME EvalTypeOK, \A x \in Series : Agrees(x), NEW s \in Series,
         NEW E, E = Open(s, Sources), End(E) \/ EndQuietly(E),
         alarm'[s].state \notin On, \A x \in Series \ {s} : alarm'[x] = alarm[x]
  PROVE  \A x \in Series : Agrees(x)'
<1>1. E \in SUBSET DOMAIN events
  BY DEF Open
<1>2. /\ DOMAIN events' = DOMAIN events
      /\ \A e \in DOMAIN events : /\ events'[e].series = events[e].series
                                  /\ events'[e].source = events[e].source
                                  /\ e \in E => events'[e].ended
                                  /\ e \notin E => events'[e].ended = events[e].ended
  BY <1>1, EndShape
<1>3. Open(s, Sources)' = {}
  BY <1>2 DEF Open
<1>4. \A x \in Series \ {s} : Open(x, Sources)' = Open(x, Sources)
  BY <1>2 DEF Open
<1>. QED  BY <1>2, <1>3, <1>4 DEF Agrees

(* A step that opens and ends nothing, and leaves the alarm on or off.      *)
LEMMA KeepAgreement ==
  ASSUME EvalTypeOK, \A x \in Series : Agrees(x), NEW s \in Series,
         DOMAIN events' = DOMAIN events,
         \A e \in DOMAIN events : /\ events'[e].series = events[e].series
                                  /\ events'[e].source = events[e].source
                                  /\ events'[e].ended = events[e].ended,
         alarm'[s].state \in On <=> alarm[s].state \in On,
         alarm[s].state \in On => alarm'[s].source = alarm[s].source,
         \A x \in Series \ {s} : alarm'[x] = alarm[x]
  PROVE  \A x \in Series : Agrees(x)'
<1>1. \A x \in Series : Open(x, Sources)' = Open(x, Sources)
  BY DEF Open
<1>. QED  BY <1>1 DEF Agrees

(* A step that opens an event for a series without one.                     *)
LEMMA OpenKeepsAgreement ==
  ASSUME EvalTypeOK, \A x \in Series : Agrees(x), NEW s \in Series, NEW v \in Value,
         OpenEvent(s, v), alarm[s].state \notin On, alarm'[s].state \in On,
         alarm'[s].source = source, \A x \in Series \ {s} : alarm'[x] = alarm[x]
  PROVE  \A x \in Series : Agrees(x)'
<1>. DEFINE new == Len(events) + 1
<1>1. /\ DOMAIN events' = DOMAIN events \cup {new} /\ new \notin DOMAIN events
      /\ \A e \in DOMAIN events : events'[e] = events[e]
      /\ events'[new].series = s /\ events'[new].source = source /\ ~events'[new].ended
  BY OpenShape
<1>. HIDE DEF new
<1>2. source \in Sources
  BY DEF EvalTypeOK
<1>3. Open(s, Sources) = {}
  BY DEF Agrees
<1>4. Open(s, Sources)' = {new}
  BY <1>1, <1>2, <1>3 DEF Open
<1>5. \A x \in Series \ {s} : Open(x, Sources)' = Open(x, Sources)
  BY <1>1 DEF Open
<1>6. Agrees(s)'
  BY <1>1, <1>4 DEF Agrees
<1>7. ASSUME NEW x \in Series \ {s} PROVE Agrees(x)'
  BY <1>1, <1>5 DEF Agrees, Open
<1>. QED  BY <1>6, <1>7
--------------------------------------------------------------------------------
LEMMA EvalInitInv == EvalInit => EvalInv
<1>. SUFFICES ASSUME EvalInit PROVE EvalInv
  OBVIOUS
<1>1. events \in Seq(Event) /\ Len(events) = 0 /\ DOMAIN events = {}
  BY EmptySeq, LenProperties DEF EvalInit
<1>2. EvalTypeOK
  <2>1. \A s \in Series : alarm[s] \in Row
    BY DEF EvalInit, Row
  <2>2. rule \in [Series -> BOOLEAN]
    BY DEF EvalInit
  <2>3. age \in [Series -> 0..Delay] /\ Len(events) <= MaxEvents
    BY <1>1, EvaluatorAssumption DEF EvalInit
  <2>4. streak \in [Series -> [over : BOOLEAN, age : 0..Delay]]
    BY EvaluatorAssumption DEF EvalInit
  <2>. QED  BY <1>1, <2>1, <2>2, <2>3, <2>4 DEF EvalInit, EvalTypeOK
<1>3. \A s \in Series : Agrees(s)
  BY <1>1 DEF EvalInit, Agrees, On, Open
<1>4. PendingInv
  BY DEF EvalInit, PendingInv
<1>. QED  BY <1>2, <1>3, <1>4 DEF EvalInv

LEMMA RuleOffStep ==
  ASSUME EvalInv, NEW s \in Series, NEW v \in Value, RuleOff(s), Observe(s, v),
         UNCHANGED <<rule, source>>
  PROVE  EvalInv'
<1>. EvalTypeOK /\ PendingInv /\ \A x \in Series : Agrees(x)
  BY DEF EvalInv
<1>1. /\ alarm' = [alarm EXCEPT ![s] = [@ EXCEPT !.state = "absent"]]
      /\ age' = age /\ End(Open(s, Sources))
  BY DEF RuleOff
<1>2. [alarm[s] EXCEPT !.state = "absent"] \in Row
  BY DEF EvalTypeOK, Row
<1>3. /\ alarm' \in [Series -> Row] /\ alarm'[s].state = "absent"
      /\ \A x \in Series \ {s} : alarm'[x] = alarm[x]
  BY <1>1, <1>2 DEF EvalTypeOK, Row
<1>4. Open(s, Sources) \in SUBSET DOMAIN events
  BY DEF Open
<1>5. EvalTypeOK'
  BY <1>1, <1>3, <1>4, EndShape, ObserveShape DEF EvalTypeOK
<1>6. \A x \in Series : Agrees(x)'
  BY <1>1, <1>3, EndKeepsAgreement DEF On
<1>7. PendingInv'
  BY <1>1, <1>3, ObserveShape DEF PendingInv
<1>. QED  BY <1>5, <1>6, <1>7 DEF EvalInv

(* The turns that write the row back, by what they do to the events.        *)
LEMMA WrittenStep ==
  ASSUME EvalInv, NEW s \in Series, NEW v \in Value, Observe(s, v),
         UNCHANGED <<rule, source>>,
         NEW state \in RowStates, WriteRow(s, state),
         state = "PENDING_ALARM" => Over(v), state = "PENDING_CLEAR" => ~Over(v),
         events' \in Seq(Event), Len(events') <= MaxEvents,
         \A x \in Series : Agrees(x)'
  PROVE  EvalInv'
<1>1. EvalTypeOK /\ PendingInv
  BY DEF EvalInv
<1>2. EvalTypeOK'
  BY <1>1, WriteRowShape, ObserveShape DEF EvalTypeOK
<1>3. PendingInv'
  BY <1>1, PendingKept
<1>. QED  BY <1>2, <1>3 DEF EvalInv

LEMMA SourceChangedStep ==
  ASSUME EvalInv, NEW s \in Series, NEW v \in Value, SourceChanged(s, v), Observe(s, v),
         UNCHANGED <<rule, source>>
  PROVE  EvalInv'
<1>. DEFINE state == IF Over(v) THEN "PENDING_ALARM" ELSE "NORMAL"
            E == Open(s, {alarm[s].source})
<1>1. EvalTypeOK /\ PendingInv /\ \A x \in Series : Agrees(x)
  BY DEF EvalInv
<1>2. EndQuietly(E) /\ WriteRow(s, state)
  BY DEF SourceChanged
<1>3. state \in RowStates /\ state \notin On
  BY DEF RowStates, On
<1>4. E = Open(s, Sources)
  <2>1. alarm[s].source \in Sources
    BY <1>1 DEF EvalTypeOK, Row
  <2>2. E = {e \in Open(s, Sources) : events[e].source = alarm[s].source}
    BY <2>1 DEF Open
  <2>. QED  BY <1>1, <2>2 DEF Agrees
<1>5. E \in SUBSET DOMAIN events
  BY DEF Open
<1>. HIDE DEF state, E
<1>6. events' \in Seq(Event) /\ Len(events') <= MaxEvents
  BY <1>1, <1>2, <1>5, EndShape DEF EvalTypeOK
<1>7. \A x \in Series : Agrees(x)'
  BY <1>1, <1>2, <1>3, <1>4, WriteRowShape, EndKeepsAgreement
<1>8. (state = "PENDING_ALARM" => Over(v)) /\ state # "PENDING_CLEAR"
  BY DEF state
<1>. QED  BY <1>2, <1>3, <1>6, <1>7, <1>8, WrittenStep

(* The row changes, but neither the events nor whether the alarm is on.     *)
LEMMA QuietStep ==
  ASSUME EvalInv, NEW s \in Series, NEW v \in Value, Observe(s, v),
         UNCHANGED <<rule, source, events>>,
         NEW state \in RowStates, WriteRow(s, state),
         state = "PENDING_ALARM" => Over(v), state = "PENDING_CLEAR" => ~Over(v),
         state \in On <=> alarm[s].state \in On,
         alarm[s].state \in On => alarm[s].source = source
  PROVE  EvalInv'
<1>1. EvalTypeOK /\ \A x \in Series : Agrees(x)
  BY DEF EvalInv
<1>2. \A x \in Series : Agrees(x)'
  BY <1>1, WriteRowShape, KeepAgreement
<1>3. events' \in Seq(Event) /\ Len(events') <= MaxEvents
  BY <1>1 DEF EvalTypeOK
<1>. QED  BY <1>2, <1>3, WrittenStep

LEMMA FromNormalStep ==
  ASSUME EvalInv, NEW s \in Series, NEW v \in Value, FromNormal(s, v), Observe(s, v),
         UNCHANGED <<rule, source>>
  PROVE  EvalInv'
<1>. DEFINE state == IF Over(v) THEN "PENDING_ALARM" ELSE "NORMAL"
<1>1. WriteRow(s, state) /\ events' = events /\ alarm[s].state \in {"absent", "NORMAL"}
  BY DEF FromNormal, InState
<1>2. state \in RowStates /\ state \notin On /\ alarm[s].state \notin On
  BY <1>1 DEF RowStates, On
<1>3. (state = "PENDING_ALARM" => Over(v)) /\ state # "PENDING_CLEAR"
  OBVIOUS
<1>. HIDE DEF state
<1>. QED  BY <1>1, <1>2, <1>3, QuietStep

LEMMA FromPendingAlarmStep ==
  ASSUME EvalInv, NEW s \in Series, NEW v \in Value, FromPendingAlarm(s, v), Observe(s, v),
         UNCHANGED <<rule, source>>
  PROVE  EvalInv'
<1>1. EvalTypeOK /\ \A x \in Series : Agrees(x)
  BY DEF EvalInv
<1>2. alarm[s].state = "PENDING_ALARM" /\ alarm[s].state \notin On
  BY DEF FromPendingAlarm, InState, On
<1>3. CASE Over(v) /\ OpenEvent(s, v) /\ WriteRow(s, "ALARM_ACTIVE")
  <2>1. "ALARM_ACTIVE" \in RowStates /\ "ALARM_ACTIVE" \in On
    BY DEF RowStates, On
  <2>2. events' \in Seq(Event) /\ Len(events') <= MaxEvents
    BY <1>1, <1>3, OpenShape
  <2>3. \A x \in Series : Agrees(x)'
    BY <1>1, <1>2, <1>3, <2>1, WriteRowShape, OpenKeepsAgreement
  <2>. QED  BY <1>3, <2>1, <2>2, <2>3, WrittenStep
<1>4. CASE ~Over(v) /\ WriteRow(s, "NORMAL") /\ events' = events
  <2>1. "NORMAL" \in RowStates /\ "NORMAL" \notin On
    BY DEF RowStates, On
  <2>. QED  BY <1>2, <1>4, <2>1, QuietStep
<1>5. CASE Over(v) /\ WriteRow(s, "PENDING_ALARM") /\ events' = events
  <2>1. "PENDING_ALARM" \in RowStates /\ "PENDING_ALARM" \notin On
    BY DEF RowStates, On
  <2>. QED  BY <1>2, <1>5, <2>1, QuietStep
<1>. QED  BY <1>3, <1>4, <1>5 DEF FromPendingAlarm

LEMMA FromActiveStep ==
  ASSUME EvalInv, NEW s \in Series, NEW v \in Value, FromActive(s, v), Observe(s, v),
         UNCHANGED <<rule, source>>
  PROVE  EvalInv'
<1>1. EvalTypeOK /\ \A x \in Series : Agrees(x)
  BY DEF EvalInv
<1>2. alarm[s].state \in On /\ alarm[s].source = source
  BY DEF FromActive, InState, On
<1>3. {"ALARM_ACTIVE", "PENDING_CLEAR"} \subseteq RowStates \cap On
  BY DEF RowStates, On
<1>4. CASE Over(v) /\ Raise(Open(s, {source}), v) /\ WriteRow(s, "ALARM_ACTIVE")
  <2>1. Open(s, {source}) \in SUBSET DOMAIN events
    BY DEF Open
  <2>2. /\ events' \in Seq(Event) /\ Len(events') <= MaxEvents
        /\ DOMAIN events' = DOMAIN events
        /\ \A e \in DOMAIN events : /\ events'[e].series = events[e].series
                                    /\ events'[e].source = events[e].source
                                    /\ events'[e].ended = events[e].ended
    BY <1>1, <1>4, <2>1, RaiseShape DEF EvalTypeOK
  <2>3. \A x \in Series : Agrees(x)'
    BY <1>1, <1>2, <1>3, <1>4, <2>2, WriteRowShape, KeepAgreement
  <2>. QED  BY <1>3, <1>4, <2>2, <2>3, WrittenStep
<1>5. CASE ~Over(v) /\ WriteRow(s, "PENDING_CLEAR") /\ events' = events
  BY <1>2, <1>3, <1>5, QuietStep
<1>. QED  BY <1>4, <1>5 DEF FromActive

LEMMA FromPendingClearStep ==
  ASSUME EvalInv, NEW s \in Series, NEW v \in Value, FromPendingClear(s, v), Observe(s, v),
         UNCHANGED <<rule, source>>
  PROVE  EvalInv'
<1>1. EvalTypeOK /\ \A x \in Series : Agrees(x)
  BY DEF EvalInv
<1>2. alarm[s].state \in On /\ alarm[s].source = source
  BY DEF FromPendingClear, InState, On
<1>3. {"ALARM_ACTIVE", "PENDING_CLEAR"} \subseteq RowStates \cap On
  BY DEF RowStates, On
<1>4. CASE Over(v) /\ WriteRow(s, "ALARM_ACTIVE") /\ events' = events
  BY <1>2, <1>3, <1>4, QuietStep
<1>5. CASE ~Over(v) /\ WriteRow(s, "PENDING_CLEAR") /\ events' = events
  BY <1>2, <1>3, <1>5, QuietStep
<1>6. CASE ~Over(v) /\ End(Open(s, {source})) /\ WriteRow(s, "NORMAL")
  <2>1. "NORMAL" \in RowStates /\ "NORMAL" \notin On
    BY DEF RowStates, On
  <2>2. Open(s, {source}) = Open(s, Sources)
    <3>1. source \in Sources
      BY <1>1 DEF EvalTypeOK
    <3>2. Open(s, {source}) = {e \in Open(s, Sources) : events[e].source = source}
      BY <3>1 DEF Open
    <3>. QED  BY <1>1, <1>2, <3>2 DEF Agrees
  <2>3. Open(s, Sources) \in SUBSET DOMAIN events
    BY DEF Open
  <2>4. events' \in Seq(Event) /\ Len(events') <= MaxEvents
    BY <1>1, <1>6, <2>2, <2>3, EndShape DEF EvalTypeOK
  <2>5. \A x \in Series : Agrees(x)'
    BY <1>1, <1>6, <2>1, <2>2, WriteRowShape, EndKeepsAgreement
  <2>. QED  BY <1>6, <2>1, <2>4, <2>5, WrittenStep
<1>. QED  BY <1>4, <1>5, <1>6 DEF FromPendingClear

LEMMA TickStep ==
  ASSUME EvalInv, Tick
  PROVE  EvalInv'
<1>1. EvalTypeOK /\ PendingInv /\ \A x \in Series : Agrees(x)
  BY DEF EvalInv
<1>2. UNCHANGED <<alarm, rule, source, events>>
  BY DEF Tick
<1>. DEFINE Older(n) == IF n < Delay THEN n + 1 ELSE Delay
<1>3. age' = [s \in Series |-> Older(age[s])]
  BY DEF Tick
<1>4. streak' = [s \in Series |-> [streak[s] EXCEPT !.age = Older(@)]]
  BY DEF Tick
<1>5. \A n \in 0..Delay : Older(n) \in 0..Delay
  BY EvaluatorAssumption
<1>6. \A m, n \in 0..Delay : m <= n => Older(m) <= Older(n)
  BY EvaluatorAssumption
<1>. HIDE DEF Older
<1>7. \A s \in Series : /\ age[s] \in 0..Delay /\ streak[s].age \in 0..Delay
                        /\ streak[s] \in [over : BOOLEAN, age : 0..Delay]
  BY <1>1 DEF EvalTypeOK
<1>8. \A s \in Series : /\ streak'[s] \in [over : BOOLEAN, age : 0..Delay]
                        /\ streak'[s].over = streak[s].over
                        /\ streak'[s].age = Older(streak[s].age)
  BY <1>4, <1>5, <1>7
<1>9. EvalTypeOK'
  <2>1. streak' \in [Series -> [over : BOOLEAN, age : 0..Delay]]
    BY <1>4, <1>8
  <2>2. age' \in [Series -> 0..Delay]
    BY <1>3, <1>5, <1>7
  <2>. QED  BY <1>1, <1>2, <2>1, <2>2 DEF EvalTypeOK
<1>10. PendingInv'
  BY <1>1, <1>2, <1>3, <1>6, <1>7, <1>8 DEF PendingInv
<1>11. \A x \in Series : Agrees(x)'
  BY <1>1, <1>2 DEF Agrees, Open
<1>. QED  BY <1>9, <1>10, <1>11 DEF EvalInv

(* A new configuration, or a restart, touches neither table.                *)
LEMMA OutsideStep ==
  ASSUME EvalInv, \/ \E s \in Series : Reconfigure(s)
                  \/ \E src \in Sources : RestartWith(src)
  PROVE  EvalInv'
<1>1. EvalTypeOK /\ PendingInv /\ \A x \in Series : Agrees(x)
  BY DEF EvalInv
<1>2. UNCHANGED <<alarm, age, events, streak>>
  BY DEF Reconfigure, RestartWith
<1>3. rule' \in [Series -> BOOLEAN] /\ source' \in Sources
  <2>1. CASE \E s \in Series : Reconfigure(s)
    BY <1>1, <2>1 DEF Reconfigure, EvalTypeOK
  <2>2. CASE \E src \in Sources : RestartWith(src)
    BY <1>1, <2>2 DEF RestartWith, EvalTypeOK
  <2>. QED  BY <2>1, <2>2
<1>4. EvalTypeOK'
  BY <1>1, <1>2, <1>3 DEF EvalTypeOK
<1>5. PendingInv' /\ \A x \in Series : Agrees(x)'
  BY <1>1, <1>2 DEF PendingInv, Agrees, Open
<1>. QED  BY <1>4, <1>5 DEF EvalInv

LEMMA EvalNextInv == EvalInv /\ [EvalNext]_evalVars => EvalInv'
<1>. SUFFICES ASSUME EvalInv, [EvalNext]_evalVars PROVE EvalInv'
  OBVIOUS
<1>1. CASE UNCHANGED evalVars
  BY <1>1 DEF evalVars, EvalInv, EvalTypeOK, Agrees, Open, PendingInv
<1>2. ASSUME NEW s \in Series, NEW v \in Value, Evaluate(s, v) PROVE EvalInv'
  BY <1>2, RuleOffStep, SourceChangedStep, FromNormalStep, FromPendingAlarmStep,
     FromActiveStep, FromPendingClearStep DEF Evaluate
<1>. QED  BY <1>1, <1>2, TickStep, OutsideStep DEF EvalNext, EvalStep

LEMMA EvalInvariance == EvalSpec => []EvalInv
BY EvalInitInv, EvalNextInv, PTL DEF EvalSpec

--------------------------------------------------------------------------------
(***************************************************************************)
(* Types, and the bound on the events, hold in every behaviour.            *)
(***************************************************************************)
THEOREM EvaluatorTypeCorrect == EvalSpec => []EvalTypeOK
BY EvalInvariance, PTL DEF EvalInv

(***************************************************************************)
(* alarm_states and alarm_events never disagree.                           *)
(***************************************************************************)
THEOREM TablesAgree == EvalSpec => []OpenEventMatchesRow
<1>1. EvalInv => OpenEventMatchesRow
  BY AgreesMatches DEF EvalInv
<1>. QED  BY <1>1, EvalInvariance, PTL

--------------------------------------------------------------------------------
(* The three ways in which a step changes the table of events: it opens one *)
(* for a series that has been over the limit for the whole delay, it raises *)
(* the peak of open ones, or it ends open ones for a reason.                *)

Opens(s, v) == /\ OpenEvent(s, v)
               /\ streak'[s].over /\ streak'[s].age >= Delay

Ends(s, E) == /\ End(E) \/ EndQuietly(E)
              /\ E \subseteq Open(s, Sources)
              /\ \/ ~streak'[s].over /\ streak'[s].age >= Delay
                 \/ ~rule[s]
                 \/ \A e \in E : source # events[e].source

LEMMA EventsChange ==
  ASSUME EvalInv, [EvalNext]_evalVars
  PROVE  \/ events' = events
         \/ \E s \in Series, v \in Value : \/ Opens(s, v)
                                           \/ Raise(Open(s, {source}), v)
         \/ \E s \in Series : \E E \in SUBSET DOMAIN events : Ends(s, E)
<1>. EvalTypeOK /\ PendingInv
  BY DEF EvalInv
<1>. SUFFICES ASSUME NEW s \in Series, NEW v \in Value, Evaluate(s, v)
              PROVE  \/ events' = events
                     \/ Opens(s, v)
                     \/ Raise(Open(s, {source}), v)
                     \/ \E E \in SUBSET DOMAIN events : Ends(s, E)
  BY DEF EvalNext, EvalStep, Tick, Reconfigure, RestartWith, evalVars
<1>1. \A S \in SUBSET Sources : /\ Open(s, S) \in SUBSET DOMAIN events
                                /\ Open(s, S) \subseteq Open(s, Sources)
  BY DEF Open
<1>2. source \in Sources /\ alarm[s].source \in Sources
  BY DEF EvalTypeOK, Row
<1>3. age[s] \in 0..Delay /\ streak[s].age \in 0..Delay
  BY DEF EvalTypeOK
<1>4. Observe(s, v)
  BY DEF Evaluate
<1>5. CASE RuleOff(s)
  BY <1>1, <1>5 DEF RuleOff, Ends
<1>6. CASE SourceChanged(s, v)
  <2>. DEFINE E == Open(s, {alarm[s].source})
  <2>1. EndQuietly(E) /\ alarm[s].source # source
    BY <1>6 DEF SourceChanged
  <2>2. E \in SUBSET DOMAIN events /\ E \subseteq Open(s, Sources)
    BY <1>1, <1>2
  <2>3. \A e \in E : source # events[e].source
    BY <2>1 DEF Open
  <2>. HIDE DEF E
  <2>. QED  BY <2>1, <2>2, <2>3 DEF Ends
<1>7. CASE FromNormal(s, v)
  BY <1>7 DEF FromNormal
<1>8. CASE FromPendingAlarm(s, v)
  <2>1. events' = events \/ (Over(v) /\ age[s] >= Delay /\ OpenEvent(s, v))
    BY <1>8 DEF FromPendingAlarm
  <2>2. streak[s].over /\ age[s] <= streak[s].age
    BY <1>8 DEF FromPendingAlarm, InState, PendingInv
  <2>3. ASSUME Over(v), age[s] >= Delay
        PROVE  streak'[s].over /\ streak'[s].age >= Delay
    <3>1. streak'[s] = streak[s]
      BY <1>4, <2>2, <2>3, ObserveShape
    <3>. QED  BY <1>3, <2>2, <2>3, <3>1, EvaluatorAssumption
  <2>. QED  BY <2>1, <2>3 DEF Opens
<1>9. CASE FromActive(s, v)
  BY <1>9 DEF FromActive
<1>10. CASE FromPendingClear(s, v)
  <2>. DEFINE E == Open(s, {source})
  <2>1. events' = events \/ (~Over(v) /\ age[s] >= Delay /\ End(E))
    BY <1>10 DEF FromPendingClear
  <2>2. ~streak[s].over /\ age[s] <= streak[s].age
    BY <1>10 DEF FromPendingClear, InState, PendingInv
  <2>3. ASSUME ~Over(v), age[s] >= Delay
        PROVE  ~streak'[s].over /\ streak'[s].age >= Delay
    <3>1. streak'[s] = streak[s]
      BY <1>4, <2>2, <2>3, ObserveShape
    <3>. QED  BY <1>3, <2>2, <2>3, <3>1, EvaluatorAssumption
  <2>4. E \in SUBSET DOMAIN events /\ E \subseteq Open(s, Sources)
    BY <1>1, <1>2
  <2>. HIDE DEF E
  <2>. QED  BY <2>1, <2>3, <2>4 DEF Ends
<1>. QED  BY <1>5, <1>6, <1>7, <1>8, <1>9, <1>10 DEF Evaluate

(* The bodies of the evaluator's three action properties, each true of     *)
(* every step of the evaluator, whoever else takes steps beside it.         *)
OpensLate == \A e \in DOMAIN events' \ DOMAIN events :
               LET run == streak'[events'[e].series]
               IN  run.over /\ run.age >= Delay

EndsLate == \A e \in DOMAIN events :
              ~events[e].ended /\ events'[e].ended =>
                LET s == events[e].series
                IN  \/ ~streak'[s].over /\ streak'[s].age >= Delay
                    \/ ~rule[s]
                    \/ source # events[e].source

EndedKept == \A e \in DOMAIN events :
               events[e].ended => /\ e \in DOMAIN events'
                                  /\ events'[e].ended
                                  /\ events'[e].peak = events[e].peak

LEMMA EventsAreHistory ==
  ASSUME EvalInv, [EvalNext]_evalVars
  PROVE  OpensLate /\ EndsLate /\ EndedKept
<1>. EvalTypeOK
  BY DEF EvalInv
<1>. DEFINE Goal == OpensLate /\ EndsLate /\ EndedKept
<1>1. CASE events' = events
  BY <1>1 DEF OpensLate, EndsLate, EndedKept
<1>2. ASSUME NEW s \in Series, NEW v \in Value, Opens(s, v)
      PROVE  Goal
  <2>1. /\ DOMAIN events' = DOMAIN events \cup {Len(events) + 1}
        /\ \A e \in DOMAIN events : events'[e] = events[e]
        /\ events'[Len(events) + 1].series = s
    BY <1>2, OpenShape DEF Opens
  <2>2. streak'[s].over /\ streak'[s].age >= Delay
    BY <1>2 DEF Opens
  <2>. QED  BY <2>1, <2>2 DEF OpensLate, EndsLate, EndedKept
<1>3. ASSUME NEW s \in Series, NEW v \in Value, Raise(Open(s, {source}), v)
      PROVE  Goal
  <2>1. Open(s, {source}) \in SUBSET DOMAIN events
    BY DEF Open
  <2>2. /\ DOMAIN events' = DOMAIN events
        /\ \A e \in DOMAIN events : /\ events'[e].ended = events[e].ended
                                    /\ e \notin Open(s, {source}) => events'[e] = events[e]
    BY <1>3, <2>1, RaiseShape
  <2>3. \A e \in DOMAIN events : events[e].ended => e \notin Open(s, {source})
    BY DEF Open
  <2>. QED  BY <2>2, <2>3 DEF OpensLate, EndsLate, EndedKept
<1>4. ASSUME NEW s \in Series, NEW E \in SUBSET DOMAIN events, Ends(s, E)
      PROVE  Goal
  <2>1. /\ DOMAIN events' = DOMAIN events
        /\ \A e \in DOMAIN events : /\ events'[e].peak = events[e].peak
                                    /\ e \in E => events'[e].ended
                                    /\ e \notin E => events'[e].ended = events[e].ended
    BY <1>4, EndShape DEF Ends
  <2>2. \A e \in E : events[e].series = s /\ ~events[e].ended
    BY <1>4 DEF Ends, Open
  <2>3. \/ ~streak'[s].over /\ streak'[s].age >= Delay
        \/ ~rule[s]
        \/ \A e \in E : source # events[e].source
    BY <1>4 DEF Ends
  <2>. HIDE DEF Ends
  <2>4. OpensLate /\ EndedKept
    BY <2>1, <2>2 DEF OpensLate, EndedKept
  <2>5. EndsLate
    BY <2>1, <2>2, <2>3 DEF EndsLate
  <2>. QED  BY <2>4, <2>5
<1>. QED  BY <1>1, <1>2, <1>3, <1>4, EventsChange

(***************************************************************************)
(* An event is opened only after readings above the limit for the whole    *)
(* delay.                                                                  *)
(***************************************************************************)
THEOREM AlarmsAreReal == EvalSpec => NoFalseAlarm
<1>1. EvalInv /\ [EvalNext]_evalVars => OpensLate
  BY EventsAreHistory
<1>. QED  BY <1>1, EvalInvariance, PTL DEF EvalSpec, NoFalseAlarm, OpensLate

(***************************************************************************)
(* An event ends only after the whole delay without a reading above the    *)
(* limit, or because its rule or its source is gone.                       *)
(***************************************************************************)
THEOREM AlarmsEndInTime == EvalSpec => NoEarlyEnd
<1>1. EvalInv /\ [EvalNext]_evalVars => EndsLate
  BY EventsAreHistory
<1>. QED  BY <1>1, EvalInvariance, PTL DEF EvalSpec, NoEarlyEnd, EndsLate

(***************************************************************************)
(* An event that has ended is never opened again, nor its peak changed.    *)
(***************************************************************************)
THEOREM HistoryIsFinal == EvalSpec => EndedIsFinal
<1>1. EvalInv /\ [EvalNext]_evalVars => EndedKept
  BY EventsAreHistory
<1>. QED  BY <1>1, EvalInvariance, PTL DEF EvalSpec, EndedIsFinal, EndedKept

--------------------------------------------------------------------------------
(* The channel.                                                             *)

\* A snapshot of an event of a device as it is now, or as it once was.
Past(x) == /\ x.id \in DOMAIN events
           /\ events[x.id].source = "device"
           /\ x.ended => events[x.id].ended
           /\ x.peak <= events[x.id].peak

\* What is on its way was read from the table, each event once, and is not
\* quarantined.
RequestInv == /\ \A x \in sent \cup todo : Past(x) /\ attempts[x.id] < MaxAttempts
              /\ \A S \in late : \A x \in S : Past(x)
              /\ \A x, y \in sent \cup todo : x.id = y.id => x = y
              /\ sent \cap todo = {}
              /\ sent = {} => todo = {} /\ reply = "none"

\* The collector takes for synced only what the cloud has stored.
SyncedInv == /\ reply = "ok" => \A x \in sent : cloud[x.id].stored
             /\ \A e \in DOMAIN events : events[e].synced => cloud[e].stored
             /\ \A e \in EventId : cloud[e].ended => cloud[e].stored

AlarmInv == /\ EvalInv /\ AlarmTypeOK /\ RequestInv /\ SyncedInv
            /\ PrunedIsStored /\ CloudNotAhead

USE DEF channel

--------------------------------------------------------------------------------
(* The evaluator.                                                           *)

\* The table only grows, alarms only end, peaks only rise, and nothing is taken
\* for synced.
LEMMA EventsGrow ==
  ASSUME EvalInv, [EvalNext]_evalVars
  PROVE  /\ DOMAIN events \subseteq DOMAIN events'
         /\ \A e \in DOMAIN events : /\ events'[e].source = events[e].source
                                     /\ events[e].ended => events'[e].ended
                                     /\ events[e].peak <= events'[e].peak
         /\ \A e \in DOMAIN events' : events'[e].synced =>
              e \in DOMAIN events /\ events[e].synced
<1>. DEFINE Grown == /\ DOMAIN events \subseteq DOMAIN events'
                     /\ \A e \in DOMAIN events : /\ events'[e].source = events[e].source
                                                 /\ events[e].ended => events'[e].ended
                                                 /\ events[e].peak <= events'[e].peak
                     /\ \A e \in DOMAIN events' : events'[e].synced =>
                          e \in DOMAIN events /\ events[e].synced
<1>1. EvalTypeOK
  BY DEF EvalInv
<1>2. \A e \in DOMAIN events : events[e] \in Event
  BY <1>1, EventTable
<1>3. \A e \in DOMAIN events : events[e].peak \in Nat
  BY <1>2, EvaluatorAssumption DEF Event
<1>4. CASE events' = events
  BY <1>3, <1>4
<1>5. ASSUME NEW s \in Series, NEW v \in Value, Opens(s, v)
      PROVE  Grown
  BY <1>1, <1>3, <1>5, OpenShape DEF Opens
<1>6. ASSUME NEW s \in Series, NEW v \in Value, Raise(Open(s, {source}), v)
      PROVE  Grown
  <2>. DEFINE E == Open(s, {source})
  <2>1. E \in SUBSET DOMAIN events /\ v \in Nat
    BY EvaluatorAssumption DEF Open
  <2>2. Raise(E, v)
    BY <1>6
  <2>. HIDE DEF E
  <2>3. DOMAIN events' = DOMAIN events
    BY <1>1, <2>1, <2>2, RaiseShape
  <2>4. ASSUME NEW e \in DOMAIN events
        PROVE  /\ events'[e].source = events[e].source
               /\ events[e].ended => events'[e].ended
               /\ events[e].peak <= events'[e].peak
               /\ events'[e].synced => events[e].synced
    <3>1. events[e] \in Event /\ events[e].peak \in Nat
      BY <1>2, <1>3
    <3>2. CASE e \in E
      <4>1. events'[e] = [events[e] EXCEPT !.synced = FALSE,
                                           !.peak = IF v > @ THEN v ELSE @]
        BY <2>2, <3>2 DEF Raise
      <4>. QED  BY <2>1, <3>1, <4>1 DEF Event
    <3>3. CASE e \notin E
      <4>1. events'[e] = events[e]
        BY <2>2, <3>3 DEF Raise
      <4>. QED  BY <3>1, <4>1
    <3>. QED  BY <3>2, <3>3
  <2>. QED  BY <2>3, <2>4
<1>7. ASSUME NEW s \in Series, NEW E \in SUBSET DOMAIN events, Ends(s, E)
      PROVE  Grown
  <2>1. End(E) \/ EndQuietly(E)
    BY <1>7 DEF Ends
  <2>2. /\ DOMAIN events' = DOMAIN events
        /\ \A e \in DOMAIN events : /\ events'[e].source = events[e].source
                                    /\ events'[e].peak = events[e].peak
                                    /\ events[e].ended => events'[e].ended
    BY <1>1, <2>1, EndShape
  <2>3. \A e \in DOMAIN events : events'[e].synced => events[e].synced
    BY <1>2, <2>1 DEF End, EndQuietly, Event
  <2>. QED  BY <1>3, <2>2, <2>3
<1>. QED  BY <1>4, <1>5, <1>6, <1>7, EventsChange

LEMMA PeaksAreNumbers ==
  ASSUME EvalTypeOK, EvalTypeOK'
  PROVE  /\ \A e \in DOMAIN events : events[e].peak \in Nat
         /\ \A e \in DOMAIN events' : events'[e].peak \in Nat
<1>1. \A e \in DOMAIN events : events[e] \in Event
  BY EventTable
<1>2. events' \in Seq(Event)
  BY DEF EvalTypeOK
<1>3. \A e \in DOMAIN events' : events'[e] \in Event
  BY <1>2, LenProperties, ElementOfSeq
<1>. QED  BY <1>1, <1>3, EvaluatorAssumption DEF Event

LEMMA PeaksStored ==
  ASSUME AlarmTypeOK
  PROVE  /\ \A e \in EventId : cloud[e].peak \in Nat
         /\ \A x \in Snapshot : x.peak \in Nat
<1>1. \A e \in EventId : cloud[e] \in [ended : BOOLEAN, peak : Value \cup {0}, stored : BOOLEAN]
  BY DEF AlarmTypeOK
<1>2. Value \subseteq Nat /\ Value \cup {0} \subseteq Nat
  BY EvaluatorAssumption
<1>3. \A e \in EventId : cloud[e].peak \in Value \cup {0}
  BY <1>1
<1>4. \A x \in Snapshot : x.peak \in Value
  BY DEF Snapshot
<1>. QED  BY <1>2, <1>3, <1>4

\* What is past stays past while the table grows.
LEMMA PastIsKept ==
  ASSUME EvalTypeOK, EvalTypeOK', DOMAIN events \subseteq DOMAIN events',
         \A e \in DOMAIN events : /\ events'[e].source = events[e].source
                                  /\ events[e].ended => events'[e].ended
                                  /\ events[e].peak <= events'[e].peak,
         NEW x \in Snapshot, Past(x)
  PROVE  Past(x)'
<1>1. /\ events[x.id].peak \in Nat /\ events'[x.id].peak \in Nat /\ x.peak \in Nat
      /\ x.id \in DOMAIN events
  BY PeaksAreNumbers, EvaluatorAssumption DEF Past, Snapshot
<1>. QED  BY <1>1 DEF Past

LEMMA EvaluatorKeepsInv ==
  ASSUME AlarmInv, Evaluator
  PROVE  AlarmInv'
<1>. USE DEF AlarmInv
<1>1. [EvalNext]_evalVars /\ UNCHANGED <<channel, late, attempts, gone, cloud, uncovered, restarts>>
  BY DEF Evaluator, EvalNext
<1>2. EvalInv' /\ EvalTypeOK /\ EvalTypeOK'
  BY <1>1, EvalNextInv DEF EvalInv
<1>3. /\ DOMAIN events \subseteq DOMAIN events'
      /\ \A e \in DOMAIN events : /\ events'[e].source = events[e].source
                                  /\ events[e].ended => events'[e].ended
                                  /\ events[e].peak <= events'[e].peak
      /\ \A e \in DOMAIN events' : events'[e].synced => e \in DOMAIN events /\ events[e].synced
  BY <1>1, EventsGrow
<1>4. AlarmTypeOK'
  BY <1>1, <1>2, <1>3 DEF AlarmTypeOK
<1>5. \A x \in Snapshot : Past(x) => Past(x)'
  BY <1>2, <1>3, PastIsKept
<1>6. RequestInv'
  BY <1>1, <1>5 DEF RequestInv, AlarmTypeOK
<1>7. SyncedInv' /\ PrunedIsStored'
  BY <1>1, <1>3 DEF SyncedInv, PrunedIsStored
<1>8. CloudNotAhead'
  <2>1. SUFFICES ASSUME NEW e \in EventId, cloud[e].stored
                 PROVE  /\ e \in DOMAIN events'
                        /\ events'[e].source = "device"
                        /\ cloud[e].ended => events'[e].ended
                        /\ cloud[e].peak <= events'[e].peak
    BY <1>1 DEF CloudNotAhead
  <2>2. /\ e \in DOMAIN events /\ events[e].source = "device"
        /\ cloud[e].ended => events[e].ended
        /\ cloud[e].peak <= events[e].peak
    BY <2>1 DEF CloudNotAhead
  <2>3. cloud[e].peak \in Nat /\ events[e].peak \in Nat /\ events'[e].peak \in Nat
    BY <1>2, <1>3, <2>2, PeaksAreNumbers, PeaksStored
  <2>. QED  BY <1>3, <2>2, <2>3
<1>. QED  BY <1>2, <1>4, <1>6, <1>7, <1>8

LEMMA AlarmInitInv == AlarmInit => AlarmInv
<1>. SUFFICES ASSUME AlarmInit PROVE AlarmInv
  OBVIOUS
<1>. USE DEF AlarmInit
<1>1. EvalInv /\ EvalTypeOK
  BY EvalInitInv DEF EvalInv
<1>2. DOMAIN events = {}
  BY DEF EvalInit
<1>3. AlarmTypeOK
  BY <1>1, ChannelAssumption DEF AlarmTypeOK, NoRow
<1>4. RequestInv /\ SyncedInv
  BY <1>2 DEF RequestInv, SyncedInv, NoRow
<1>5. PrunedIsStored /\ CloudNotAhead
  BY DEF PrunedIsStored, CloudNotAhead, NoRow
<1>. QED  BY <1>1, <1>3, <1>4, <1>5 DEF AlarmInv

--------------------------------------------------------------------------------
(* The upload thread.                                                       *)

\* A step that leaves both tables alone and goes on with part of the rows it has.
LEMMA NarrowKeepsInv ==
  ASSUME AlarmInv,
         UNCHANGED <<evalVars, gone, cloud, uncovered>>, restarts' \in 0..MaxRestarts,
         attempts' \in [EventId -> 0..MaxAttempts],
         \A x \in sent' \cup todo' : attempts'[x.id] < MaxAttempts,
         late' \in SUBSET (SUBSET Snapshot),
         \A S \in late' : S \in late \/ S = sent,
         sent' \cup todo' \subseteq sent \cup todo, sent' \cap todo' = {},
         sent' = {} => todo' = {} /\ reply' = "none",
         reply' \in {"none", "error"}
  PROVE  AlarmInv'
<1>. USE DEF AlarmInv
<1>1. EvalTypeOK' /\ EvalInv'
  BY DEF evalVars, EvalInv, EvalTypeOK, Agrees, Open, PendingInv
<1>2. AlarmTypeOK'
  BY <1>1 DEF AlarmTypeOK, evalVars
<1>3. \A x : Past(x) <=> Past(x)'
  BY DEF Past, evalVars
<1>4. RequestInv'
  BY <1>3 DEF RequestInv
<1>5. SyncedInv' /\ PrunedIsStored' /\ CloudNotAhead'
  BY DEF SyncedInv, PrunedIsStored, CloudNotAhead, evalVars
<1>. QED  BY <1>1, <1>2, <1>4, <1>5

LEMMA AdvanceNarrows ==
  ASSUME AlarmInv, Advance
  PROVE  /\ sent' \cup todo' \subseteq todo /\ sent' \cap todo' = {}
         /\ sent' = {} => todo' = {}
         /\ reply' = "none"
BY DEF Advance, SendFirst

LEMMA SelectKeepsInv ==
  ASSUME AlarmInv, Select
  PROVE  AlarmInv'
<1>. USE DEF AlarmInv
<1>1. /\ sent' = {SnapshotOf(e) : e \in PendingRows} /\ sent = {}
      /\ UNCHANGED <<evalVars, todo, reply, late, attempts, gone, cloud, uncovered, restarts>>
  BY DEF Select
<1>2. todo = {} /\ reply = "none"
  BY <1>1 DEF RequestInv
<1>3. EvalTypeOK' /\ EvalInv'
  BY <1>1 DEF evalVars, EvalInv, EvalTypeOK, Agrees, Open, PendingInv
<1>4. ASSUME NEW e \in PendingRows
      PROVE  SnapshotOf(e) \in Snapshot /\ Past(SnapshotOf(e)) /\ attempts[e] < MaxAttempts
  <2>1. e \in DOMAIN events /\ events[e].source = "device" /\ attempts[e] < MaxAttempts
    BY DEF PendingRows, Pending
  <2>2. events[e] \in Event /\ e \in EventId /\ events[e].peak \in Nat
    <3>1. events[e] \in Event /\ e \in 1..Len(events) /\ Len(events) \in Nat
      BY <2>1, EventTable DEF EvalInv
    <3>2. Len(events) <= MaxEvents /\ MaxEvents \in Nat
      BY EvaluatorAssumption DEF EvalInv, EvalTypeOK
    <3>3. e \in EventId
      BY <3>1, <3>2 DEF EventId
    <3>4. events[e].peak \in Value
      BY <3>1 DEF Event
    <3>. QED  BY <3>1, <3>3, <3>4, EvaluatorAssumption
  <2>3. SnapshotOf(e) \in Snapshot
    BY <2>2 DEF SnapshotOf, Snapshot, Event
  <2>4. Past(SnapshotOf(e))
    BY <2>1, <2>2 DEF Past, SnapshotOf
  <2>. QED  BY <2>1, <2>3, <2>4
<1>5. AlarmTypeOK'
  BY <1>1, <1>3, <1>4 DEF AlarmTypeOK, evalVars
<1>6. \A x : Past(x) <=> Past(x)'
  BY <1>1 DEF Past, evalVars
<1>7. RequestInv'
  <2>1. ASSUME NEW x \in sent'
        PROVE  Past(x)' /\ attempts'[x.id] < MaxAttempts
    <3>1. PICK e \in PendingRows : x = SnapshotOf(e)
      BY <1>1
    <3>2. x.id = e
      BY <3>1 DEF SnapshotOf
    <3>. QED  BY <1>1, <1>4, <1>6, <3>1, <3>2
  <2>2. \A x, y \in sent' : x.id = y.id => x = y
    BY <1>1 DEF SnapshotOf
  <2>3. \A S \in late' : \A x \in S : Past(x)'
    BY <1>1, <1>6 DEF RequestInv
  <2>. QED  BY <1>1, <1>2, <2>1, <2>2, <2>3 DEF RequestInv
<1>8. SyncedInv' /\ PrunedIsStored' /\ CloudNotAhead'
  BY <1>1, <1>2 DEF SyncedInv, PrunedIsStored, CloudNotAhead, evalVars
<1>. QED  BY <1>3, <1>5, <1>7, <1>8

LEMMA SplitKeepsInv ==
  ASSUME AlarmInv, Split
  PROVE  AlarmInv'
<1>1. /\ SendFirst(sent) /\ reply' = "none"
      /\ UNCHANGED <<evalVars, late, attempts, gone, cloud, uncovered, restarts>>
  BY DEF Split
<1>2. sent' \cup todo' \subseteq sent /\ sent' \cap todo' = {} /\ sent' # {}
  BY <1>1 DEF SendFirst
<1>3. /\ restarts' \in 0..MaxRestarts /\ attempts' \in [EventId -> 0..MaxAttempts]
      /\ late' \in SUBSET (SUBSET Snapshot)
  BY <1>1 DEF AlarmInv, AlarmTypeOK
<1>4. \A x \in sent' \cup todo' : attempts'[x.id] < MaxAttempts
  BY <1>1, <1>2 DEF AlarmInv, RequestInv
<1>. QED  BY <1>1, <1>2, <1>3, <1>4, NarrowKeepsInv

\* A row is charged while it is below the limit, and then left out of the batch.
LEMMA RejectItemKeepsInv ==
  ASSUME AlarmInv, RejectItem
  PROVE  AlarmInv'
<1>. USE DEF AlarmInv
<1>1. /\ attempts' = [e \in EventId |-> IF e \in Ids(sent) THEN attempts[e] + 1
                                                           ELSE attempts[e]]
      /\ Advance /\ UNCHANGED <<evalVars, late, gone, cloud, uncovered, restarts>>
  BY DEF RejectItem
<1>2. sent' \cup todo' \subseteq todo /\ sent' \cap todo' = {} /\ reply' = "none"
        /\ (sent' = {} => todo' = {})
  BY <1>1, AdvanceNarrows
<1>3. \A e \in EventId : attempts[e] \in Nat /\ attempts[e] <= MaxAttempts
  BY ChannelAssumption DEF AlarmTypeOK
<1>4. \A e \in Ids(sent) : attempts[e] < MaxAttempts
  BY DEF RequestInv, Ids
<1>5. attempts' \in [EventId -> 0..MaxAttempts]
  BY <1>1, <1>3, <1>4, ChannelAssumption
<1>6. \A x \in todo : x.id \in EventId /\ x.id \notin Ids(sent) /\ attempts[x.id] < MaxAttempts
  BY DEF RequestInv, Ids, AlarmTypeOK, Snapshot
<1>7. \A x \in sent' \cup todo' : attempts'[x.id] < MaxAttempts
  BY <1>1, <1>2, <1>6
<1>8. restarts' \in 0..MaxRestarts /\ late' \in SUBSET (SUBSET Snapshot)
  BY <1>1 DEF AlarmTypeOK
<1>. QED  BY <1>1, <1>2, <1>5, <1>7, <1>8, NarrowKeepsInv

LEMMA GiveUpKeepsInv ==
  ASSUME AlarmInv, GiveUp
  PROVE  AlarmInv'
<1>1. /\ sent' = {} /\ todo' = {} /\ reply' = "none"
      /\ UNCHANGED <<evalVars, late, attempts, gone, cloud, uncovered, restarts>>
  BY DEF GiveUp
<1>2. /\ restarts' \in 0..MaxRestarts /\ attempts' \in [EventId -> 0..MaxAttempts]
      /\ late' \in SUBSET (SUBSET Snapshot)
  BY <1>1 DEF AlarmInv, AlarmTypeOK
<1>. QED  BY <1>1, <1>2, NarrowKeepsInv

LEMMA TimedOutKeepsInv ==
  ASSUME AlarmInv, TimedOut
  PROVE  AlarmInv'
<1>1. /\ sent # {} /\ reply' = "error" /\ Abandoned
      /\ UNCHANGED <<evalVars, sent, todo, attempts, gone, cloud, uncovered, restarts>>
  BY DEF TimedOut
<1>2. /\ restarts' \in 0..MaxRestarts /\ attempts' \in [EventId -> 0..MaxAttempts]
      /\ late' \in SUBSET (SUBSET Snapshot)
      /\ \A S \in late' : S \in late \/ S = sent
  BY <1>1 DEF AlarmInv, AlarmTypeOK, Abandoned
<1>3. sent \cap todo = {} /\ \A x \in sent \cup todo : attempts'[x.id] < MaxAttempts
  BY <1>1 DEF AlarmInv, RequestInv
<1>. QED  BY <1>1, <1>2, <1>3, NarrowKeepsInv

\* Only synced_at is written, for rows the cloud has stored.
LEMMA AcknowledgeShape ==
  ASSUME EvalInv, Acknowledge
  PROVE  /\ DOMAIN events' = DOMAIN events /\ events' \in Seq(Event)
         /\ Len(events') = Len(events)
         /\ \A e \in DOMAIN events :
              /\ events'[e].series = events[e].series
              /\ events'[e].source = events[e].source
              /\ events'[e].ended = events[e].ended
              /\ events'[e].peak = events[e].peak
              /\ events'[e].synced => events[e].synced \/ e \in Ids(sent)
<1>1. events' = [e \in DOMAIN events |->
                   IF e \in Ids(sent) THEN [events[e] EXCEPT !.synced = TRUE]
                                      ELSE events[e]]
  BY DEF Acknowledge
<1>2. EvalTypeOK /\ \A e \in DOMAIN events : events[e] \in Event
  BY EventTable DEF EvalInv
<1>3. events' \in [DOMAIN events -> Event]
  <2>1. \A e \in DOMAIN events : [events[e] EXCEPT !.synced = TRUE] \in Event
    BY <1>2 DEF Event
  <2>. QED  BY <1>1, <1>2, <2>1
<1>4. /\ DOMAIN events' = DOMAIN events /\ events' \in Seq(Event)
      /\ Len(events') = Len(events)
  BY <1>2, <1>3, UpdateKeepsTable
<1>5. ASSUME NEW e \in DOMAIN events
      PROVE  /\ events'[e].series = events[e].series
             /\ events'[e].source = events[e].source
             /\ events'[e].ended = events[e].ended
             /\ events'[e].peak = events[e].peak
             /\ events'[e].synced => events[e].synced \/ e \in Ids(sent)
  BY <1>1, <1>2 DEF Event
<1>. QED  BY <1>4, <1>5

LEMMA AcknowledgeKeepsInv ==
  ASSUME AlarmInv, Acknowledge
  PROVE  AlarmInv'
<1>. USE DEF AlarmInv
<1>1. /\ reply = "ok" /\ Advance
      /\ UNCHANGED <<alarm, age, rule, source, streak, late, attempts, gone, cloud, uncovered,
                     restarts>>
  BY DEF Acknowledge
<1>2. EvalTypeOK
  BY DEF EvalInv
<1>3. /\ DOMAIN events' = DOMAIN events /\ events' \in Seq(Event) /\ Len(events') = Len(events)
      /\ \A e \in DOMAIN events :
           /\ events'[e].series = events[e].series
           /\ events'[e].source = events[e].source
           /\ events'[e].ended = events[e].ended
           /\ events'[e].peak = events[e].peak
           /\ events'[e].synced => events[e].synced \/ e \in Ids(sent)
  BY AcknowledgeShape
<1>4. EvalInv'
  <2>1. EvalTypeOK'
    BY <1>1, <1>2, <1>3 DEF EvalTypeOK
  <2>2. \A s, S : Open(s, S)' = Open(s, S)
    BY <1>3 DEF Open
  <2>3. \A s \in Series : Agrees(s)'
    BY <1>1, <1>3, <2>2 DEF EvalInv, Agrees
  <2>4. PendingInv'
    BY <1>1 DEF EvalInv, PendingInv
  <2>. QED  BY <2>1, <2>3, <2>4 DEF EvalInv
<1>5. sent' \cup todo' \subseteq todo /\ sent' \cap todo' = {} /\ reply' = "none"
        /\ (sent' = {} => todo' = {})
  BY <1>1, AdvanceNarrows
<1>6. AlarmTypeOK'
  BY <1>1, <1>3, <1>4, <1>5 DEF AlarmTypeOK, EvalInv
<1>7. \A x : Past(x) <=> Past(x)'
  BY <1>3 DEF Past
<1>8. RequestInv'
  BY <1>1, <1>5, <1>7 DEF RequestInv
<1>9. SyncedInv' /\ PrunedIsStored'
  BY <1>1, <1>3, <1>5 DEF SyncedInv, PrunedIsStored, Ids
<1>10. CloudNotAhead'
  BY <1>1, <1>3 DEF CloudNotAhead
<1>. QED  BY <1>4, <1>6, <1>8, <1>9, <1>10

LEMMA RestartKeepsInv ==
  ASSUME AlarmInv, NEW src \in Sources, Restart(src)
  PROVE  AlarmInv'
<1>. USE DEF AlarmInv
<1>1. /\ restarts < MaxRestarts /\ restarts' = restarts + 1 /\ RestartWith(src)
      /\ sent' = {} /\ todo' = {} /\ reply' = "none"
      /\ Abandoned \/ UNCHANGED late
      /\ UNCHANGED <<attempts, gone, cloud, uncovered>>
  BY DEF Restart
<1>2. UNCHANGED <<alarm, age, rule, events, streak>>
  BY <1>1 DEF RestartWith
<1>3. EvalInv' /\ EvalTypeOK'
  BY <1>1, OutsideStep DEF EvalInv
<1>4. restarts' \in 0..MaxRestarts
  BY <1>1, ChannelAssumption DEF AlarmTypeOK
<1>5. late' \in SUBSET (SUBSET Snapshot) /\ \A S \in late' : S \in late \/ S = sent
  BY <1>1 DEF Abandoned, AlarmTypeOK
<1>6. AlarmTypeOK'
  BY <1>1, <1>2, <1>3, <1>4, <1>5 DEF AlarmTypeOK
<1>7. RequestInv'
  BY <1>1, <1>2, <1>5 DEF RequestInv, Past
<1>8. SyncedInv' /\ PrunedIsStored' /\ CloudNotAhead'
  BY <1>1, <1>2 DEF SyncedInv, PrunedIsStored, CloudNotAhead
<1>. QED  BY <1>3, <1>6, <1>7, <1>8

--------------------------------------------------------------------------------
(* The cloud, and the retention pass.                                       *)

\* Of a request the cloud takes all of it or nothing, and it forgets nothing.
LEMMA UpsertShape ==
  ASSUME AlarmInv, NEW S \in SUBSET Snapshot, \A x \in S : Past(x), Upsert(S)
  PROVE  /\ cloud' \in [EventId -> [ended : BOOLEAN, peak : Value \cup {0}, stored : BOOLEAN]]
         /\ \A e \in EventId : /\ cloud[e].stored => cloud'[e].stored
                               /\ cloud[e].ended => cloud'[e].ended
                               /\ cloud'[e].ended => cloud'[e].stored
         /\ Verdict(S) = "ok" => \A x \in S : cloud'[x.id].stored
         /\ \A e \in EventId : cloud'[e].stored => /\ e \in DOMAIN events
                                                   /\ events[e].source = "device"
                                                   /\ cloud'[e].ended => events[e].ended
                                                   /\ cloud'[e].peak <= events[e].peak
<1>. DEFINE Taken(e) == Verdict(S) = "ok" /\ e \in Ids(S)
            pick(e) == CHOOSE x \in S : x.id = e
            CloudRow == [ended : BOOLEAN, peak : Value \cup {0}, stored : BOOLEAN]
<1>1. cloud' = [e \in EventId |-> IF Taken(e) THEN Merge(cloud[e], pick(e)) ELSE cloud[e]]
  BY DEF Upsert
<1>2. \A e \in EventId : Taken(e) => pick(e) \in S /\ pick(e).id = e
  BY DEF Ids
<1>3. \A e \in EventId : cloud[e] \in CloudRow
  BY DEF AlarmInv, AlarmTypeOK
<1>4. ASSUME NEW e \in EventId, Taken(e)
      PROVE  /\ cloud'[e] \in CloudRow /\ cloud'[e].stored
             /\ cloud'[e].ended = (cloud[e].ended \/ pick(e).ended)
             /\ cloud'[e].peak = pick(e).peak
  <2>1. cloud'[e] = Merge(cloud[e], pick(e))
    BY <1>1, <1>4
  <2>2. pick(e) \in Snapshot
    BY <1>2, <1>4
  <2>. HIDE DEF pick
  <2>3. pick(e).peak \in Value /\ pick(e).ended \in BOOLEAN
    BY <2>2 DEF Snapshot
  <2>4. cloud[e].ended \in BOOLEAN
    BY <1>3
  <2>. QED  BY <2>1, <2>3, <2>4 DEF Merge
<1>5. \A e \in EventId : ~Taken(e) => cloud'[e] = cloud[e]
  BY <1>1
<1>. HIDE DEF pick
<1>6. \A e \in EventId : cloud'[e] \in CloudRow
  BY <1>3, <1>4, <1>5
<1>7. \A e \in EventId : /\ cloud[e].stored => cloud'[e].stored
                         /\ cloud[e].ended => cloud'[e].ended
                         /\ cloud'[e].ended => cloud'[e].stored
  BY <1>3, <1>4, <1>5 DEF AlarmInv, SyncedInv
<1>8. Verdict(S) = "ok" => \A x \in S : cloud'[x.id].stored
  BY <1>4 DEF Ids, Snapshot
<1>9. ASSUME NEW e \in EventId, cloud'[e].stored
      PROVE  /\ e \in DOMAIN events
             /\ events[e].source = "device"
             /\ cloud'[e].ended => events[e].ended
             /\ cloud'[e].peak <= events[e].peak
  <2>1. CASE Taken(e)
    <3>1. Past(pick(e)) /\ pick(e).id = e
      BY <1>2, <2>1
    <3>2. e \in DOMAIN events /\ events[e].source = "device"
            /\ (pick(e).ended => events[e].ended) /\ pick(e).peak <= events[e].peak
      BY <3>1 DEF Past
    <3>3. cloud[e].ended => events[e].ended
      BY DEF AlarmInv, CloudNotAhead, SyncedInv
    <3>. QED  BY <1>4, <2>1, <3>2, <3>3
  <2>2. CASE ~Taken(e)
    BY <1>5, <1>9, <2>2 DEF AlarmInv, CloudNotAhead
  <2>. QED  BY <2>1, <2>2
<1>10. cloud' \in [EventId -> CloudRow]
  BY <1>1, <1>6
<1>. QED  BY <1>7, <1>8, <1>9, <1>10

LEMMA IngestKeepsInv ==
  ASSUME AlarmInv, \/ Ingest
                   \/ \E S \in late : IngestLate(S)
  PROVE  /\ AlarmInv' /\ UNCHANGED <<evalVars, gone>>
         /\ \A e \in EventId : /\ cloud[e].stored => cloud'[e].stored
                               /\ cloud[e].ended => cloud'[e].ended
<1>. USE DEF AlarmInv
<1>1. /\ UNCHANGED <<evalVars, sent, todo, attempts, gone, uncovered, restarts>>
      /\ late' \subseteq late
      /\ \/ /\ Upsert(sent) /\ reply' = Verdict(sent)
            /\ sent # {}
         \/ /\ \E S \in late : Upsert(S)
            /\ reply' = reply
  BY DEF Ingest, IngestLate
<1>2. PICK S \in SUBSET Snapshot : /\ Upsert(S) /\ \A x \in S : Past(x)
                                   /\ \/ S = sent /\ sent # {} /\ (reply' = "ok" => Verdict(S) = "ok")
                                      \/ reply' = reply
  BY <1>1 DEF RequestInv, AlarmTypeOK
<1>3. /\ cloud' \in [EventId -> [ended : BOOLEAN, peak : Value \cup {0}, stored : BOOLEAN]]
      /\ \A e \in EventId : /\ cloud[e].stored => cloud'[e].stored
                            /\ cloud[e].ended => cloud'[e].ended
                            /\ cloud'[e].ended => cloud'[e].stored
      /\ Verdict(S) = "ok" => \A x \in S : cloud'[x.id].stored
      /\ \A e \in EventId : cloud'[e].stored => /\ e \in DOMAIN events
                                                /\ events[e].source = "device"
                                                /\ cloud'[e].ended => events[e].ended
                                                /\ cloud'[e].peak <= events[e].peak
  BY <1>2, UpsertShape
<1>4. EvalTypeOK' /\ EvalInv'
  BY <1>1 DEF evalVars, EvalInv, EvalTypeOK, Agrees, Open, PendingInv
<1>5. reply' \in {"none", "ok", "invalid", "error"}
  BY <1>1 DEF AlarmTypeOK, Verdict
<1>6. AlarmTypeOK'
  BY <1>1, <1>3, <1>4, <1>5 DEF AlarmTypeOK, evalVars
<1>7. \A x : Past(x) <=> Past(x)'
  BY <1>1 DEF Past, evalVars
<1>8. RequestInv'
  BY <1>1, <1>7 DEF RequestInv
<1>9. DOMAIN events \subseteq EventId
  <2>1. /\ DOMAIN events = 1..Len(events) /\ Len(events) \in Nat
        /\ Len(events) <= MaxEvents /\ MaxEvents \in Nat
    BY EventTable, EvaluatorAssumption DEF EvalInv, EvalTypeOK
  <2>. QED  BY <2>1 DEF EventId
<1>10. SyncedInv'
  <2>1. \A x \in sent : x.id \in EventId
    BY DEF AlarmTypeOK, Snapshot
  <2>2. reply' = "ok" => \A x \in sent : cloud'[x.id].stored
    BY <1>2, <1>3, <2>1 DEF SyncedInv
  <2>. QED  BY <1>1, <1>3, <1>9, <2>2 DEF SyncedInv, evalVars
<1>11. PrunedIsStored'
  BY <1>1, <1>3, <1>9 DEF PrunedIsStored, AlarmTypeOK
<1>12. CloudNotAhead'
  BY <1>1, <1>3 DEF CloudNotAhead, evalVars
<1>. QED  BY <1>1, <1>3, <1>4, <1>6, <1>8, <1>10, <1>11, <1>12

LEMMA PruneKeepsInv ==
  ASSUME AlarmInv, NEW e \in EventId, Prune(e)
  PROVE  AlarmInv'
<1>. USE DEF AlarmInv
<1>1. /\ e \in DOMAIN events /\ events[e].synced /\ gone' = gone \cup {e}
      /\ UNCHANGED <<evalVars, channel, late, attempts, cloud, uncovered, restarts>>
  BY DEF Prune
<1>2. EvalTypeOK' /\ EvalInv'
  BY <1>1 DEF evalVars, EvalInv, EvalTypeOK, Agrees, Open, PendingInv
<1>3. AlarmTypeOK'
  BY <1>1, <1>2 DEF AlarmTypeOK, evalVars
<1>4. RequestInv'
  BY <1>1 DEF RequestInv, Past, evalVars
<1>5. SyncedInv' /\ PrunedIsStored' /\ CloudNotAhead'
  BY <1>1 DEF SyncedInv, PrunedIsStored, CloudNotAhead, evalVars
<1>. QED  BY <1>2, <1>3, <1>4, <1>5

--------------------------------------------------------------------------------
(* The step, and what follows.                                              *)

LEMMA AlarmStepInv == AlarmInv /\ [AlarmNext]_alarmVars => AlarmInv'
<1>. SUFFICES ASSUME AlarmInv, [AlarmNext]_alarmVars
              PROVE  AlarmInv'
  OBVIOUS
<1>1. CASE Evaluator
  BY <1>1, EvaluatorKeepsInv
<1>2. CASE UploadStep
  BY <1>2, SelectKeepsInv, AcknowledgeKeepsInv, SplitKeepsInv, RejectItemKeepsInv,
     GiveUpKeepsInv DEF UploadStep
<1>3. CASE TimedOut
  BY <1>3, TimedOutKeepsInv
<1>4. CASE Ingest \/ \E S \in late : IngestLate(S)
  BY <1>4, IngestKeepsInv
<1>5. ASSUME NEW e \in EventId, Prune(e) PROVE AlarmInv'
  BY <1>5, PruneKeepsInv
<1>6. ASSUME NEW src \in Sources, Restart(src) PROVE AlarmInv'
  BY <1>6, RestartKeepsInv
<1>7. CASE UNCHANGED alarmVars
  <2>1. UNCHANGED <<evalVars, channel, late, attempts, gone, cloud, uncovered, restarts>>
    BY <1>7 DEF alarmVars
  <2>2. EvalTypeOK' /\ EvalInv'
    BY <2>1 DEF AlarmInv, evalVars, EvalInv, EvalTypeOK, Agrees, Open, PendingInv
  <2>3. AlarmTypeOK'
    BY <2>1, <2>2 DEF AlarmInv, AlarmTypeOK, evalVars
  <2>. QED  BY <2>1, <2>2, <2>3 DEF AlarmInv, RequestInv, Past, SyncedInv, PrunedIsStored,
            CloudNotAhead, evalVars
<1>. QED  BY <1>1, <1>2, <1>3, <1>4, <1>5, <1>6, <1>7 DEF AlarmNext

\* The strengthened invariant of the evaluator, the channel and the cloud's table.
THEOREM AlarmInvariant == AlarmSpec => []AlarmInv
BY AlarmInitInv, AlarmStepInv, PTL DEF AlarmSpec

\* Types hold of the composed system, and no row is charged beyond the limit.
THEOREM AlarmTypeCorrect == AlarmSpec => []AlarmTypeOK
<1>1. AlarmInv => AlarmTypeOK
  BY DEF AlarmInv
<1>. QED  BY <1>1, AlarmInvariant, PTL

\* Uploading, acknowledging and pruning never set the evaluator's two tables at
\* odds (cloud_sync.py writes alarm_events while _evaluate_alarms does).
THEOREM TablesStayAgreed == AlarmSpec => []OpenEventMatchesRow
<1>1. AlarmInv => OpenEventMatchesRow
  BY AgreesMatches DEF AlarmInv, EvalInv
<1>. QED  BY <1>1, AlarmInvariant, PTL

\* The retention pass never deletes an alarm the cloud does not have.
THEOREM PrunedAlarmsAreStored == AlarmSpec => []PrunedIsStored
<1>1. AlarmInv => PrunedIsStored
  BY DEF AlarmInv
<1>. QED  BY <1>1, AlarmInvariant, PTL

\* The cloud holds no alarm, end or peak that was never true, whatever snapshots
\* arrive late or twice.
THEOREM CloudIsNeverAhead == AlarmSpec => []CloudNotAhead
<1>1. AlarmInv => CloudNotAhead
  BY DEF AlarmInv
<1>. QED  BY <1>1, AlarmInvariant, PTL

\* An alarm the cloud knows to be over is never reopened by an older snapshot.
THEOREM CloudEndStays == AlarmSpec => CloudEndIsFinal
<1>1. ASSUME AlarmInv, [AlarmNext]_alarmVars
      PROVE  \A e \in EventId : cloud[e].ended => cloud'[e].ended
  <2>1. CASE Ingest \/ \E S \in late : IngestLate(S)
    BY <1>1, <2>1, IngestKeepsInv
  <2>2. CASE UNCHANGED cloud
    BY <2>2
  <2>. QED  BY <1>1, <2>1, <2>2 DEF AlarmNext, Evaluator, UploadStep, Select, Acknowledge, Split,
            RejectItem, GiveUp, TimedOut, Prune, Restart, alarmVars
<1>. QED  BY <1>1, AlarmInvariant, PTL DEF AlarmSpec, CloudEndIsFinal

(***************************************************************************)
(* The upload writes alarm_events beside the evaluator.  Of the composed   *)
(* system too: every step does to the events what a step of the evaluator  *)
(* may do, or only takes some for synced.                                  *)
(***************************************************************************)
LEMMA AlarmStepIsHistory ==
  ASSUME AlarmInv, [AlarmNext]_alarmVars
  PROVE  OpensLate /\ EndsLate /\ EndedKept
<1>. EvalInv
  BY DEF AlarmInv
<1>1. CASE Acknowledge
  <2>1. /\ DOMAIN events' = DOMAIN events
        /\ \A e \in DOMAIN events : /\ events'[e].ended = events[e].ended
                                    /\ events'[e].peak = events[e].peak
    BY <1>1, AcknowledgeShape
  <2>. QED  BY <2>1 DEF OpensLate, EndsLate, EndedKept
<1>2. CASE [EvalNext]_evalVars
  BY <1>2, EventsAreHistory
<1>3. CASE \E src \in Sources : Restart(src)
  BY <1>2, <1>3 DEF Restart, EvalNext
<1>4. CASE Evaluator
  BY <1>2, <1>4 DEF Evaluator, EvalNext
<1>5. CASE UNCHANGED evalVars
  BY <1>2, <1>5
<1>. QED  BY <1>1, <1>3, <1>4, <1>5 DEF AlarmNext, UploadStep, Select, Split, RejectItem, GiveUp,
          TimedOut, Ingest, IngestLate, Prune, alarmVars

\* With uploads, acknowledgements, retention and restarts between the readings,
\* an alarm is still raised only after the whole delay above its limit.
THEOREM UploadedAlarmsAreReal == AlarmSpec => NoFalseAlarm
<1>1. AlarmInv /\ [AlarmNext]_alarmVars => OpensLate
  BY AlarmStepIsHistory
<1>. QED  BY <1>1, AlarmInvariant, PTL DEF AlarmSpec, NoFalseAlarm, OpensLate

\* And it ends only after the whole delay, or for its rule or its source.
THEOREM UploadedAlarmsEndInTime == AlarmSpec => NoEarlyEnd
<1>1. AlarmInv /\ [AlarmNext]_alarmVars => EndsLate
  BY AlarmStepIsHistory
<1>. QED  BY <1>1, AlarmInvariant, PTL DEF AlarmSpec, NoEarlyEnd, EndsLate

\* And, ended, it is what it was, whatever the upload marks on its row.
THEOREM UploadedHistoryIsFinal == AlarmSpec => EndedIsFinal
<1>1. AlarmInv /\ [AlarmNext]_alarmVars => EndedKept
  BY AlarmStepIsHistory
<1>. QED  BY <1>1, AlarmInvariant, PTL DEF AlarmSpec, EndedIsFinal, EndedKept

--------------------------------------------------------------------------------
(* The contract.                                                            *)

LEMMA EventsNumbered ==
  ASSUME EvalTypeOK
  PROVE  DOMAIN events \subseteq EventId
<1>1. /\ DOMAIN events = 1..Len(events) /\ Len(events) \in Nat
      /\ Len(events) <= MaxEvents /\ MaxEvents \in Nat
  BY EventTable, EvaluatorAssumption DEF EvalTypeOK
<1>. QED  BY <1>1 DEF EventId

\* The mirror sees neither peaks nor what is marked synced.
LEMMA MirrorUnseen ==
  ASSUME DOMAIN events' = DOMAIN events,
         \A e \in DOMAIN events : /\ events'[e].source = events[e].source
                                  /\ events'[e].ended = events[e].ended,
         UNCHANGED <<gone, cloud>>
  PROVE  UNCHANGED Mirror!mirrorVars
<1>1. \A e \in EventId : LocalAlarms'[e] = LocalAlarms[e]
  BY DEF LocalAlarms, Raised
<1>2. LocalAlarms' = LocalAlarms
  BY <1>1 DEF LocalAlarms
<1>3. KnownAlarms' = KnownAlarms
  BY DEF KnownAlarms
<1>. QED  BY <1>2, <1>3 DEF Mirror!mirrorVars

\* What every action has to be shown to be for the mirror.
MirrorGoes == Mirror!Next \/ UNCHANGED Mirror!mirrorVars

LEMMA OpensMaps ==
  ASSUME AlarmInv, NEW s \in Series, NEW v \in Value, Opens(s, v), UNCHANGED <<gone, cloud>>
  PROVE  MirrorGoes
<1>. DEFINE new == Len(events) + 1
<1>1. EvalTypeOK /\ gone \subseteq DOMAIN events
  BY DEF AlarmInv, AlarmTypeOK
<1>2. /\ Len(events') <= MaxEvents
      /\ DOMAIN events' = DOMAIN events \cup {new} /\ new \notin DOMAIN events
      /\ \A e \in DOMAIN events : events'[e] = events[e]
      /\ events'[new].source = source /\ ~events'[new].ended
  BY <1>1, OpenShape DEF Opens
<1>3. new \in EventId
  <2>1. OpenEvent(s, v) /\ Len(events) < MaxEvents /\ Len(events) \in Nat /\ MaxEvents \in Nat
    BY <1>1, EventTable, EvaluatorAssumption DEF Opens, OpenEvent
  <2>. QED  BY <2>1 DEF EventId
<1>. HIDE DEF new
<1>4. KnownAlarms' = KnownAlarms
  BY DEF KnownAlarms
<1>5. \A e \in EventId \ {new} : LocalAlarms'[e] = LocalAlarms[e]
  BY <1>2 DEF LocalAlarms, Raised
<1>6. LocalAlarms[new] = "none"
  BY <1>1, <1>2, <1>3 DEF LocalAlarms, Raised
<1>7. LocalAlarms'[new] = IF source = "device" THEN "open" ELSE "none"
  BY <1>1, <1>2, <1>3 DEF LocalAlarms, Raised
<1>8. CASE source = "device"
  <2>1. LocalAlarms' = [LocalAlarms EXCEPT ![new] = "open"]
    BY <1>3, <1>5, <1>7, <1>8 DEF LocalAlarms
  <2>2. Mirror!Raise(new)
    BY <1>4, <1>6, <2>1 DEF Mirror!Raise
  <2>. QED  BY <1>3, <2>2 DEF Mirror!Next, MirrorGoes
<1>9. CASE source # "device"
  <2>1. LocalAlarms' = LocalAlarms
    BY <1>5, <1>6, <1>7, <1>9 DEF LocalAlarms
  <2>. QED  BY <1>4, <2>1 DEF Mirror!mirrorVars, MirrorGoes
<1>. QED  BY <1>8, <1>9

LEMMA EndsMaps ==
  ASSUME AlarmInv, NEW s \in Series, NEW E \in SUBSET DOMAIN events, Ends(s, E),
         UNCHANGED <<gone, cloud>>
  PROVE  Mirror!Next
<1>. DEFINE S == {e \in E : Raised(e) /\ e \notin gone}
<1>1. EvalTypeOK
  BY DEF AlarmInv, AlarmTypeOK
<1>2. /\ DOMAIN events' = DOMAIN events
      /\ \A e \in DOMAIN events : /\ events'[e].source = events[e].source
                                  /\ e \in E => events'[e].ended
                                  /\ e \notin E => events'[e].ended = events[e].ended
  BY <1>1, EndShape DEF Ends
<1>3. \A e \in E : ~events[e].ended
  BY DEF Ends, Open
<1>4. S \in SUBSET EventId
  BY <1>1, EventsNumbered
<1>5. \A e \in S : LocalAlarms[e] = "open"
  BY <1>3, <1>4 DEF LocalAlarms
<1>6. \A e \in EventId : LocalAlarms'[e] = IF e \in S THEN "ended" ELSE LocalAlarms[e]
  BY <1>2 DEF LocalAlarms, Raised
<1>. HIDE DEF S
<1>7. LocalAlarms' = [e \in EventId |-> IF e \in S THEN "ended" ELSE LocalAlarms[e]]
  BY <1>6 DEF LocalAlarms
<1>8. KnownAlarms' = KnownAlarms
  BY DEF KnownAlarms
<1>9. Mirror!End(S)
  BY <1>5, <1>7, <1>8 DEF Mirror!End
<1>. QED  BY <1>4, <1>9 DEF Mirror!Next

LEMMA EvaluatorMaps ==
  ASSUME AlarmInv, [EvalNext]_evalVars, UNCHANGED <<gone, cloud>>
  PROVE  MirrorGoes
<1>1. EvalInv /\ EvalTypeOK
  BY DEF AlarmInv, EvalInv
<1>2. CASE events' = events
  BY <1>2, MirrorUnseen DEF MirrorGoes
<1>3. ASSUME NEW s \in Series, NEW v \in Value, Raise(Open(s, {source}), v)
      PROVE  MirrorGoes
  <2>1. Open(s, {source}) \in SUBSET DOMAIN events
    BY DEF Open
  <2>. QED  BY <1>1, <1>3, <2>1, RaiseShape, MirrorUnseen DEF MirrorGoes
<1>4. ASSUME NEW s \in Series, NEW v \in Value, Opens(s, v)
      PROVE  MirrorGoes
  BY <1>4, OpensMaps
<1>5. ASSUME NEW s \in Series, NEW E \in SUBSET DOMAIN events, Ends(s, E)
      PROVE  MirrorGoes
  BY <1>5, EndsMaps DEF MirrorGoes
<1>. QED  BY <1>1, <1>2, <1>3, <1>4, <1>5, EventsChange

\* The cloud is told of what it then has, by a snapshot of what once was.
LEMMA IngestMaps ==
  ASSUME AlarmInv, \/ Ingest
                   \/ \E S \in late : IngestLate(S)
  PROVE  Mirror!Next
<1>. DEFINE S == {e \in EventId : cloud'[e].stored}
            E == {e \in EventId : cloud'[e].ended}
<1>1. /\ AlarmInv' /\ UNCHANGED <<evalVars, gone>>
      /\ \A e \in EventId : /\ cloud[e].stored => cloud'[e].stored
                            /\ cloud[e].ended => cloud'[e].ended
  BY IngestKeepsInv
<1>2. \A e \in S : /\ Raised(e)
                   /\ cloud'[e].ended => events[e].ended
  BY <1>1 DEF AlarmInv, CloudNotAhead, Raised, evalVars
<1>3. S \in SUBSET EventId /\ E \in SUBSET S
  BY <1>1 DEF AlarmInv, SyncedInv
<1>4. \A e \in S : LocalAlarms[e] # "none"
  BY <1>2 DEF LocalAlarms
<1>5. \A e \in E : LocalAlarms[e] \in {"ended", "forgotten"}
  BY <1>2, <1>3 DEF LocalAlarms
<1>6. \A e \in EventId : KnownAlarms'[e] = IF e \in E THEN "ended"
                                           ELSE IF e \in S /\ KnownAlarms[e] = "none" THEN "open"
                                           ELSE KnownAlarms[e]
  BY <1>1, <1>3 DEF KnownAlarms
<1>. HIDE DEF S, E
<1>7. KnownAlarms' = [e \in EventId |-> IF e \in E THEN "ended"
                                       ELSE IF e \in S /\ KnownAlarms[e] = "none" THEN "open"
                                       ELSE KnownAlarms[e]]
  BY <1>6 DEF KnownAlarms
<1>8. LocalAlarms' = LocalAlarms
  BY <1>1 DEF LocalAlarms, Raised, evalVars
<1>9. Mirror!Tell(S, E)
  BY <1>3, <1>4, <1>5, <1>7, <1>8 DEF Mirror!Tell
<1>. QED  BY <1>3, <1>9 DEF Mirror!Next

LEMMA PruneMaps ==
  ASSUME AlarmInv, NEW e \in EventId, Prune(e)
  PROVE  Mirror!Next
<1>1. /\ e \in DOMAIN events \ gone /\ events[e].ended /\ events[e].synced
      /\ gone' = gone \cup {e} /\ UNCHANGED <<events, cloud>>
  BY DEF Prune, evalVars
<1>2. cloud[e].stored /\ Raised(e)
  BY <1>1 DEF AlarmInv, SyncedInv, CloudNotAhead, Raised
<1>3. LocalAlarms[e] = "ended" /\ KnownAlarms[e] # "none"
  BY <1>1, <1>2 DEF LocalAlarms, KnownAlarms
<1>4. LocalAlarms' = [LocalAlarms EXCEPT ![e] = "forgotten"]
  <2>1. \A d \in EventId : LocalAlarms'[d] = IF d = e THEN "forgotten" ELSE LocalAlarms[d]
    BY <1>1 DEF LocalAlarms, Raised
  <2>. QED  BY <2>1 DEF LocalAlarms
<1>5. KnownAlarms' = KnownAlarms
  BY <1>1 DEF KnownAlarms
<1>6. Mirror!Forget(e)
  BY <1>3, <1>4, <1>5 DEF Mirror!Forget
<1>. QED  BY <1>6 DEF Mirror!Next

LEMMA AlarmStepMaps ==
  ASSUME AlarmInv, [AlarmNext]_alarmVars
  PROVE  MirrorGoes
<1>1. CASE Evaluator
  BY <1>1, EvaluatorMaps DEF Evaluator, EvalNext
<1>2. CASE Acknowledge
  <2>1. EvalInv /\ UNCHANGED <<gone, cloud>>
    BY <1>2 DEF AlarmInv, Acknowledge
  <2>. QED  BY <1>2, <2>1, AcknowledgeShape, MirrorUnseen DEF MirrorGoes
<1>3. CASE Ingest \/ \E S \in late : IngestLate(S)
  BY <1>3, IngestMaps DEF MirrorGoes
<1>4. ASSUME NEW e \in EventId, Prune(e) PROVE MirrorGoes
  BY <1>4, PruneMaps DEF MirrorGoes
<1>5. CASE UNCHANGED <<events, gone, cloud>>
  BY <1>5, MirrorUnseen DEF MirrorGoes
<1>6. CASE \/ Select \/ Split \/ RejectItem \/ GiveUp \/ TimedOut \/ UNCHANGED alarmVars
           \/ \E src \in Sources : Restart(src)
  <2>1. UNCHANGED <<events, gone, cloud>>
    BY <1>6 DEF Select, Split, RejectItem, GiveUp, TimedOut, alarmVars, Restart, RestartWith,
       evalVars
  <2>. QED  BY <1>5, <2>1
<1>. QED  BY <1>1, <1>2, <1>3, <1>4, <1>6 DEF AlarmNext, UploadStep

(***************************************************************************)
(* The evaluator, the alarms channel, the cloud and the retention pass     *)
(* implement the mirror, for any series, delays, batches, attempts, late   *)
(* requests and restarts.                                                  *)
(***************************************************************************)
THEOREM AlarmsRefineMirror == AlarmSpec => ImplementsAlarmMirror
<1>1. AlarmInit => Mirror!Init
  <2>. SUFFICES ASSUME AlarmInit PROVE Mirror!Init
    OBVIOUS
  <2>1. DOMAIN events = {} /\ gone = {} /\ \A e \in EventId : ~cloud[e].stored
    BY DEF AlarmInit, EvalInit, NoRow
  <2>. QED  BY <2>1 DEF Mirror!Init, LocalAlarms, KnownAlarms, Raised
<1>2. AlarmInv /\ [AlarmNext]_alarmVars => [Mirror!Next]_(Mirror!mirrorVars)
  BY AlarmStepMaps DEF MirrorGoes
<1>. QED
  BY <1>1, <1>2, AlarmInvariant, PTL DEF AlarmSpec, ImplementsAlarmMirror, Mirror!Spec
================================================================================
