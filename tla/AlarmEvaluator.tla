----------------------------- MODULE AlarmEvaluator ----------------------------
(***************************************************************************)
(* The collector's alarm state machine (MonitoringService._evaluate_alarms *)
(* in monitoring_service.py).  A series is one metric of one device: its   *)
(* row in alarm_states, and its rows in alarm_events, are read and written *)
(* by its own turn of the loop over the metrics, so one action is one turn.*)
(*                                                                         *)
(* The clock only matters through now - pending_since, so the model keeps  *)
(* that difference, age, which Tick lets grow up to the alarm delay.       *)
(***************************************************************************)
EXTENDS Naturals, Sequences

CONSTANTS
  Series,      \* (device, metric) pairs
  Value,       \* the values a metric can have
  Limit,       \* a value above it is exceeded
  Delay,       \* alarm_delay_seconds, in ticks
  Sources,     \* where readings come from: the device, or the demo generator
  MaxEvents    \* bound: alarm events ever opened

ASSUME EvaluatorAssumption == /\ Value \subseteq Nat
                              /\ Limit \in Nat
                              /\ Delay \in Nat
                              /\ MaxEvents \in Nat

VARIABLES
  alarm,    \* alarm_states: the row of each series
  age,      \* time since the row's pending_since
  rule,     \* is the series' rule enabled in the current configuration
  source,   \* what the running process reads from
  events,   \* alarm_events, in the order they were inserted
  streak    \* history: how long readings have been above, or not above, Limit

evalVars == <<alarm, age, rule, source, events, streak>>

Row == [state : {"absent", "NORMAL", "PENDING_ALARM", "ALARM_ACTIVE", "PENDING_CLEAR"},
        source : Sources]

Event == [series : Series, source : Sources, ended : BOOLEAN, peak : Value,
          synced : BOOLEAN]

(***************************************************************************)
(* TypeOK also bounds the table: an event is opened by a reading, never by *)
(* the passing of time.                                                    *)
(***************************************************************************)
EvalTypeOK == /\ alarm \in [Series -> Row]
              /\ age \in [Series -> 0..Delay]
              /\ rule \in [Series -> BOOLEAN]
              /\ source \in Sources
              /\ events \in Seq(Event)
              /\ Len(events) <= MaxEvents
              /\ streak \in [Series -> [over : BOOLEAN, age : 0..Delay]]

EvalInit == /\ source \in Sources
            /\ alarm = [s \in Series |-> [state |-> "absent", source |-> source]]
            /\ age = [s \in Series |-> 0]
            /\ rule \in [Series -> BOOLEAN]
            /\ events = <<>>
            /\ streak = [s \in Series |-> [over |-> FALSE, age |-> 0]]

Over(v) == v > Limit

\* Open events of a series that came from one of the sources in S.
Open(s, S) == {e \in DOMAIN events : /\ events[e].series = s
                                     /\ events[e].source \in S
                                     /\ ~events[e].ended}

\* UPDATE alarm_events SET ended_at = ..., synced_at = NULL
End(E) == events' = [e \in DOMAIN events |->
                       IF e \in E
                       THEN [events[e] EXCEPT !.ended = TRUE, !.synced = FALSE]
                       ELSE events[e]]

\* The same update, without synced_at (readings now come from elsewhere).
EndQuietly(E) == events' = [e \in DOMAIN events |->
                              IF e \in E
                              THEN [events[e] EXCEPT !.ended = TRUE]
                              ELSE events[e]]

\* Mutant: the peak becomes the latest value.
RaiseLatest(E, v) == events' = [e \in DOMAIN events |->
                                  IF e \in E
                                  THEN [events[e] EXCEPT !.synced = FALSE, !.peak = v]
                                  ELSE events[e]]

\* peak_value = MAX(peak_value, value), synced_at = NULL
Raise(E, v) == events' = [e \in DOMAIN events |->
                            IF e \in E
                            THEN [events[e] EXCEPT !.synced = FALSE,
                                                   !.peak = IF v > @ THEN v ELSE @]
                            ELSE events[e]]

OpenEvent(s, v) ==
  /\ Len(events) < MaxEvents
  /\ events' = Append(events, [series |-> s, source |-> source, ended |-> FALSE,
                               peak |-> v, synced |-> FALSE])

\* The row is written back; pending_since restarts when a pending state is entered.
WriteRow(s, state) ==
  /\ alarm' = [alarm EXCEPT ![s] = [state |-> state, source |-> source]]
  /\ age' = [age EXCEPT ![s] = IF state = alarm[s].state /\ source = alarm[s].source
                               THEN @ ELSE 0]

Observe(s, v) ==
  streak' = [streak EXCEPT ![s] = IF @.over = Over(v) THEN @
                                  ELSE [over |-> Over(v), age |-> 0]]

--------------------------------------------------------------------------------
(* A reading of series s with value v, by the state its row is in. *)

\* Mutant: the rule's row is deleted but its events are left open.
RuleOffKeepsEvents(s) == /\ ~rule[s]
                         /\ alarm' = [alarm EXCEPT ![s] = [@ EXCEPT !.state = "absent"]]
                         /\ UNCHANGED <<age, events>>

\* The rule is disabled: open events of any source end, the row is deleted.
RuleOff(s) == /\ ~rule[s]
              /\ End(Open(s, Sources))
              /\ alarm' = [alarm EXCEPT ![s] = [@ EXCEPT !.state = "absent"]]
              /\ UNCHANGED age

\* The row is from another source: its events end and the series starts over.
SourceChanged(s, v) ==
  /\ rule[s]
  /\ alarm[s].state # "absent"
  /\ alarm[s].source # source
  /\ EndQuietly(Open(s, {alarm[s].source}))
  /\ WriteRow(s, IF Over(v) THEN "PENDING_ALARM" ELSE "NORMAL")

InState(s, state) == /\ rule[s]
                     /\ alarm[s].state = state
                     /\ state # "absent" => alarm[s].source = source

FromNormal(s, v) ==
  /\ InState(s, "absent") \/ InState(s, "NORMAL")
  /\ WriteRow(s, IF Over(v) THEN "PENDING_ALARM" ELSE "NORMAL")
  /\ UNCHANGED events

\* Mutant: a reading back below the limit does not cancel the pending alarm.
FromPendingAlarmSticky(s, v) ==
  /\ InState(s, "PENDING_ALARM")
  /\ \/ /\ Over(v) => age[s] < Delay
        /\ WriteRow(s, "PENDING_ALARM")
        /\ UNCHANGED events
     \/ /\ Over(v)
        /\ age[s] >= Delay
        /\ OpenEvent(s, v)
        /\ WriteRow(s, "ALARM_ACTIVE")

\* The value must stay above its limit for the whole delay.
FromPendingAlarm(s, v) ==
  /\ InState(s, "PENDING_ALARM")
  /\ \/ /\ ~Over(v)
        /\ WriteRow(s, "NORMAL")
        /\ UNCHANGED events
     \/ /\ Over(v)
        /\ age[s] >= Delay
        /\ OpenEvent(s, v)
        /\ WriteRow(s, "ALARM_ACTIVE")
     \/ /\ Over(v)
        /\ age[s] < Delay
        /\ WriteRow(s, "PENDING_ALARM")
        /\ UNCHANGED events

FromActive(s, v) ==
  /\ InState(s, "ALARM_ACTIVE")
  /\ \/ /\ Over(v)
        /\ Raise(Open(s, {source}), v)
        /\ WriteRow(s, "ALARM_ACTIVE")
     \/ /\ ~Over(v)
        /\ WriteRow(s, "PENDING_CLEAR")
        /\ UNCHANGED events

\* Mutant: the first reading below the limit after the delay ends the alarm,
\* even if the value was above it in between.
FromPendingClearForgetful(s, v) ==
  /\ InState(s, "PENDING_CLEAR")
  /\ \/ /\ ~Over(v)
        /\ age[s] >= Delay
        /\ End(Open(s, {source}))
        /\ WriteRow(s, "NORMAL")
     \/ /\ Over(v) \/ age[s] < Delay
        /\ WriteRow(s, "PENDING_CLEAR")
        /\ UNCHANGED events

\* The value must stay within its limit for the whole delay before the alarm
\* ends; one reading above it makes the alarm active again.
FromPendingClear(s, v) ==
  /\ InState(s, "PENDING_CLEAR")
  /\ \/ /\ Over(v)
        /\ WriteRow(s, "ALARM_ACTIVE")
        /\ UNCHANGED events
     \/ /\ ~Over(v)
        /\ age[s] >= Delay
        /\ End(Open(s, {source}))
        /\ WriteRow(s, "NORMAL")
     \/ /\ ~Over(v)
        /\ age[s] < Delay
        /\ WriteRow(s, "PENDING_CLEAR")
        /\ UNCHANGED events

Evaluate(s, v) == /\ \/ RuleOff(s)
                     \/ SourceChanged(s, v)
                     \/ FromNormal(s, v)
                     \/ FromPendingAlarm(s, v)
                     \/ FromActive(s, v)
                     \/ FromPendingClear(s, v)
                  /\ Observe(s, v)
                  /\ UNCHANGED <<rule, source>>

--------------------------------------------------------------------------------
\* Time passes between readings, up to the delay, beyond which nothing changes.
Tick == /\ age' = [s \in Series |-> IF age[s] < Delay THEN age[s] + 1 ELSE Delay]
        /\ streak' = [s \in Series |->
                        [streak[s] EXCEPT !.age = IF @ < Delay THEN @ + 1 ELSE Delay]]
        /\ UNCHANGED <<alarm, rule, source, events>>

\* A new configuration enables or disables the rule.
Reconfigure(s) == /\ rule' = [rule EXCEPT ![s] = ~@]
                  /\ UNCHANGED <<alarm, age, source, events, streak>>

\* The process starts again, in device or in demo mode; both tables survive.
RestartWith(src) == /\ source' = src
                    /\ UNCHANGED <<alarm, age, rule, events, streak>>

EvalStep == \/ \E s \in Series, v \in Value : Evaluate(s, v)
            \/ Tick
            \/ \E s \in Series : Reconfigure(s)

EvalNext == EvalStep \/ \E src \in Sources : RestartWith(src)

EvalSpec == EvalInit /\ [][EvalNext]_evalVars

--------------------------------------------------------------------------------
(* Properties. *)

(***************************************************************************)
(* alarm_states and alarm_events agree: an open event belongs to a series  *)
(* whose row, for the same source, says the alarm is on, and a row that    *)
(* says so has exactly one open event.  The event updates find their row   *)
(* by "ended_at IS NULL", so a second open event, or an orphaned one,      *)
(* would be updated and ended along with it, or never end.                 *)
(***************************************************************************)
OpenEventMatchesRow ==
  /\ \A e \in DOMAIN events :
       ~events[e].ended =>
         LET r == alarm[events[e].series]
         IN  /\ r.state \in {"ALARM_ACTIVE", "PENDING_CLEAR"}
             /\ r.source = events[e].source
  /\ \A s \in Series :
       alarm[s].state \in {"ALARM_ACTIVE", "PENDING_CLEAR"} =>
         \E e \in DOMAIN events : Open(s, Sources) = {e}

(***************************************************************************)
(* No alarm is raised for a short excursion: when an event is opened,      *)
(* every reading of the last Delay has been above the limit.               *)
(***************************************************************************)
NoFalseAlarm ==
  [][\A e \in DOMAIN events' \ DOMAIN events :
       LET run == streak'[events'[e].series]
       IN  run.over /\ run.age >= Delay]_evalVars

(***************************************************************************)
(* No alarm ends early: an event ends only after Delay without a reading   *)
(* above the limit, or because the rule was disabled or the series is now  *)
(* read from another source.                                               *)
(***************************************************************************)
NoEarlyEnd ==
  [][\A e \in DOMAIN events :
       ~events[e].ended /\ events'[e].ended =>
         LET s == events[e].series
         IN  \/ ~streak'[s].over /\ streak'[s].age >= Delay
             \/ ~rule[s]
             \/ source # events[e].source]_evalVars

(***************************************************************************)
(* An event that has ended is history: it is never opened again, and what  *)
(* it recorded never changes, whatever its series does later.              *)
(***************************************************************************)
EndedIsFinal ==
  [][\A e \in DOMAIN events :
       events[e].ended => /\ e \in DOMAIN events'
                          /\ events'[e].ended
                          /\ events'[e].peak = events[e].peak]_evalVars
================================================================================
