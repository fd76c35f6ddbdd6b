-------------------------- MODULE ReadingUploadProofs --------------------------
(***************************************************************************)
(* Proofs about the readings channel, for any set of readings, batch size  *)
(* and limits: its safety invariants, and that it implements               *)
(* StoreAndForward.                                                        *)
(***************************************************************************)
EXTENDS ReadingUpload, TLAPS

(* The upload thread only ever handles rows that are queued, and what it   *)
(* remembers of the cloud's answer is still true of the cloud.             *)
ChannelInv == /\ sent \cap todo = {}
              /\ \A r \in sent \cup todo : row[r] = "queued"
              /\ sent = {} => todo = {} /\ reply = "none"
              /\ reply = "ok" => sent \subseteq Stored
              /\ reply = "invalid" => sent \cap Malformed # {}

(* Every request, even one that arrives late, carries recorded readings.   *)
LateInv == \A S \in late : \A r \in S : row[r] # "none"

(* What the cloud holds was recorded, is well formed and was not set aside. *)
CloudInv == \A r \in Reading :
              copies[r] > 0 => /\ r \notin Malformed
                               /\ row[r] \in {"queued", "synced", "pruned"}

Inv == /\ TypeOK
       /\ ChannelInv
       /\ LateInv
       /\ CloudInv
       /\ StoredOnce
       /\ QuarantineEarned
       /\ AckedIsStored

--------------------------------------------------------------------------------
(* Inserting a request's rows, whoever waits for the answer, stores at most *)
(* one copy of each and only well-formed, recorded readings.                *)
LEMMA InsertStores ==
  ASSUME Inv, NEW S \in SUBSET Reading, Insert(S),
         \A r \in S : row[r] # "none"
  PROVE  /\ copies' \in [Reading -> Nat]
         /\ \A r \in Reading : copies'[r] <= 1 /\ copies[r] <= copies'[r]
         /\ \A r \in Reading : copies'[r] > 0 =>
              /\ r \notin Malformed
              /\ row[r] \in {"queued", "synced", "pruned"}
         /\ Verdict(S) = "ok" => \A r \in S : copies'[r] > 0
<1>1. copies' \in [Reading -> Nat]
  BY DEF Insert, Inv, TypeOK
<1>2. \A r \in Reading : copies'[r] <= 1 /\ copies[r] <= copies'[r]
  BY DEF Insert, Inv, TypeOK, StoredOnce
<1>3. ASSUME NEW r \in Reading, copies'[r] > 0, copies[r] = 0
      PROVE  r \notin Malformed /\ row[r] \in {"queued", "synced", "pruned"}
  <2>1. r \in S /\ r \notin Malformed
    BY <1>3 DEF Insert, Verdict, Inv, TypeOK
  <2>2. row[r] # "quarantined"
    BY <2>1, BoundAssumption DEF Inv, QuarantineEarned, TypeOK
  <2>. QED  BY <2>1, <2>2 DEF Inv, TypeOK, RowState
<1>4. \A r \in Reading : copies'[r] > 0 =>
              /\ r \notin Malformed
              /\ row[r] \in {"queued", "synced", "pruned"}
  BY <1>3 DEF Inv, CloudInv, TypeOK
<1>5. Verdict(S) = "ok" => \A r \in S : copies'[r] > 0
  BY DEF Insert, Inv, TypeOK
<1>. QED  BY <1>1, <1>2, <1>4, <1>5

(* Taking the next row of the retry loop only moves rows from todo.         *)
LEMMA AdvanceMoves ==
  ASSUME Inv, Advance
  PROVE  /\ sent' \in SUBSET Reading /\ todo' \in SUBSET Reading
         /\ sent' \cap todo' = {}
         /\ sent' \subseteq todo /\ todo' \subseteq todo
         /\ sent' = {} => todo' = {}
         /\ reply' = "none"
BY DEF Advance, Inv, TypeOK

--------------------------------------------------------------------------------
LEMMA InitInv == Init => Inv
<1>. SUFFICES ASSUME Init PROVE Inv
  OBVIOUS
<1>1. TypeOK
  <2>1. ready \in BOOLEAN
    BY DEF Init
  <2>2. restarts \in 0..MaxRestarts /\ attempts \in [Reading -> 0..MaxAttempts]
    BY BoundAssumption DEF Init
  <2>. QED  BY <2>1, <2>2 DEF Init, TypeOK, RowState
<1>2. ChannelInv /\ LateInv /\ CloudInv /\ StoredOnce /\ AckedIsStored
  BY DEF Init, ChannelInv, LateInv, CloudInv, StoredOnce, AckedIsStored
<1>3. QuarantineEarned
  BY BoundAssumption DEF Init, QuarantineEarned
<1>. QED  BY <1>1, <1>2, <1>3 DEF Inv

LEMMA DatabaseStep ==
  ASSUME Inv, NEW r \in Reading, Record(r) \/ Prune(r)
  PROVE  Inv'
<1>. USE DEF Record, Prune
<1>1. /\ UNCHANGED <<attempts, ready, sent, todo, reply, late, copies, restarts>>
      /\ \/ row[r] = "none" /\ row' = [row EXCEPT ![r] = "queued"]
         \/ row[r] = "synced" /\ row' = [row EXCEPT ![r] = "pruned"]
  BY DEF channel
<1>. HIDE DEF Record, Prune
<1>2. TypeOK'
  BY <1>1 DEF Inv, TypeOK, RowState
<1>3. ChannelInv' /\ LateInv'
  BY <1>1 DEF Inv, TypeOK, ChannelInv, LateInv, Stored
<1>4. CloudInv' /\ StoredOnce' /\ AckedIsStored'
  BY <1>1 DEF Inv, TypeOK, CloudInv, StoredOnce, AckedIsStored, Stored
<1>5. QuarantineEarned'
  BY <1>1 DEF Inv, TypeOK, QuarantineEarned
<1>. QED  BY <1>2, <1>3, <1>4, <1>5 DEF Inv

LEMMA SelectStep ==
  ASSUME Inv, Select
  PROVE  Inv'
<1>1. PendingRows \subseteq Pending /\ Pending \subseteq Reading
  BY DEF PendingRows, Pending
<1>. QED
  BY <1>1 DEF Select, Pending, Inv, TypeOK, ChannelInv, LateInv, CloudInv, StoredOnce,
              QuarantineEarned, AckedIsStored, Stored

LEMMA AcknowledgeStep ==
  ASSUME Inv, Acknowledge
  PROVE  Inv'
<1>. Advance
  BY DEF Acknowledge
<1>. USE DEF Acknowledge
<1>1. TypeOK'
  BY AdvanceMoves DEF Inv, TypeOK, RowState
<1>2. ChannelInv' /\ LateInv'
  BY AdvanceMoves DEF Inv, TypeOK, ChannelInv, LateInv, Stored
<1>3. CloudInv' /\ StoredOnce'
  BY DEF Inv, TypeOK, CloudInv, StoredOnce
<1>4. QuarantineEarned'
  BY DEF Inv, TypeOK, QuarantineEarned, ChannelInv
<1>5. AckedIsStored'
  BY DEF Inv, TypeOK, AckedIsStored, ChannelInv, Stored
<1>. QED  BY <1>1, <1>2, <1>3, <1>4, <1>5 DEF Inv

LEMMA RejectItemStep ==
  ASSUME Inv, RejectItem
  PROVE  Inv'
<1>1. PICK r \in Reading :
        /\ reply = "invalid"
        /\ sent = {r}
        /\ attempts' = [attempts EXCEPT ![r] = @ + 1]
        /\ row' = [row EXCEPT ![r] = IF attempts[r] + 1 >= MaxAttempts
                                     THEN "quarantined" ELSE @]
        /\ Advance
        /\ UNCHANGED <<ready, late, copies, restarts>>
  BY DEF RejectItem
<1>2. r \in Malformed /\ row[r] = "queued" /\ r \notin todo
  BY <1>1 DEF Inv, ChannelInv
<1>3. attempts[r] \in 0..MaxAttempts /\ attempts[r] < MaxAttempts
  BY <1>2, BoundAssumption DEF Inv, TypeOK, QuarantineEarned
<1>4. TypeOK'
  BY <1>1, <1>3, BoundAssumption, AdvanceMoves DEF Inv, TypeOK, RowState
<1>5. ChannelInv' /\ LateInv'
  BY <1>1, <1>2, AdvanceMoves DEF Inv, TypeOK, ChannelInv, LateInv, Stored
<1>6. CloudInv' /\ StoredOnce'
  BY <1>1, <1>2 DEF Inv, TypeOK, CloudInv, StoredOnce
<1>7. QuarantineEarned'
  BY <1>1, <1>2, <1>3, BoundAssumption DEF Inv, TypeOK, QuarantineEarned
<1>8. AckedIsStored'
  BY <1>1, <1>2 DEF Inv, TypeOK, AckedIsStored, Stored
<1>. QED  BY <1>4, <1>5, <1>6, <1>7, <1>8 DEF Inv

(* Steps that touch neither database: splitting, giving up, losing the      *)
(* request, restarting, and the configuration becoming ready.               *)
LEMMA ThreadStep ==
  ASSUME Inv, ConfigPulled \/ Split \/ GiveUp \/ TimedOut \/ Restart
  PROVE  Inv'
<1>1. UNCHANGED <<row, attempts, copies>>
  BY DEF ConfigPulled, Split, GiveUp, TimedOut, Restart
<1>2. late' = late \/ late' = late \cup {sent}
  BY DEF ConfigPulled, Split, GiveUp, TimedOut, Restart, Abandoned
<1>3. sent' \subseteq sent /\ todo' \subseteq sent \cup todo /\ sent' \cap todo' = {}
  BY DEF ConfigPulled, Split, GiveUp, TimedOut, Restart, Inv, ChannelInv, channel
<1>4. /\ reply' \in {"none", "error", reply}
      /\ reply' = reply => sent' = sent \/ sent' = {}
      /\ sent' = {} => todo' = {} /\ reply' = "none"
  BY DEF ConfigPulled, Split, GiveUp, TimedOut, Restart, Inv, ChannelInv, channel
<1>5. ready' \in BOOLEAN /\ restarts' \in 0..MaxRestarts
  <2>1. CASE Restart
    <3>1. ready' \in BOOLEAN
      BY <2>1 DEF Restart
    <3>2. restarts' \in 0..MaxRestarts
      BY <2>1, BoundAssumption DEF Restart, Inv, TypeOK
    <3>. QED  BY <3>1, <3>2
  <2>2. CASE ConfigPulled \/ Split \/ GiveUp \/ TimedOut
    <3>1. ready' \in {ready, TRUE} /\ restarts' = restarts
      BY <2>2 DEF ConfigPulled, Split, GiveUp, TimedOut
    <3>. QED  BY <3>1 DEF Inv, TypeOK
  <2>. QED  BY <2>1, <2>2
<1>6. TypeOK'
  BY <1>1, <1>2, <1>3, <1>4, <1>5 DEF Inv, TypeOK
<1>7. ChannelInv'
  BY <1>1, <1>3, <1>4 DEF Inv, TypeOK, ChannelInv, Stored
<1>8. LateInv'
  <2>1. \A r \in sent : row[r] # "none"
    BY DEF Inv, ChannelInv
  <2>. QED  BY <1>1, <1>2, <2>1 DEF Inv, LateInv
<1>9. CloudInv' /\ StoredOnce' /\ QuarantineEarned' /\ AckedIsStored'
  BY <1>1 DEF Inv, CloudInv, StoredOnce, QuarantineEarned, AckedIsStored, Stored
<1>. QED  BY <1>6, <1>7, <1>8, <1>9 DEF Inv

LEMMA CloudStep ==
  ASSUME Inv, Ingest \/ (\E S \in late : IngestLate(S))
  PROVE  Inv'
<1>1. PICK S \in SUBSET Reading : /\ Insert(S)
                                  /\ \A r \in S : row[r] # "none"
                                  /\ \/ sent = S /\ sent # {} /\ reply' = Verdict(sent)
                                     \/ reply' = reply
  BY DEF Ingest, IngestLate, channel, Inv, TypeOK, ChannelInv, LateInv
<1>2. UNCHANGED <<row, attempts, ready, sent, todo, restarts>> /\ late' \subseteq late
  BY DEF Ingest, IngestLate, channel
<1>3. Verdict(S) \in {"ok", "invalid", "error"}
  BY DEF Verdict
<1>4. TypeOK'
  BY <1>1, <1>2, <1>3, InsertStores DEF Inv, TypeOK
<1>5. ChannelInv'
  <2>1. (sent = {} => todo = {} /\ reply = "none")'
    BY <1>1, <1>2 DEF Inv, ChannelInv
  <2>2. (reply = "ok" => sent \subseteq Stored)'
    BY <1>1, <1>2, InsertStores DEF Inv, TypeOK, ChannelInv, Stored
  <2>3. (reply = "invalid" => sent \cap Malformed # {})'
    BY <1>1, <1>2 DEF Inv, ChannelInv, Verdict
  <2>. QED  BY <1>2, <2>1, <2>2, <2>3 DEF Inv, ChannelInv
<1>6. LateInv' /\ QuarantineEarned'
  BY <1>2 DEF Inv, LateInv, QuarantineEarned
<1>7. CloudInv' /\ StoredOnce'
  BY <1>1, <1>2, InsertStores DEF CloudInv, StoredOnce
<1>8. AckedIsStored'
  BY <1>1, <1>2, InsertStores DEF Inv, TypeOK, AckedIsStored, Stored
<1>. QED  BY <1>4, <1>5, <1>6, <1>7, <1>8 DEF Inv

LEMMA NextInv == Inv /\ [Next]_vars => Inv'
<1>. SUFFICES ASSUME Inv, [Next]_vars PROVE Inv'
  OBVIOUS
<1>1. CASE UNCHANGED vars
  BY <1>1 DEF vars, Inv, TypeOK, ChannelInv, LateInv, CloudInv, StoredOnce,
              QuarantineEarned, AckedIsStored, Stored
<1>2. CASE NothingPending
  BY <1>1, <1>2 DEF NothingPending
<1>. QED
  BY <1>1, <1>2, DatabaseStep, SelectStep, AcknowledgeStep, RejectItemStep, ThreadStep,
     CloudStep DEF Next, UploadStep

(* The inductive invariant holds in every behaviour.                        *)
LEMMA Invariance == Spec => []Inv
BY InitInv, NextInv, PTL DEF Spec
--------------------------------------------------------------------------------
(***************************************************************************)
(* Types, and the limit on attempts, hold in every behaviour.              *)
(***************************************************************************)
THEOREM TypeCorrect == Spec => []TypeOK
BY Invariance, PTL DEF Inv

(***************************************************************************)
(* No reading is given up locally before the cloud has stored it.          *)
(***************************************************************************)
THEOREM NoReadingLost == Spec => []AckedIsStored
BY Invariance, PTL DEF Inv

(***************************************************************************)
(* Repeated and late requests never duplicate a reading in the cloud.      *)
(***************************************************************************)
THEOREM NoReadingDuplicated == Spec => []StoredOnce
BY Invariance, PTL DEF Inv

(***************************************************************************)
(* Only malformed rows are charged or quarantined, and only at the limit.  *)
(***************************************************************************)
THEOREM OnlyBadRowsQuarantined == Spec => []QuarantineEarned
BY Invariance, PTL DEF Inv

--------------------------------------------------------------------------------
(* The value of the abstract local state, case by case.                     *)
LEMMA LocalViewValue ==
  ASSUME TypeOK
  PROVE  /\ LocalView = [r \in Reading |-> LocalView[r]]
         /\ \A r \in Reading : /\ row[r] = "none" => LocalView[r] = "none"
                               /\ row[r] = "queued" => LocalView[r] = "held"
                               /\ row[r] = "quarantined" => LocalView[r] = "refused"
                               /\ row[r] \in {"synced", "pruned"} => LocalView[r] = "released"
BY DEF LocalView, TypeOK, RowState

(* A step that leaves the rows alone leaves the abstract local state alone. *)
LEMMA LocalViewUnchanged ==
  ASSUME row' = row
  PROVE  LocalView' = LocalView
BY DEF LocalView

LEMMA RecordMaps ==
  ASSUME Inv, Inv', NEW r \in Reading, Record(r)
  PROVE  Forward!Capture(r)
<1>1. row[r] = "none" /\ row' = [row EXCEPT ![r] = "queued"] /\ copies' = copies
  BY DEF Record
<1>2. LocalView[r] = "none" /\ LocalView'[r] = "held"
  BY <1>1, LocalViewValue DEF Inv, TypeOK, LocalView
<1>3. \A x \in Reading \ {r} : LocalView'[x] = LocalView[x]
  BY <1>1 DEF Inv, TypeOK, LocalView
<1>4. LocalView' = [LocalView EXCEPT ![r] = "held"]
  BY <1>2, <1>3 DEF LocalView
<1>. QED  BY <1>1, <1>2, <1>4 DEF Forward!Capture, Stored

(* Pruning removes a row the abstract collector has already released.       *)
LEMMA PruneStutters ==
  ASSUME Inv, NEW r \in Reading, Prune(r)
  PROVE  LocalView' = LocalView /\ Stored' = Stored
<1>1. row[r] = "synced" /\ row' = [row EXCEPT ![r] = "pruned"] /\ copies' = copies
  BY DEF Prune
<1>2. \A x \in Reading : LocalView'[x] = LocalView[x]
  BY <1>1 DEF Inv, TypeOK, LocalView
<1>. QED  BY <1>1, <1>2 DEF LocalView, Stored

LEMMA AcknowledgeMaps ==
  ASSUME Inv, Acknowledge
  PROVE  Forward!Release(sent)
<1>1. /\ row' = [r \in Reading |-> IF r \in sent THEN "synced" ELSE row[r]]
      /\ copies' = copies
      /\ \A r \in sent : row[r] = "queued" /\ r \in Stored /\ r \in Reading
  BY DEF Acknowledge, Inv, TypeOK, ChannelInv
<1>2. \A r \in sent : LocalView[r] = "held"
  BY <1>1 DEF LocalView
<1>3. LocalView' = [r \in Reading |-> IF r \in sent THEN "released" ELSE LocalView[r]]
  BY <1>1 DEF LocalView
<1>. QED  BY <1>1, <1>2, <1>3 DEF Forward!Release, Stored

LEMMA RejectItemMaps ==
  ASSUME Inv, RejectItem
  PROVE  \/ \E r \in Reading : Forward!Refuse(r)
         \/ LocalView' = LocalView /\ Stored' = Stored
<1>1. PICK r \in Reading :
        /\ reply = "invalid"
        /\ sent = {r}
        /\ \/ row' = [row EXCEPT ![r] = "quarantined"]
           \/ row' = row
        /\ copies' = copies
  <2>1. PICK r \in Reading :
          /\ reply = "invalid" /\ sent = {r} /\ copies' = copies
          /\ row' = [row EXCEPT ![r] = IF attempts[r] + 1 >= MaxAttempts
                                       THEN "quarantined" ELSE @]
    BY DEF RejectItem
  <2>2. row \in [Reading -> RowState]
    BY DEF Inv, TypeOK
  <2>3. \/ row' = [row EXCEPT ![r] = "quarantined"]
        \/ row' = row
    BY <2>1, <2>2
  <2>. QED  BY <2>1, <2>3
<1>2. row[r] = "queued" /\ r \in Malformed
  BY <1>1 DEF Inv, ChannelInv
<1>3. LocalView[r] = "held" /\ r \notin Stored
  BY <1>2 DEF LocalView, Inv, CloudInv, Stored
<1>4. CASE row' = [row EXCEPT ![r] = "quarantined"]
  <2>1. LocalView' = [LocalView EXCEPT ![r] = "refused"]
    BY <1>4 DEF LocalView, Inv, TypeOK
  <2>. QED  BY <1>1, <1>3, <2>1 DEF Forward!Refuse, Stored
<1>5. CASE row' = row
  BY <1>1, <1>5 DEF LocalView, Stored
<1>. QED  BY <1>1, <1>4, <1>5

(* The cloud stores the rows of one request: all of those it did not have,  *)
(* or none.                                                                 *)
LEMMA CloudMaps ==
  ASSUME Inv, Ingest \/ (\E S \in late : IngestLate(S))
  PROVE  \E D \in SUBSET Reading : Forward!Deliver(D)
<1>1. PICK S \in SUBSET Reading : Insert(S) /\ row' = row /\ \A r \in S : row[r] # "none"
  BY DEF Ingest, IngestLate, Inv, TypeOK, ChannelInv, LateInv
<1>. DEFINE D == Stored' \ Stored
<1>2. D \in SUBSET Reading /\ Stored' = Stored \cup D
  BY <1>1, InsertStores DEF Stored, Inv, TypeOK
<1>3. ASSUME NEW r \in D PROVE LocalView[r] = "held"
  <2>1. r \in Reading /\ copies[r] = 0 /\ copies'[r] > 0
    BY DEF Stored, Inv, TypeOK
  <2>2. row[r] \in {"queued", "synced", "pruned"}
    BY <1>1, <2>1, InsertStores
  <2>3. row[r] = "queued"
    BY <2>1, <2>2 DEF Inv, AckedIsStored, Stored
  <2>. QED  BY <2>1, <2>3 DEF LocalView
<1>4. Forward!Deliver(D)
  BY <1>1, <1>2, <1>3, LocalViewUnchanged DEF Forward!Deliver
<1>. QED  BY <1>2, <1>4

LEMMA StepMaps == Inv /\ Inv' /\ [Next]_vars => [Forward!Next]_(Forward!vars)
<1>. SUFFICES ASSUME Inv, Inv', [Next]_vars PROVE [Forward!Next]_(Forward!vars)
  OBVIOUS
<1>1. ASSUME NEW r \in Reading, Record(r) PROVE Forward!Next
  BY <1>1, RecordMaps DEF Forward!Next
<1>2. ASSUME NEW r \in Reading, Prune(r) PROVE UNCHANGED Forward!vars
  BY <1>2, PruneStutters DEF Forward!vars
<1>3. CASE Acknowledge
  BY <1>3, AcknowledgeMaps DEF Forward!Next, Inv, TypeOK
<1>4. CASE RejectItem
  BY <1>4, RejectItemMaps DEF Forward!Next, Forward!vars
<1>5. CASE Ingest \/ \E S \in late : IngestLate(S)
  BY <1>5, CloudMaps DEF Forward!Next
<1>6. CASE \/ ConfigPulled \/ Select \/ Split \/ GiveUp \/ TimedOut \/ Restart
           \/ NothingPending \/ UNCHANGED vars
  <2>1. row' = row /\ copies' = copies
    BY <1>6 DEF ConfigPulled, Select, Split, GiveUp, TimedOut, Restart, NothingPending, vars
  <2>. QED  BY <2>1, LocalViewUnchanged DEF Forward!vars, Stored
<1>. QED  BY <1>1, <1>2, <1>3, <1>4, <1>5, <1>6 DEF Next, UploadStep

(***************************************************************************)
(* The readings channel implements the store-and-forward contract, for     *)
(* every set of readings, batch size, attempt limit and number of restarts *)
(* or late requests.                                                       *)
(***************************************************************************)
THEOREM UploadRefinesContract == Spec => ImplementsStoreAndForward
<1>1. Init => Forward!Init
  <2>. SUFFICES ASSUME Init PROVE Forward!Init
    OBVIOUS
  <2>1. LocalView = [r \in Reading |-> "none"]
    BY DEF Init, LocalView
  <2>2. Stored = {}
    BY DEF Init, Stored
  <2>. QED  BY <2>1, <2>2 DEF Forward!Init
<1>. QED
  BY <1>1, StepMaps, Invariance, PTL DEF Spec, ImplementsStoreAndForward, Forward!Spec
================================================================================
