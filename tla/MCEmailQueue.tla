------------------------------ MODULE MCEmailQueue -----------------------------
(* One alarm, one recipient, two workers, two attempts.                       *)
EXTENDS EmailQueue

EventMC == {"e1"}
RecipientMC == {"ops"}
WorkerMC == {"w1", "w2"}
================================================================================
