----------------------------- MODULE TaskLedger -----------------------------
(***************************************************************************)
(* What the background-task registry of one run promises to the loop and   *)
(* to the host, with the promises, timers and handlers left out: a task is *)
(* opened at most once, reported at most once and then closed for good;    *)
(* after the ledger is sealed (the run has ended) nothing is opened any    *)
(* more, and what is open is eventually closed.                            *)
(* BackgroundTasks implements this module.                                 *)
(***************************************************************************)
CONSTANTS Tasks,     \* the tasks a run may ever be asked to adopt
          Silent     \* those registered with "silent": they owe no report

VARIABLES stage,     \* of each task: absent, open, reported, closed
          sealed     \* the run has ended

ledgerVars == <<stage, sealed>>

LedgerInit ==
  /\ stage = [t \in Tasks |-> "absent"]
  /\ sealed = FALSE

(* A task enters the ledger, unless the run is over. *)
OpenTask(t) ==
  /\ ~sealed
  /\ stage[t] = "absent"
  /\ stage' = [stage EXCEPT ![t] = "open"]
  /\ UNCHANGED sealed

(* The one completion report of a task that owes one. *)
ReportTask(t) ==
  /\ t \notin Silent
  /\ stage[t] = "open"
  /\ stage' = [stage EXCEPT ![t] = "reported"]
  /\ UNCHANGED sealed

CloseTask(t) ==
  /\ stage[t] = IF t \in Silent THEN "open" ELSE "reported"
  /\ stage' = [stage EXCEPT ![t] = "closed"]
  /\ UNCHANGED sealed

Seal ==
  /\ sealed' = TRUE
  /\ UNCHANGED stage

LedgerNext ==
  \/ \E t \in Tasks : OpenTask(t) \/ ReportTask(t) \/ CloseTask(t)
  \/ Seal

LedgerSafety == LedgerInit /\ [][LedgerNext]_ledgerVars

(* Once sealed, every open task is reported (if it owes a report) and closed. *)
LedgerDrains ==
  \A t \in Tasks : sealed ~> stage[t] \in {"absent", "closed"}

LedgerSpec == LedgerSafety /\ LedgerDrains
=============================================================================
