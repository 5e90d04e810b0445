------------------------------ MODULE MCShared ------------------------------
(* Three objects that a process has one of and that share nothing, in one   *)
(* run: a behaviour is one of a singleflight key (four callers, four        *)
(* flights, two forgets, functions that may throw synchronously), one of    *)
(* the log, under one of the budgets below, or one of the test event        *)
(* provider (three emissions, two keys).                                     *)
EXTENDS Singleflight, Logging, TestEvents

VARIABLE part   \* whose behaviour this is: "flights", "log" or "events"

Budget(lines, configures, failures, echoes, shutdowns) ==
  [lines |-> lines, configures |-> configures, failures |-> failures,
   echoes |-> echoes, shutdowns |-> shutdowns]

\* Enough lines to rotate until files are deleted; failures up to the breaker;
\* two configurations and a shutdown; a transport that logs, and a shutdown.
LogBudgets ==
  {Budget(5, 1, 0, 0, 0), Budget(4, 1, 2, 0, 0),
   Budget(3, 2, 0, 0, 1), Budget(4, 1, 0, 1, 1)}

SharedInit ==
  /\ FlightInit /\ LogInit /\ TestInit
  /\ part = "log" \/ (part \in {"flights", "events"} /\ left = Budget(5, 1, 0, 0, 0))

SharedNext ==
  \/ part = "flights" /\ FlightNext /\ UNCHANGED <<logVars, testVars, part>>
  \/ part = "log" /\ LogNext /\ UNCHANGED <<flightVars, testVars, part>>
  \/ part = "events" /\ TestNext /\ UNCHANGED <<flightVars, logVars, part>>

SharedSpec ==
  /\ SharedInit /\ [][SharedNext]_<<flightVars, logVars, testVars, part>>
  /\ Fairness /\ LogFairness

(* A cached error and a buffered line are not kept for ever.                 *)
EverythingMovesOn == Recovers /\ LinesMoveOn
=============================================================================
