---------------------------- MODULE MCBullQueues ----------------------------
(***************************************************************************)
(* An instance of BullQueues for TLC.  Every behaviour has one of five     *)
(* budgets: the receipts of one key with two retirements and a failure, or *)
(* with a crash, or with cancel() and the sweep; the workers, with         *)
(* replacements, jobs and a stop; the schedules.                           *)
(***************************************************************************)
EXTENDS BullQueues

CONSTANTS p1, p2, k1, i1, cron, every, badCron, none

MCProcs == {p1, p2}
MCKeys == {k1}
MCIds == {i1}
MCOptions == {cron, every, badCron}
MCBadOptions == {badCron}

Nothing == [emit |-> 0, retire |-> 0, cancel |-> 0, register |-> 0, schedule |-> 0,
            unschedule |-> 0, stop |-> 0, crash |-> 0, fail |-> 0, sweep |-> 0]

MCBudgets == {
  [Nothing EXCEPT !.register = 1, !.emit = 2, !.retire = 2, !.fail = 1],
  [Nothing EXCEPT !.register = 2, !.emit = 2, !.retire = 2, !.crash = 1],
  [Nothing EXCEPT !.register = 1, !.emit = 2, !.retire = 1, !.cancel = 1, !.sweep = 1],
  [Nothing EXCEPT !.register = 3, !.emit = 1, !.stop = 1, !.fail = 1],
  [Nothing EXCEPT !.schedule = 2, !.unschedule = 2, !.fail = 1, !.stop = 1, !.crash = 1]
}
=============================================================================
