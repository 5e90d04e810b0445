------------------------------- MODULE Saga -------------------------------
(***************************************************************************)
(* What a workflow execution promises, whichever provider runs it (guide/  *)
(* 12-workflows.md, Compensation and Rollback): effects are applied group  *)
(* by group; an execution whose step failed undoes every effect it can,    *)
(* later groups first, and applies nothing once it has begun to undo; its  *)
(* caller is told of success only when every step was applied.             *)
(*                                                                         *)
(* An execution e may be abandoned in the middle only by a step in         *)
(* Faulty[e]: one whose error is not routed to the compensation.           *)
(***************************************************************************)
EXTENDS Integers

CONSTANTS Execs, Steps, GroupOf, Undoable, Faulty

VARIABLES phase, applied, undone, outcome

vars == <<phase, applied, undone, outcome>>

Init ==
  /\ phase = [e \in Execs |-> "new"]
  /\ applied = [e \in Execs |-> {}]
  /\ undone = [e \in Execs |-> {}]
  /\ outcome = [e \in Execs |-> "pending"]

\* The step's group has been reached: every step of an earlier group was applied.
Reached(e, s) == \A t \in Steps : GroupOf[t] < GroupOf[s] => t \in applied[e]

Begin(e) ==
  /\ phase[e] = "new"
  /\ phase' = [phase EXCEPT ![e] = "forward"]
  /\ UNCHANGED <<applied, undone, outcome>>

\* Siblings of a failed step may still be applied until the first rollback.
Apply(e, s) ==
  /\ phase[e] \in {"forward", "backward"} /\ undone[e] = {}
  /\ s \notin applied[e] /\ Reached(e, s)
  /\ applied' = [applied EXCEPT ![e] = @ \union {s}]
  /\ UNCHANGED <<phase, undone, outcome>>

Abort(e) ==
  /\ phase[e] = "forward"
  /\ phase' = [phase EXCEPT ![e] = "backward"]
  /\ UNCHANGED <<applied, undone, outcome>>

Remaining(e) == (applied[e] \cap Undoable) \ undone[e]

Undo(e, s) ==
  /\ phase[e] = "backward"
  /\ s \in Remaining(e)
  /\ \A t \in Remaining(e) : GroupOf[t] <= GroupOf[s]
  /\ undone' = [undone EXCEPT ![e] = @ \union {s}]
  /\ UNCHANGED <<phase, applied, outcome>>

Commit(e) ==
  /\ phase[e] = "forward" /\ applied[e] = Steps
  /\ phase' = [phase EXCEPT ![e] = "done"]
  /\ outcome' = [outcome EXCEPT ![e] = IF @ = "pending" THEN "resolved" ELSE @]
  /\ UNCHANGED <<applied, undone>>

\* The end of an execution that did not succeed: with the completion handler's error,
\* fully compensated, or abandoned.  The caller may be told now or later.
Fail(e) ==
  /\ \/ phase[e] = "forward" /\ applied[e] = Steps
     \/ phase[e] = "backward" /\ Remaining(e) = {}
     \/ phase[e] = "forward" /\ \E s \in Faulty[e] \ applied[e] : Reached(e, s)
  /\ phase' = [phase EXCEPT ![e] = "done"]
  /\ outcome' \in {outcome, [outcome EXCEPT ![e] = IF @ = "pending" THEN "rejected" ELSE @]}
  /\ UNCHANGED <<applied, undone>>

\* The caller learns of the failure, or of a timeout, and the execution goes on.
Reject(e) ==
  /\ phase[e] # "new" /\ outcome[e] = "pending"
  /\ outcome' = [outcome EXCEPT ![e] = "rejected"]
  /\ UNCHANGED <<phase, applied, undone>>

Next ==
  \E e \in Execs : \/ Begin(e) \/ Abort(e) \/ Commit(e) \/ Fail(e) \/ Reject(e)
                   \/ \E s \in Steps : Apply(e, s) \/ Undo(e, s)

Spec == Init /\ [][Next]_vars
=============================================================================
