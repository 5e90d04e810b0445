--------------------------- MODULE DirectWorkflow ---------------------------
(* A workflow run by the core itself (workflow-coordinator.ts): the executor *)
(* of ctx.app.workflows, which a registered consumer's definition takes      *)
(* through its groups of steps when the caller gives no id, and the executor *)
(* of ctx.workflows (request-bound-emitters.ts).                             *)
(*                                                                           *)
(* An execution is one promise: flow[e].at says what it awaits.  The         *)
(* registration has made sure that the consumer of a definition with steps   *)
(* has an object of handlers, not that every step has one in it: Handled.    *)
(* It has made sure too that there is a provider; an execution that is given *)
(* an id, or has no consumer, is that provider's and not modelled here.      *)
EXTENDS Integers, SequencesExt

CONSTANTS
  Execs,       \* executions
  Groups,      \* stepGroups: [parallel |-> BOOLEAN, steps |-> sequence]
  Handled,     \* per execution, the steps its workflow's consumer has a handler for
  Undoable     \* the steps with a rollback handler

VARIABLES
  flow,        \* executions of createExecutor()
  handle       \* DirectInvocationHandle of ctx.workflows

Steps == UNION {Range(Groups[g].steps) : g \in DOMAIN Groups}

\* StepBuilder puts a step in every sequential group; the steps have names of
\* their own.
ASSUME GroupsAssumption ==
  /\ Groups \in Seq([parallel : BOOLEAN, steps : Seq(Steps)])
  /\ \A g \in DOMAIN Groups : Groups[g].parallel \/ Groups[g].steps # <<>>
  /\ \A g, h \in DOMAIN Groups : \A i \in DOMAIN Groups[g].steps, j \in DOMAIN Groups[h].steps :
       Groups[g].steps[i] = Groups[h].steps[j] => g = h /\ i = j
  /\ Undoable \subseteq Steps
  /\ Handled \in [Execs -> SUBSET Steps]

FlowInit ==
  /\ flow = [e \in Execs |->
       [at |-> "none", group |-> 0, step |-> 0, running |-> {}, fulfilled |-> {},
        completed |-> <<>>, undoing |-> {}, undone |-> {}, out |-> "pending"]]
  /\ handle = [e \in Execs |-> "none"]

\* A group begins; after the last one the consumer's onComplete is called.
Enter(f, g) ==
  IF g > Len(Groups) THEN [f EXCEPT !.at = "complete", !.group = g]
  ELSE [f EXCEPT
          !.group = g,
          !.at = IF Groups[g].parallel THEN "parallel" ELSE "step",
          !.step = 1,
          !.running = IF Groups[g].parallel THEN Range(Groups[g].steps) ELSE {},
          !.fulfilled = {}]

\* executeRollbacks() goes through the completed steps.
ExecuteRollbacks(f) ==
  [f EXCEPT !.at = "rollback",
            !.undoing = {i \in DOMAIN f.completed : f.completed[i] \in Undoable}]

Current(f) == Groups[f.group].steps[f.step]

\* execute() with valid data: everything up to the first await.
Execute(e) ==
  /\ flow[e].at = "none"
  /\ flow' = [flow EXCEPT ![e] = Enter(@, 1)]
  /\ UNCHANGED handle

\* A sequential step without a handler: what the loop throws goes past the
\* rollbacks to the caller.  (A step of its own, in the turn of the one before.)
HandlerMissing(e) ==
  /\ flow[e].at = "step"
  /\ Current(flow[e]) \notin Handled[e]
  /\ flow' = [flow EXCEPT ![e] = [@ EXCEPT !.at = "escaped", !.out = "rejected"]]
  /\ UNCHANGED handle

StepEnds(e) ==
  /\ flow[e].at = "step"
  /\ Current(flow[e]) \in Handled[e]
  /\ LET f == [flow[e] EXCEPT !.completed = Append(@, Current(flow[e]))] IN
     flow' = [flow EXCEPT ![e] = IF f.step < Len(Groups[f.group].steps)
                                 THEN [f EXCEPT !.step = @ + 1]
                                 ELSE Enter(f, f.group + 1)]
  /\ UNCHANGED handle

\* The step throws, or its result does not fit its schema.
StepFails(e) ==
  /\ flow[e].at = "step"
  /\ Current(flow[e]) \in Handled[e]
  /\ flow' = [flow EXCEPT ![e] = ExecuteRollbacks(@)]
  /\ UNCHANGED handle

\* One of the parallel steps is fulfilled or rejected; without a handler, rejected.
Settles(e, s, ok) ==
  /\ s \in flow[e].running
  /\ ok => s \in Handled[e]
  /\ LET f == flow[e] IN
     flow' = [flow EXCEPT ![e] = [f EXCEPT !.running = @ \ {s},
                                           !.fulfilled = IF ok THEN @ \cup {s} ELSE @]]
  /\ UNCHANGED handle

\* What is completed once those of `steps` are that are in `done`.
CompletedWith(completed, steps, done) ==
  FoldLeft(LAMBDA c, s : IF s \in done THEN Append(c, s) ELSE c, completed, steps)

\* Promise.allSettled: the fulfilled steps count as completed in the order of
\* the definition, whether the group goes on or is rolled back.
AllSettled(e) ==
  /\ flow[e].at = "parallel"
  /\ flow[e].running = {}
  /\ LET done == flow[e].fulfilled
         steps == Groups[flow[e].group].steps
         f == [flow[e] EXCEPT !.completed = CompletedWith(@, steps, done)]
     IN  flow' = [flow EXCEPT ![e] = IF done = Range(steps) THEN Enter(f, f.group + 1)
                                     ELSE ExecuteRollbacks(f)]
  /\ UNCHANGED handle

\* The rollback handler of completed step i ends or throws, which is logged.
UndoneAt(e, i) ==
  LET f == flow[e] IN
  flow' = [flow EXCEPT ![e] = [f EXCEPT !.undone = @ \cup {f.completed[i]},
                                        !.undoing = @ \ {i}]]

\* Mutant: the completed steps are rolled back in the order they ran.
RollbackForwardEnds(e) ==
  /\ flow[e].at = "rollback"
  /\ flow[e].undoing # {}
  /\ UndoneAt(e, Min(flow[e].undoing))
  /\ UNCHANGED handle

\* The last of the completed steps is rolled back first.
RollbackEnds(e) ==
  /\ flow[e].at = "rollback"
  /\ flow[e].undoing # {}
  /\ UndoneAt(e, Max(flow[e].undoing))
  /\ UNCHANGED handle

\* The original error is thrown again.
Rethrown(e) ==
  /\ flow[e].at = "rollback"
  /\ flow[e].undoing = {}
  /\ flow' = [flow EXCEPT ![e] = [@ EXCEPT !.at = "end", !.out = "rejected"]]
  /\ UNCHANGED handle

\* onComplete returns a result that fits its schema, or it does not.
Completes(e, ok) ==
  /\ flow[e].at = "complete"
  /\ flow' = [flow EXCEPT ![e] = [@ EXCEPT !.at = "end",
                                           !.out = IF ok THEN "resolved" ELSE "rejected"]]
  /\ UNCHANGED handle

\* RequestBoundWorkflowExecutor.execute(): onComplete is called at once.
BoundExecute(e) ==
  /\ handle[e] = "none"
  /\ handle' = [handle EXCEPT ![e] = "running"]
  /\ UNCHANGED flow

BoundCompletes(e, ok) ==
  /\ handle[e] = "running"
  /\ handle' = [handle EXCEPT ![e] = IF ok THEN "completed" ELSE "failed"]
  /\ UNCHANGED flow

FlowStep(e) ==
  \/ HandlerMissing(e) \/ StepEnds(e) \/ StepFails(e) \/ AllSettled(e)
  \/ \E s \in Steps, ok \in BOOLEAN : Settles(e, s, ok)
  \/ RollbackEnds(e) \/ Rethrown(e)
  \/ \E ok \in BOOLEAN : Completes(e, ok) \/ BoundCompletes(e, ok)

-----------------------------------------------------------------------------
(* What it promises: Saga.  The steps of a sequential group are a group each *)
(* in Saga, which is free within a group.                                    *)

\* How many places the first g groups have.
Places[g \in 0..Len(Groups)] ==
  IF g = 0 THEN 0
  ELSE Places[g - 1] + (IF Groups[g].parallel THEN 1 ELSE Len(Groups[g].steps))

PlaceIn(g, k) == Places[g - 1] + (IF Groups[g].parallel THEN 1 ELSE k)

Place(s) ==
  LET g == CHOOSE i \in DOMAIN Groups : s \in Range(Groups[i].steps)
  IN  PlaceIn(g, CHOOSE k \in DOMAIN Groups[g].steps : Groups[g].steps[k] = s)

Applied(f) == Range(f.completed) \cup f.fulfilled

PhaseOf(at) == CASE at = "none" -> "new"
                 [] at = "rollback" -> "backward"
                 [] at \in {"end", "escaped"} -> "done"
                 [] OTHER -> "forward"

\* The steps of a sequential group that an execution finds no handler for.
Unhandled(e) ==
  {s \in Steps \ Handled[e] :
     \E g \in DOMAIN Groups : s \in Range(Groups[g].steps) /\ ~ Groups[g].parallel}

DirectSaga == INSTANCE Saga WITH
  GroupOf <- [s \in Steps |-> Place(s)],
  Faulty <- [e \in Execs |-> Unhandled(e)],
  phase <- [e \in Execs |-> PhaseOf(flow[e].at)],
  applied <- [e \in Execs |-> Applied(flow[e])],
  undone <- [e \in Execs |-> flow[e].undone],
  outcome <- [e \in Execs |-> flow[e].out]

\* An execution of ctx.app.workflows is a saga: its steps are applied group by
\* group, a failure undoes what was applied in reverse, also when it struck in
\* the middle of a parallel group, and success means that nothing is missing; only
\* at a sequential step without a handler may one be abandoned half-way.
DirectImplementsSaga == DirectSaga!Spec
=============================================================================
