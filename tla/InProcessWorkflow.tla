------------------------- MODULE InProcessWorkflow -------------------------
(***************************************************************************)
(* The in-process workflow provider                                        *)
(* (packages/workflows/src/in-process-workflow-provider.ts).               *)
(*                                                                         *)
(* execute() creates an execution that runs the definition's step groups   *)
(* in order, calls the completion handler and settles the promise that the *)
(* returned handle awaits.  A failed step runs the rollbacks of the steps  *)
(* completed so far.  A timer, the five-minute cleanup of finished flows,  *)
(* stop() and a second execute() with the same id all interleave with it.  *)
(*                                                                         *)
(* An action runs from one await of the code to the next.  Steps are       *)
(* numbered in definition order, and completedStepsWithRollback is only    *)
(* ever pushed to in that order (a parallel group pushes in the order of   *)
(* its definitions), so the array is the set of its elements and its       *)
(* reversal takes the largest number first.                                *)
(***************************************************************************)
EXTENDS Integers, FiniteSets

CONSTANTS
  Flows,               \* the flow ids callers ask for
  Workflows,           \* the registered workflows; they share one step structure
  NumSteps,            \* steps of the definition, numbered in its order
  GroupOf,             \* GroupOf[s]: the step group that holds step s
  ParallelGroups,      \* the groups of type "parallel"
  ParallelConcurrency, \* the pool's limit
  Registered,          \* Registered[w]: steps with an entry in the stepHandlers of w
  Undoable,            \* steps whose entry has a rollback handler
  ThrowsSync,          \* steps whose handler may throw before it returns a promise
  HasOnError,          \* does the consumer have an onError handler?
  Timeouts,            \* is the timer armed: the choices of the callers
  MaxExecs,            \* bound: executions created in a behaviour
  MaxStops,            \* bound: calls of stop()
  None

Steps == 1 .. NumSteps
NumGroups == IF NumSteps = 0 THEN 0 ELSE GroupOf[NumSteps]
StepsOf(g) == {s \in Steps : GroupOf[s] = g}
Execs == 1 .. MaxExecs

ASSUME DefinitionAssumption ==
  /\ NumSteps \in Nat
  /\ GroupOf \in [Steps -> Nat \ {0}]
  /\ \A s, t \in Steps : s < t => GroupOf[s] <= GroupOf[t]
  \* StepBuilder puts one step in a sequential group.
  /\ \A s, t \in Steps : GroupOf[s] = GroupOf[t] /\ s # t => GroupOf[s] \in ParallelGroups
  /\ Registered \in [Workflows -> SUBSET Steps]
  /\ Undoable \subseteq Steps
  /\ ThrowsSync \subseteq Steps
ASSUME ParameterAssumption ==
  /\ ParallelConcurrency \in Nat \ {0}
  /\ HasOnError \in BOOLEAN
  /\ Timeouts \subseteq BOOLEAN
  /\ MaxExecs \in Nat
  /\ MaxStops \in Nat
  /\ None \notin Execs \union Flows

VARIABLES
  started,     \* the provider's flag
  flowStates,  \* the map from a flow id to the execution it stands for
  cleanups,    \* the ids that have a pending timer in cleanupTimeouts
  flow,        \* per execution: its FlowState, the promise and the timer
  run,         \* per execution: where its asynchronous function stands
  stops        \* how often stop() was called

vars == <<started, flowStates, cleanups, flow, run, stops>>

Causes == {"step", "rollback", "handler", "timeout", "escape"}

Unused == [id |-> None, workflow |-> None, status |-> "pending", error |-> None,
           promise |-> "pending", timer |-> FALSE]
NotRunning == [pc |-> "idle", group |-> 0, running |-> {}, failed |-> {},
               succeeded |-> {}, completed |-> {}, undone |-> {}, fault |-> FALSE]

Init ==
  /\ started = FALSE
  /\ flowStates = [f \in Flows |-> None]
  /\ cleanups = {}
  /\ flow = [e \in Execs |-> Unused]
  /\ run = [e \in Execs |-> NotRunning]
  /\ stops = 0

-----------------------------------------------------------------------------
(* What the asynchronous function does between two awaits. *)

\* The n members of S that come first in definition order.
First(S, n) == {s \in S : Cardinality({t \in S : t < s}) < n}

\* The element of completedStepsWithRollback that the reversed array has first.
IsLastOf(s, S) == s \in S /\ \A t \in S : t <= s

\* A sequential group holds one step, so the limit only matters in a parallel one.
StepsToStart(r) ==
  LET waiting == StepsOf(r.group) \ (r.running \union r.failed \union r.succeeded)
  IN  First(waiting, ParallelConcurrency - Cardinality(r.running))

EnterGroup(r, g) ==
  IF g > NumGroups
  THEN [r EXCEPT !.pc = "handler", !.group = g]
  ELSE [r EXCEPT !.pc = "steps", !.group = g,
                 !.running = First(StepsOf(g), ParallelConcurrency)]

\* Mutant: a failed parallel group does not record its successful siblings.
AfterStepForgettingSiblings(r) ==
  LET next == [r EXCEPT !.running = @ \union StepsToStart(r)]
      group == StepsOf(r.group)
  IN  IF next.running # {} THEN next
      ELSE IF r.failed \cap group = {}
      THEN EnterGroup([r EXCEPT !.completed = @ \union (r.succeeded \cap group \cap Undoable)],
                      r.group + 1)
      ELSE [r EXCEPT !.pc = "undo"]

\* A step of the current group has settled: start the next one in the pool or, when
\* all have settled, record the successful ones and go on or roll back.
AfterStep(r) ==
  LET next == [r EXCEPT !.running = @ \union StepsToStart(r)]
      group == StepsOf(r.group)
      merged == [r EXCEPT !.completed = @ \union (r.succeeded \cap group \cap Undoable)]
  IN  IF next.running # {} THEN next
      ELSE IF r.failed \cap group = {} THEN EnterGroup(merged, r.group + 1)
      ELSE [merged EXCEPT !.pc = "undo"]

\* Which of the two functions runs the current group.
IsSequential(r) == r.group \notin ParallelGroups

WithSuccess(r, s) == [r EXCEPT !.running = @ \ {s}, !.succeeded = @ \union {s}]
WithFailure(r, s) == [r EXCEPT !.running = @ \ {s}, !.failed = @ \union {s}]

\* flowState.reject(cause) and flowState.resolve(result): only the first counts, and
\* settling the promise clears the timer.
Settle(f, outcome) ==
  [f EXCEPT !.promise = IF @ = "pending" THEN outcome ELSE @, !.timer = FALSE]

\* The end that the code gives to a failed execution, whatever the provider's state.
FailWith(e, cause) ==
  /\ flow' = [flow EXCEPT ![e] = [Settle(@, cause) EXCEPT !.status = "failed", !.error = cause]]
  /\ run' = [run EXCEPT ![e].pc = "ended", ![e].running = {}]
  /\ cleanups' = cleanups \union {flow[e].id}
  /\ UNCHANGED <<started, flowStates, stops>>

\* An exception that leaves the asynchronous function: only the promise learns of it.
EscapeWith(e) ==
  /\ flow' = [flow EXCEPT ![e] = Settle(@, "escape")]
  /\ run' = [run EXCEPT ![e].pc = "escaped", ![e].running = {}]
  /\ UNCHANGED <<started, flowStates, cleanups, stops>>

\* After a step error: onError, then the failure.
OnStepError(e) ==
  IF HasOnError
  THEN /\ run' = [run EXCEPT ![e].pc = "onError", ![e].running = {}]
       /\ UNCHANGED <<started, flowStates, cleanups, flow, stops>>
  ELSE FailWith(e, IF run[e].fault THEN "rollback" ELSE "step")

-----------------------------------------------------------------------------
(* The provider's operations. *)

Start ==
  /\ ~started
  /\ started' = TRUE
  /\ UNCHANGED <<flowStates, cleanups, flow, run, stops>>

\* Executions in flight are not touched: they go on and settle on their own.
Stop ==
  /\ started
  /\ stops < MaxStops
  /\ started' = FALSE
  /\ cleanups' = {}
  /\ flowStates' = [f \in Flows |-> None]
  /\ stops' = stops + 1
  /\ UNCHANGED <<flow, run>>

\* execute() throws unless the provider runs and knows the workflow.
Admits(w) == started /\ w \in Workflows

\* execute() with an id that flowStates knows returns a handle on that execution,
\* whichever workflow it belongs to, and changes nothing.
Execute(w, f, e, armed) ==
  /\ Admits(w)
  /\ flowStates[f] = None
  /\ run[e].pc = "idle"
  /\ \A d \in Execs : d < e => run[d].pc # "idle"
  /\ flowStates' = [flowStates EXCEPT ![f] = e]
  /\ flow' = [flow EXCEPT ![e] = [Unused EXCEPT !.id = f, !.workflow = w,
                                                 !.status = "running", !.timer = armed]]
  /\ run' = [run EXCEPT ![e] = EnterGroup(@, 1)]
  /\ UNCHANGED <<started, cleanups, stops>>

\* The callback of scheduleCleanup's timer: it deletes whatever the id stands for now.
Cleanup(f) ==
  /\ f \in cleanups
  /\ flowStates' = [flowStates EXCEPT ![f] = None]
  /\ cleanups' = cleanups \ {f}
  /\ UNCHANGED <<started, flow, run, stops>>

\* Mutant: a timed out flow is scheduled for cleanup at once.
TimeoutForgetting(e) ==
  /\ flow[e].timer
  /\ flow[e].status \in {"pending", "running"}
  /\ flow' = [flow EXCEPT ![e] =
                [Settle(@, "timeout") EXCEPT !.status = "failed", !.error = "timeout"]]
  /\ cleanups' = cleanups \union {flow[e].id}
  /\ UNCHANGED <<started, flowStates, run, stops>>

\* Mutant: the callback only looks for a flow that has not begun.
TimeoutBeforeStart(e) ==
  /\ flow[e].timer
  /\ flow[e].status = "pending"
  /\ flow' = [flow EXCEPT ![e] =
                [Settle(@, "timeout") EXCEPT !.status = "failed", !.error = "timeout"]]
  /\ UNCHANGED <<started, flowStates, cleanups, run, stops>>

\* The callback of the execution's timer.
Timeout(e) ==
  /\ flow[e].timer
  /\ flow[e].status \in {"pending", "running"}
  /\ flow' = [flow EXCEPT ![e] =
                [Settle(@, "timeout") EXCEPT !.status = "failed", !.error = "timeout"]]
  /\ UNCHANGED <<started, flowStates, cleanups, run, stops>>

-----------------------------------------------------------------------------
(* The asynchronous function of one execution. *)

StepSucceeds(e, s) ==
  /\ run[e].pc = "steps" /\ s \in run[e].running
  /\ s \in Registered[flow[e].workflow]
  /\ run' = [run EXCEPT ![e] = AfterStep(WithSuccess(run[e], s))]
  /\ UNCHANGED <<started, flowStates, cleanups, flow, stops>>

\* A rejected handler; in a parallel group a step without a handler fails like this.
StepFails(e, s) ==
  /\ run[e].pc = "steps" /\ s \in run[e].running
  /\ s \in Registered[flow[e].workflow] \/ ~IsSequential(run[e])
  /\ run' = [run EXCEPT ![e] = AfterStep(WithFailure(run[e], s))]
  /\ UNCHANGED <<started, flowStates, cleanups, flow, stops>>

\* A sequential step without a handler returns its error before any rollback.
StepMissing(e, s) ==
  /\ run[e].pc = "steps" /\ s \in run[e].running
  /\ s \notin Registered[flow[e].workflow] /\ IsSequential(run[e])
  /\ OnStepError(e)

\* handler(ctx) throws before there is a promise to .catch(): in a sequential group
\* nothing catches it.
StepThrows(e, s) ==
  /\ run[e].pc = "steps" /\ s \in run[e].running
  /\ s \in ThrowsSync \cap Registered[flow[e].workflow] /\ IsSequential(run[e])
  /\ EscapeWith(e)

\* Mutant: a rollback that fails ends the rollbacks.
RollbackEndsStopping(e, s, ok) ==
  /\ run[e].pc = "undo"
  /\ IsLastOf(s, run[e].completed \ run[e].undone)
  /\ run' = [run EXCEPT ![e].undone = @ \union {s}, ![e].fault = @ \/ ~ok,
                        ![e].completed = IF ok THEN @ ELSE run[e].undone \union {s}]
  /\ UNCHANGED <<started, flowStates, cleanups, flow, stops>>

\* The rollback that is next in reverse order ends, with or without an error.
RollbackEnds(e, s, ok) ==
  /\ run[e].pc = "undo"
  /\ IsLastOf(s, run[e].completed \ run[e].undone)
  /\ run' = [run EXCEPT ![e].undone = @ \union {s}, ![e].fault = @ \/ ~ok]
  /\ UNCHANGED <<started, flowStates, cleanups, flow, stops>>

RollbacksDone(e) ==
  /\ run[e].pc = "undo"
  /\ run[e].completed \subseteq run[e].undone
  /\ OnStepError(e)

OnErrorReturns(e) ==
  /\ run[e].pc = "onError"
  /\ FailWith(e, IF run[e].fault THEN "rollback" ELSE "step")

OnErrorThrows(e) ==
  /\ run[e].pc = "onError"
  /\ EscapeWith(e)

\* Mutant: the status is not read again after the handler.
HandlerReturnsUnguarded(e) ==
  /\ run[e].pc = "handler"
  /\ flow' = [flow EXCEPT ![e] = [Settle(@, "resolved") EXCEPT !.status = "completed"]]
  /\ run' = [run EXCEPT ![e].pc = "ended"]
  /\ cleanups' = cleanups \union {flow[e].id}
  /\ UNCHANGED <<started, flowStates, stops>>

\* The completion handler returns; the timer may have failed the flow meanwhile.
HandlerReturns(e) ==
  /\ run[e].pc = "handler"
  /\ flow' = [flow EXCEPT ![e] =
                IF @.status # "failed"
                THEN [Settle(@, "resolved") EXCEPT !.status = "completed"]
                ELSE @]
  /\ run' = [run EXCEPT ![e].pc = "ended"]
  /\ cleanups' = cleanups \union {flow[e].id}
  /\ UNCHANGED <<started, flowStates, stops>>

HandlerFails(e) ==
  /\ run[e].pc = "handler"
  /\ FailWith(e, "handler")

-----------------------------------------------------------------------------
Progress(e) ==
  \/ \E s \in Steps : \/ StepSucceeds(e, s)
                      \/ StepFails(e, s)
                      \/ StepMissing(e, s)
                      \/ StepThrows(e, s)
                      \/ \E ok \in BOOLEAN : RollbackEnds(e, s, ok)
  \/ RollbacksDone(e)
  \/ OnErrorReturns(e)
  \/ OnErrorThrows(e)
  \/ HandlerReturns(e)
  \/ HandlerFails(e)

Next ==
  \/ Start
  \/ Stop
  \/ \E w \in Workflows, f \in Flows, e \in Execs, armed \in Timeouts : Execute(w, f, e, armed)
  \/ \E f \in Flows : Cleanup(f)
  \/ \E e \in Execs : Timeout(e)
  \/ \E e \in Execs : Progress(e)

Spec == Init /\ [][Next]_vars

\* Timers fire; the step handlers that the application supplies may hang.
FairSpec ==
  /\ Spec
  /\ WF_vars(\E e \in Execs : Timeout(e))
  /\ WF_vars(\E f \in Flows : Cleanup(f))

-----------------------------------------------------------------------------
(* Properties. *)

FlowRecords ==
  [id : Flows \union {None}, workflow : Workflows \union {None},
   status : {"pending", "running", "completed", "failed"}, error : Causes \union {None},
   promise : Causes \union {"pending", "resolved"}, timer : BOOLEAN]

RunRecords ==
  [pc : {"idle", "steps", "undo", "onError", "handler", "ended", "escaped"}, group : Nat,
   running : SUBSET Steps, failed : SUBSET Steps, succeeded : SUBSET Steps,
   completed : SUBSET Steps, undone : SUBSET Steps, fault : BOOLEAN]

\* Types: what execute(), the runs, the timers, stop() and start() leave in the maps.
TypeOK ==
  /\ started \in BOOLEAN
  /\ flowStates \in [Flows -> Execs \union {None}]
  /\ cleanups \subseteq Flows \union {None}
  /\ flow \in [Execs -> FlowRecords]
  /\ run \in [Execs -> RunRecords]
  /\ stops \in 0 .. MaxStops

Live(e) == run[e].pc \notin {"idle", "ended", "escaped"}

\* An execution whose step failed has, when onError runs and when it ends, undone every
\* effect that has a rollback: those of earlier groups and those of the failed step's
\* own siblings, whichever of them settled last.  Nothing is undone otherwise.
\* (runRollbacks and its two callers.)
CompensationComplete ==
  \A e \in Execs :
    /\ run[e].pc \in {"onError", "ended", "escaped"} /\ run[e].failed # {}
         => run[e].succeeded \cap Undoable = run[e].undone
    /\ run[e].failed = {} => run[e].undone = {}

\* Until the first stop(), an id has at most one live execution and flowStates knows it:
\* a second execute() with the id joins it, however late its timer fired or the first
\* was finished. (executeDefinitionWorkflow, scheduleCleanup)
OneLiveExecution ==
  stops = 0 =>
    \A e \in Execs : Live(e) => /\ flowStates[flow[e].id] = e
                                /\ flow[e].id \notin cleanups

\* What the handle's promise said and what its status says agree, in whatever order the
\* timer, the steps and the completion handler came, unless an exception escaped.
OutcomeAgrees ==
  \A e \in Execs :
    /\ flow[e].promise = "resolved" <=> flow[e].status = "completed"
    /\ flow[e].promise \in Causes \ {"escape"} => flow[e].status = "failed"
    /\ flow[e].promise = "pending" => flow[e].status \in {"pending", "running"}
    /\ run[e].pc \in {"ended", "escaped"} => flow[e].promise # "pending"

\* A timed flow settles although its steps hang, a flow whose handlers all settle does so
\* without a timer, and a finished flow does not stay in flowStates, unless an exception
\* escaped. (executeDefinitionWorkflow, scheduleCleanup)
Settles ==
  /\ []<>(/\ \A e \in Execs : flow[e].timer => flow[e].promise # "pending"
          /\ \A f \in Flows : flowStates[f] # None => run[flowStates[f]].pc # "ended")
  /\ \A e \in Execs : WF_vars(Progress(e)) => (Live(e) ~> flow[e].promise # "pending")

\* Every execution keeps the promise of Saga. A failed step turns it backwards; a
\* sequential step that has no handler, or whose handler throws synchronously, abandons it.
Phase(e) ==
  CASE run[e].pc = "idle" -> "new"
    [] run[e].pc \in {"onError", "ended", "escaped"} -> "done"
    [] OTHER -> IF run[e].failed = {} THEN "forward" ELSE "backward"

Promised == INSTANCE Saga WITH
  phase   <- [e \in Execs |-> Phase(e)],
  applied <- [e \in Execs |-> run[e].succeeded],
  undone  <- [e \in Execs |-> run[e].undone],
  outcome <- [e \in Execs |-> IF flow[e].promise \in {"pending", "resolved"}
                              THEN flow[e].promise ELSE "rejected"],
  Faulty  <- [e \in Execs |->
                {s \in Steps : GroupOf[s] \notin ParallelGroups
                               /\ (s \in ThrowsSync \/ \E w \in Workflows : s \notin Registered[w])}]

ImplementsSaga == Promised!Spec
=============================================================================
