-------------------------- MODULE InProcessProofs --------------------------
(***************************************************************************)
(* Proofs about what lives in the memory of one process: first the         *)
(* in-process workflow provider, for every definition, every pool size     *)
(* and any number of executions and stops; then Singleflight, for any      *)
(* number of callers, flights and forgets and any error TTL; the test      *)
(* event provider, for any emissions, keys and delays; and the log with    *)
(* its file transport, for any budgets, thresholds, sizes and numbers of   *)
(* files.                                                                  *)
(*                                                                         *)
(* CompensationComplete is not inductive: it says nothing of an execution  *)
(* before its end.  RunInv adds what the local variables of the function   *)
(* hold at each await, OutcomeInv what the FlowState and the promise hold. *)
(* LiveInv is about the id of an execution: while its promise is open or   *)
(* its timer is armed, the id is in flowStates and has no cleanup.  The    *)
(* refinement of Saga needs in addition that no group is passed before all *)
(* of its steps have settled (ReachedInv), so that a step that starts is   *)
(* of the first group which has something left to do.                      *)
(*                                                                         *)
(* HerdBound is not inductive: with 1 + forgets functions running and no   *)
(* entry in the map the next caller would start one too many.  HerdInv     *)
(* says why that state is not reached: the entry pays for the last one.    *)
(*                                                                         *)
(* PendingIsKnown needs that emissions which share a key while both are    *)
(* pending both know it: a timer takes the name of no other one's key.     *)
(*                                                                         *)
(* LinesAreKept needs to know how old what is in a file must be: FileOK    *)
(* says it for every file of the disk and for every append on its way to   *)
(* one, whichever of them a rotation moves (OldEnough).  The transports    *)
(* log while they are written to; what comes back into a buffer is never   *)
(* older than what was in it (Moved), however many rounds the fold over    *)
(* the lines takes.                                                        *)
(***************************************************************************)
EXTENDS InProcessWorkflow, Singleflight, TestEvents, Logging, SequenceTheorems,
        FiniteSetTheorems, WellFoundedInduction, TLAPS

(* Where the function stands, and what it has recorded by then. *)
RunOK(r) ==
  /\ r.running \cap r.failed = {}
  /\ r.pc = "idle" => r = NotRunning
  /\ r.pc = "steps" =>
       /\ r.running \subseteq StepsOf(r.group)
       /\ r.failed \subseteq StepsOf(r.group)
       /\ \A s \in r.succeeded : GroupOf[s] <= r.group
       /\ r.completed = {s \in r.succeeded \cap Undoable : GroupOf[s] < r.group}
       /\ r.undone = {}
  /\ r.pc = "undo" =>
       /\ r.failed # {}
       /\ r.completed = r.succeeded \cap Undoable
       /\ r.undone \subseteq r.completed
  /\ r.pc = "handler" => r.failed = {} /\ r.undone = {}
  /\ r.pc \in {"onError", "ended", "escaped"} =>
       IF r.failed = {} THEN r.undone = {} ELSE r.undone = r.succeeded \cap Undoable

RunInv == \A e \in Execs : RunOK(run[e])

(* What the caller was told and what the FlowState says. *)
OutcomeOK(f, r) ==
  /\ f.promise = "resolved" <=> f.status = "completed"
  /\ f.promise \in Causes \ {"escape"} => f.status = "failed"
  /\ f.promise = "pending" => f.status \in {"pending", "running"}
  /\ f.status = "completed" => r.pc = "ended"
  /\ f.promise = "escape" => r.pc = "escaped"
  /\ r.pc \in {"ended", "escaped"} => f.promise # "pending"
  /\ r.pc = "idle" => f.promise = "pending" /\ ~f.timer
  /\ f.timer => f.promise = "pending"

OutcomeInv == \A e \in Execs : OutcomeOK(flow[e], run[e])

-----------------------------------------------------------------------------
(* The operators on an execution's local state. *)

LEMMA EnterGroupOK ==
  ASSUME NEW r \in RunRecords, NEW g \in Nat,
         r.running = {}, r.failed = {}, r.undone = {},
         \A s \in r.succeeded : GroupOf[s] < g,
         r.completed = r.succeeded \cap Undoable
  PROVE  EnterGroup(r, g) \in RunRecords /\ RunOK(EnterGroup(r, g))
<1>1. CASE g > NumGroups
  BY <1>1 DEF EnterGroup, RunOK, RunRecords, NotRunning
<1>2. CASE ~(g > NumGroups)
  <2> DEFINE n == EnterGroup(r, g)
  <2>1. /\ n = [r EXCEPT !.pc = "steps", !.group = g,
                         !.running = First(StepsOf(g), ParallelConcurrency)]
        /\ First(StepsOf(g), ParallelConcurrency) \subseteq StepsOf(g)
        /\ StepsOf(g) \subseteq Steps
    BY <1>2 DEF EnterGroup, First, StepsOf
  <2>2. n \in RunRecords
    BY <2>1 DEF RunRecords
  <2>3. /\ n.pc = "steps" /\ n.group = g /\ n.running \subseteq StepsOf(g)
        /\ n.failed = {} /\ n.undone = {} /\ n.succeeded = r.succeeded
        /\ n.completed = r.succeeded \cap Undoable
    BY <2>1 DEF RunRecords
  <2>4. \A s \in r.succeeded : GroupOf[s] <= g
    <3> SUFFICES ASSUME NEW s \in r.succeeded PROVE GroupOf[s] <= g
      OBVIOUS
    <3>1. s \in Steps /\ GroupOf[s] \in Nat /\ GroupOf[s] < g
      BY DefinitionAssumption DEF RunRecords
    <3> QED BY <3>1
  <2>5. n.completed = {s \in n.succeeded \cap Undoable : GroupOf[s] < n.group}
    BY <2>3
  <2> QED BY <2>2, <2>3, <2>4, <2>5 DEF RunOK
<1> QED BY <1>1, <1>2

(* r is the state just after one step of the current group has settled. *)
LEMMA AfterStepOK ==
  ASSUME NEW r \in RunRecords, r.pc = "steps",
         r.running \cap r.failed = {},
         r.running \subseteq StepsOf(r.group), r.failed \subseteq StepsOf(r.group),
         \A s \in r.succeeded : GroupOf[s] <= r.group,
         r.completed = {s \in r.succeeded \cap Undoable : GroupOf[s] < r.group},
         r.undone = {}
  PROVE  AfterStep(r) \in RunRecords /\ RunOK(AfterStep(r))
<1> DEFINE next == [r EXCEPT !.running = @ \union StepsToStart(r)]
           group == StepsOf(r.group)
           merged == [r EXCEPT !.completed = @ \union (r.succeeded \cap group \cap Undoable)]
<1>1. /\ StepsToStart(r) \subseteq StepsOf(r.group)
      /\ StepsToStart(r) \cap r.failed = {}
      /\ group \subseteq Steps
  BY DEF StepsToStart, First, StepsOf
<1>2. CASE next.running # {}
  <2>1. AfterStep(r) = next
    BY <1>2 DEF AfterStep
  <2>2. next \in RunRecords
    BY <1>1 DEF RunRecords
  <2>3. /\ next.pc = "steps" /\ next.group = r.group /\ next.failed = r.failed
        /\ next.running = r.running \union StepsToStart(r)
        /\ next.succeeded = r.succeeded /\ next.completed = r.completed /\ next.undone = {}
    BY DEF RunRecords
  <2> QED BY <1>1, <2>1, <2>2, <2>3 DEF RunOK
<1>3. CASE next.running = {}
  <2>1. r.running = {}
    BY <1>3 DEF RunRecords
  <2>2. merged \in RunRecords
    BY <1>1 DEF RunRecords
  <2>3. /\ merged.pc = "steps" /\ merged.group = r.group /\ merged.failed = r.failed
        /\ merged.running = {} /\ merged.undone = {} /\ merged.succeeded = r.succeeded
        /\ merged.completed = r.completed \union (r.succeeded \cap group \cap Undoable)
    BY <2>1 DEF RunRecords
  <2>4. r.completed \union (r.succeeded \cap group \cap Undoable) = r.succeeded \cap Undoable
    <3>1. \A s \in r.succeeded : /\ s \in Steps /\ GroupOf[s] \in Nat /\ r.group \in Nat
                                 /\ GroupOf[s] < r.group \/ GroupOf[s] = r.group
      BY DefinitionAssumption DEF RunRecords
    <3> QED BY <3>1 DEF StepsOf
  <2>5. CASE r.failed \cap group = {}
    <3>1. AfterStep(r) = EnterGroup(merged, r.group + 1)
      BY <1>3, <2>5 DEF AfterStep
    <3>2. r.failed = {}
      BY <2>5
    <3>3. \A s \in r.succeeded : GroupOf[s] < r.group + 1
      BY DefinitionAssumption DEF RunRecords
    <3>4. r.group + 1 \in Nat
      BY DEF RunRecords
    <3> QED BY <2>2, <2>3, <2>4, <3>1, <3>2, <3>3, <3>4, EnterGroupOK
  <2>6. CASE r.failed \cap group # {}
    <3>1. AfterStep(r) = [merged EXCEPT !.pc = "undo"]
      BY <1>3, <2>6 DEF AfterStep
    <3>2. [merged EXCEPT !.pc = "undo"] \in RunRecords
      BY <2>2 DEF RunRecords
    <3> QED BY <2>2, <2>3, <2>4, <2>6, <3>1, <3>2 DEF RunOK, RunRecords
  <2> QED BY <2>5, <2>6
<1> QED BY <1>2, <1>3

(* What a settled step of execution e leaves AfterStep with. *)
LEMMA SettledStepOK ==
  ASSUME NEW r \in RunRecords, RunOK(r), r.pc = "steps", NEW s \in r.running
  PROVE  /\ AfterStep(WithSuccess(r, s)) \in RunRecords /\ RunOK(AfterStep(WithSuccess(r, s)))
         /\ AfterStep(WithFailure(r, s)) \in RunRecords /\ RunOK(AfterStep(WithFailure(r, s)))
<1> DEFINE good == WithSuccess(r, s)
           bad == WithFailure(r, s)
<1>1. /\ s \in Steps /\ GroupOf[s] = r.group /\ r.group \in Nat
      /\ s \in StepsOf(r.group)
  BY DEF RunOK, RunRecords, StepsOf
<1>2. good \in RunRecords /\ bad \in RunRecords
  BY <1>1 DEF RunRecords, WithSuccess, WithFailure
<1>3. /\ good.pc = "steps" /\ good.group = r.group /\ good.failed = r.failed
      /\ good.running = r.running \ {s} /\ good.succeeded = r.succeeded \union {s}
      /\ good.completed = r.completed /\ good.undone = {}
      /\ bad.pc = "steps" /\ bad.group = r.group /\ bad.failed = r.failed \union {s}
      /\ bad.running = r.running \ {s} /\ bad.succeeded = r.succeeded
      /\ bad.completed = r.completed /\ bad.undone = {}
  BY DEF RunRecords, RunOK, WithSuccess, WithFailure
<1>4. /\ r.running \cap r.failed = {}
      /\ r.running \subseteq StepsOf(r.group) /\ r.failed \subseteq StepsOf(r.group)
      /\ \A t \in r.succeeded : GroupOf[t] <= r.group
      /\ r.completed = {t \in r.succeeded \cap Undoable : GroupOf[t] < r.group}
  BY DEF RunOK
<1>5. good.completed = {t \in good.succeeded \cap Undoable : GroupOf[t] < good.group}
  BY <1>1, <1>3, <1>4
<1>6. \A t \in good.succeeded : GroupOf[t] <= good.group
  BY <1>1, <1>3, <1>4
<1>7. AfterStep(good) \in RunRecords /\ RunOK(AfterStep(good))
  BY <1>1, <1>2, <1>3, <1>4, <1>5, <1>6, AfterStepOK
<1>8. AfterStep(bad) \in RunRecords /\ RunOK(AfterStep(bad))
  BY <1>1, <1>2, <1>3, <1>4, AfterStepOK
<1> QED BY <1>7, <1>8

-----------------------------------------------------------------------------
(* The inductive invariant. *)

IInv == TypeOK /\ RunInv /\ OutcomeInv

LEMMA InitIInv == Init => IInv
<1> SUFFICES ASSUME Init PROVE IInv
  OBVIOUS
<1>1. TypeOK
  <2>1. Unused \in FlowRecords
    BY DEF Unused, FlowRecords
  <2>2. NotRunning \in RunRecords
    BY DEF NotRunning, RunRecords
  <2>3. stops \in 0 .. MaxStops
    BY ParameterAssumption DEF Init
  <2> QED BY <2>1, <2>2, <2>3 DEF Init, TypeOK
<1>2. RunInv
  BY DEF Init, RunInv, RunOK, NotRunning
<1>3. OutcomeInv
  BY DEF Init, OutcomeInv, OutcomeOK, Unused, NotRunning, Causes
<1> QED BY <1>1, <1>2, <1>3 DEF IInv

(* A step that changes flow and run of one execution only. *)
LEMMA OneExec ==
  ASSUME IInv, NEW e \in Execs, NEW f \in FlowRecords, NEW r \in RunRecords,
         flow' = [flow EXCEPT ![e] = f], run' = [run EXCEPT ![e] = r],
         RunOK(r), OutcomeOK(f, r)
  PROVE  /\ flow' \in [Execs -> FlowRecords] /\ run' \in [Execs -> RunRecords]
         /\ RunInv' /\ OutcomeInv'
<1>1. flow' \in [Execs -> FlowRecords] /\ run' \in [Execs -> RunRecords]
  BY DEF IInv, TypeOK
<1>2. \A d \in Execs : /\ run'[d] = IF d = e THEN r ELSE run[d]
                       /\ flow'[d] = IF d = e THEN f ELSE flow[d]
  BY DEF IInv, TypeOK
<1>3. RunInv'
  BY <1>2 DEF IInv, RunInv
<1>4. OutcomeInv'
  BY <1>2 DEF IInv, OutcomeInv
<1> QED BY <1>1, <1>3, <1>4

(* What Settle does to a FlowState. *)
LEMMA SettleOK ==
  ASSUME NEW f \in FlowRecords, NEW outcome \in Causes \union {"resolved"}
  PROVE  LET g == Settle(f, outcome)
         IN  /\ g \in FlowRecords
             /\ g.promise = IF f.promise = "pending" THEN outcome ELSE f.promise
             /\ g.timer = FALSE /\ g.status = f.status /\ g.error = f.error
BY DEF Settle, FlowRecords

LEMMA SettleAsOK ==
  ASSUME NEW f \in FlowRecords, NEW cause \in Causes
  PROVE  LET g == [Settle(f, cause) EXCEPT !.status = "failed", !.error = cause]
         IN  /\ g \in FlowRecords
             /\ g.promise = IF f.promise = "pending" THEN cause ELSE f.promise
             /\ g.timer = FALSE /\ g.status = "failed"
<1> DEFINE h == Settle(f, cause)
           g == [h EXCEPT !.status = "failed", !.error = cause]
<1>1. /\ h \in FlowRecords /\ h.timer = FALSE
      /\ h.promise = IF f.promise = "pending" THEN cause ELSE f.promise
  BY SettleOK
<1> HIDE DEF h
<1>2. g \in FlowRecords /\ g.promise = h.promise /\ g.timer = FALSE /\ g.status = "failed"
  BY <1>1 DEF FlowRecords
<1> QED BY <1>1, <1>2 DEF h

(* The failure that ends an execution. *)
LEMMA FailWithOK ==
  ASSUME IInv, NEW e \in Execs, NEW cause \in Causes \ {"escape"}, FailWith(e, cause),
         run[e].pc \in {"steps", "undo", "onError", "handler"},
         IF run[e].failed = {} THEN run[e].undone = {}
                               ELSE run[e].undone = run[e].succeeded \cap Undoable
  PROVE  IInv'
<1> DEFINE f == [Settle(flow[e], cause) EXCEPT !.status = "failed", !.error = cause]
           r == [run[e] EXCEPT !.pc = "ended", !.running = {}]
<1>1. flow[e] \in FlowRecords /\ run[e] \in RunRecords /\ OutcomeOK(flow[e], run[e])
  BY DEF IInv, TypeOK, OutcomeInv
<1>2. /\ f \in FlowRecords /\ f.timer = FALSE /\ f.status = "failed"
      /\ f.promise = IF flow[e].promise = "pending" THEN cause ELSE flow[e].promise
  BY <1>1, SettleAsOK
<1>3. r \in RunRecords /\ RunOK(r) /\ r.pc = "ended"
  BY <1>1 DEF RunOK, RunRecords
<1>4. OutcomeOK(f, r)
  BY <1>1, <1>2, <1>3 DEF OutcomeOK, FlowRecords, Causes
<1>5. flow' = [flow EXCEPT ![e] = f] /\ run' = [run EXCEPT ![e] = r]
  BY <1>1 DEF FailWith, IInv, TypeOK
<1>6. cleanups' \subseteq Flows \union {None}
  BY <1>1 DEF FailWith, IInv, TypeOK, FlowRecords
<1> HIDE DEF f, r
<1>7. /\ flow' \in [Execs -> FlowRecords] /\ run' \in [Execs -> RunRecords]
      /\ RunInv' /\ OutcomeInv'
  BY <1>2, <1>3, <1>4, <1>5, OneExec
<1>8. UNCHANGED <<started, flowStates, stops>>
  BY DEF FailWith
<1>9. TypeOK'
  BY <1>6, <1>7, <1>8 DEF IInv, TypeOK
<1> QED BY <1>7, <1>9 DEF IInv

(* An exception that leaves the function. *)
LEMMA EscapeWithOK ==
  ASSUME IInv, NEW e \in Execs, EscapeWith(e),
         run[e].pc \in {"steps", "onError"},
         IF run[e].failed = {} THEN run[e].undone = {}
                               ELSE run[e].undone = run[e].succeeded \cap Undoable
  PROVE  IInv'
<1> DEFINE f == Settle(flow[e], "escape")
           r == [run[e] EXCEPT !.pc = "escaped", !.running = {}]
<1>1. flow[e] \in FlowRecords /\ run[e] \in RunRecords /\ OutcomeOK(flow[e], run[e])
  BY DEF IInv, TypeOK, OutcomeInv
<1>2. f \in FlowRecords /\ r \in RunRecords
  BY <1>1 DEF Settle, FlowRecords, RunRecords, Causes
<1>3. RunOK(r)
  BY <1>1 DEF RunOK, RunRecords
<1>4. OutcomeOK(f, r)
  BY <1>1 DEF OutcomeOK, Settle, FlowRecords, RunRecords, Causes
<1>5. flow' = [flow EXCEPT ![e] = f] /\ run' = [run EXCEPT ![e] = r]
  BY <1>1 DEF EscapeWith, IInv, TypeOK
<1> QED BY <1>2, <1>3, <1>4, <1>5, OneExec DEF IInv, TypeOK, EscapeWith

(* What follows a step error. *)
LEMMA OnStepErrorOK ==
  ASSUME IInv, NEW e \in Execs, OnStepError(e),
         run[e].pc \in {"steps", "undo"},
         IF run[e].failed = {} THEN run[e].undone = {}
                               ELSE run[e].undone = run[e].succeeded \cap Undoable
  PROVE  IInv'
<1>1. CASE HasOnError
  <2> DEFINE r == [run[e] EXCEPT !.pc = "onError", !.running = {}]
  <2>1. flow[e] \in FlowRecords /\ run[e] \in RunRecords /\ OutcomeOK(flow[e], run[e])
    BY DEF IInv, TypeOK, OutcomeInv
  <2>2. r \in RunRecords /\ RunOK(r) /\ OutcomeOK(flow[e], r)
    BY <2>1 DEF RunRecords, RunOK, OutcomeOK
  <2>3. flow' = [flow EXCEPT ![e] = flow[e]] /\ run' = [run EXCEPT ![e] = r]
    BY <1>1, <2>1 DEF OnStepError, IInv, TypeOK
  <2> QED BY <1>1, <2>1, <2>2, <2>3, OneExec DEF IInv, TypeOK, OnStepError
<1>2. CASE ~HasOnError
  BY <1>2, FailWithOK DEF OnStepError, Causes
<1> QED BY <1>1, <1>2

(* Every step of the provider preserves the invariant: one case per action. *)
LEMMA NextIInv == IInv /\ [Next]_vars => IInv'
<1> SUFFICES ASSUME IInv, [Next]_vars PROVE IInv'
  OBVIOUS
<1> USE DEF IInv
<1>a. \A e \in Execs : /\ flow[e] \in FlowRecords /\ run[e] \in RunRecords
                       /\ RunOK(run[e]) /\ OutcomeOK(flow[e], run[e])
  BY DEF TypeOK, RunInv, OutcomeInv
<1>1. CASE Start
  BY <1>1 DEF Start, TypeOK, RunInv, OutcomeInv
<1>2. CASE Stop
  <2>1. flow' = flow /\ run' = run /\ stops' \in 0 .. MaxStops
    BY <1>2, ParameterAssumption DEF Stop, TypeOK
  <2>2. /\ started' \in BOOLEAN /\ cleanups' \subseteq Flows \union {None}
        /\ flowStates' \in [Flows -> Execs \union {None}]
    BY <1>2 DEF Stop
  <2> QED BY <2>1, <2>2 DEF TypeOK, RunInv, OutcomeInv
<1>3. ASSUME NEW w \in Workflows, NEW f \in Flows, NEW e \in Execs, NEW armed \in Timeouts,
             Execute(w, f, e, armed)
      PROVE  IInv'
  <2> DEFINE fl == [Unused EXCEPT !.id = f, !.workflow = w, !.status = "running",
                                  !.timer = armed]
             r == EnterGroup(run[e], 1)
  <2>1. run[e] = NotRunning
    BY <1>3, <1>a DEF Execute, RunOK
  <2>2. /\ NotRunning \in RunRecords /\ NotRunning.running = {} /\ NotRunning.failed = {}
        /\ NotRunning.undone = {} /\ NotRunning.succeeded = {} /\ NotRunning.completed = {}
    BY <1>a, <2>1 DEF NotRunning
  <2>3. r \in RunRecords /\ RunOK(r)
    BY <2>1, <2>2, EnterGroupOK
  <2>4. r.pc \in {"steps", "handler"}
    BY <2>1 DEF EnterGroup, NotRunning
  <2>5. fl \in FlowRecords /\ OutcomeOK(fl, r)
    BY <2>4, ParameterAssumption DEF FlowRecords, Unused, OutcomeOK, Causes
  <2>6. flow' = [flow EXCEPT ![e] = fl] /\ run' = [run EXCEPT ![e] = r]
    BY <1>3 DEF Execute
  <2>7. flowStates' \in [Flows -> Execs \union {None}]
    BY <1>3 DEF Execute, TypeOK
  <2> QED BY <1>3, <2>3, <2>5, <2>6, <2>7, OneExec DEF Execute, TypeOK
<1>4. ASSUME NEW f \in Flows, Cleanup(f) PROVE IInv'
  BY <1>4 DEF Cleanup, TypeOK, RunInv, OutcomeInv
<1>5. ASSUME NEW e \in Execs, Timeout(e) PROVE IInv'
  <2> DEFINE f == [Settle(flow[e], "timeout") EXCEPT !.status = "failed", !.error = "timeout"]
  <2>1. /\ f \in FlowRecords /\ f.timer = FALSE /\ f.status = "failed"
        /\ f.promise = IF flow[e].promise = "pending" THEN "timeout" ELSE flow[e].promise
    BY <1>a, SettleAsOK DEF Causes
  <2>2. flow[e].timer /\ flow[e].promise = "pending" /\ run[e].pc # "idle"
    BY <1>5, <1>a DEF Timeout, OutcomeOK
  <2>3. OutcomeOK(f, run[e])
    BY <1>a, <2>1, <2>2 DEF OutcomeOK, Causes
  <2>4. flow' = [flow EXCEPT ![e] = f] /\ run' = [run EXCEPT ![e] = run[e]]
    BY <1>5 DEF Timeout, TypeOK
  <2> HIDE DEF f
  <2>5. /\ flow' \in [Execs -> FlowRecords] /\ run' \in [Execs -> RunRecords]
        /\ RunInv' /\ OutcomeInv'
    BY <1>a, <2>1, <2>3, <2>4, OneExec
  <2> QED BY <1>5, <2>5 DEF Timeout, TypeOK
<1>6. ASSUME NEW e \in Execs, Progress(e) PROVE IInv'
  <2>1. ASSUME NEW s \in Steps, StepSucceeds(e, s) \/ StepFails(e, s) PROVE IInv'
    <3> DEFINE good == AfterStep(WithSuccess(run[e], s))
               bad == AfterStep(WithFailure(run[e], s))
    <3>1. good \in RunRecords /\ RunOK(good) /\ bad \in RunRecords /\ RunOK(bad)
      BY <1>a, <2>1, SettledStepOK DEF StepSucceeds, StepFails
    <3>2. good.pc \in {"steps", "undo", "handler"} /\ bad.pc \in {"steps", "undo", "handler"}
      <4>1. ASSUME NEW r \in RunRecords, r.pc = "steps"
            PROVE  AfterStep(r).pc \in {"steps", "undo", "handler"}
        BY <4>1 DEF AfterStep, EnterGroup, RunRecords
      <4>2. /\ WithSuccess(run[e], s) \in RunRecords /\ WithSuccess(run[e], s).pc = "steps"
            /\ WithFailure(run[e], s) \in RunRecords /\ WithFailure(run[e], s).pc = "steps"
        BY <1>a, <2>1 DEF StepSucceeds, StepFails, RunRecords, WithSuccess, WithFailure
      <4> QED BY <4>1, <4>2
    <3>3. OutcomeOK(flow[e], good) /\ OutcomeOK(flow[e], bad)
      BY <1>a, <2>1, <3>2 DEF StepSucceeds, StepFails, OutcomeOK
    <3>4. flow' = [flow EXCEPT ![e] = flow[e]]
      BY <2>1 DEF StepSucceeds, StepFails, TypeOK
    <3>5. CASE StepSucceeds(e, s)
      <4>1. run' = [run EXCEPT ![e] = good]
        BY <3>5 DEF StepSucceeds
      <4> HIDE DEF good
      <4>2. /\ flow' \in [Execs -> FlowRecords] /\ run' \in [Execs -> RunRecords]
            /\ RunInv' /\ OutcomeInv'
        BY <1>a, <3>1, <3>3, <3>4, <4>1, OneExec
      <4> QED BY <3>5, <4>2 DEF StepSucceeds, TypeOK
    <3>6. CASE StepFails(e, s)
      <4>1. run' = [run EXCEPT ![e] = bad]
        BY <3>6 DEF StepFails
      <4> HIDE DEF bad
      <4>2. /\ flow' \in [Execs -> FlowRecords] /\ run' \in [Execs -> RunRecords]
            /\ RunInv' /\ OutcomeInv'
        BY <1>a, <3>1, <3>3, <3>4, <4>1, OneExec
      <4> QED BY <3>6, <4>2 DEF StepFails, TypeOK
    <3> QED BY <2>1, <3>5, <3>6
  <2>2. ASSUME NEW s \in Steps, StepMissing(e, s) \/ StepThrows(e, s) PROVE IInv'
    <3>1. run[e].pc = "steps" /\ s \in run[e].running /\ run[e].group \notin ParallelGroups
      BY <2>2 DEF StepMissing, StepThrows, IsSequential
    <3>2. run[e].failed = {} /\ run[e].undone = {}
      BY <1>a, <3>1, DefinitionAssumption DEF RunOK, RunRecords, StepsOf
    <3> QED BY <2>2, <3>1, <3>2, OnStepErrorOK, EscapeWithOK DEF StepMissing, StepThrows
  <2>3. ASSUME NEW s \in Steps, NEW ok \in BOOLEAN, RollbackEnds(e, s, ok) PROVE IInv'
    <3> DEFINE r == [run[e] EXCEPT !.undone = @ \union {s}, !.fault = @ \/ ~ok]
    <3>1. s \in run[e].completed
      BY <2>3 DEF RollbackEnds, IsLastOf
    <3>2. r \in RunRecords
      BY <1>a, <3>1 DEF RunRecords
    <3>3. RunOK(r) /\ OutcomeOK(flow[e], r)
      BY <1>a, <2>3, <3>1 DEF RollbackEnds, RunOK, OutcomeOK, RunRecords
    <3>4. flow' = [flow EXCEPT ![e] = flow[e]] /\ run' = [run EXCEPT ![e] = r]
      BY <2>3 DEF RollbackEnds, TypeOK
    <3> QED BY <1>a, <2>3, <3>2, <3>3, <3>4, OneExec DEF RollbackEnds, TypeOK
  <2>4. ASSUME RollbacksDone(e) PROVE IInv'
    <3>1. run[e].pc = "undo" /\ run[e].undone = run[e].succeeded \cap Undoable
      BY <1>a, <2>4 DEF RollbacksDone, RunOK
    <3>2. run[e].failed # {}
      BY <1>a, <3>1 DEF RunOK
    <3> QED BY <2>4, <3>1, <3>2, OnStepErrorOK DEF RollbacksDone
  <2>5. ASSUME OnErrorReturns(e) \/ OnErrorThrows(e) PROVE IInv'
    <3>1. /\ run[e].pc = "onError"
          /\ IF run[e].failed = {} THEN run[e].undone = {}
                                   ELSE run[e].undone = run[e].succeeded \cap Undoable
      BY <1>a, <2>5 DEF OnErrorReturns, OnErrorThrows, RunOK
    <3> QED BY <2>5, <3>1, FailWithOK, EscapeWithOK DEF OnErrorReturns, OnErrorThrows, Causes
  <2>6. ASSUME HandlerReturns(e) PROVE IInv'
    <3> DEFINE f == IF flow[e].status # "failed"
                    THEN [Settle(flow[e], "resolved") EXCEPT !.status = "completed"]
                    ELSE flow[e]
               r == [run[e] EXCEPT !.pc = "ended"]
    <3>1. f \in FlowRecords /\ r \in RunRecords
      BY <1>a DEF Settle, FlowRecords, RunRecords, Causes
    <3>2. RunOK(r)
      BY <1>a, <2>6 DEF HandlerReturns, RunOK, RunRecords
    <3>3. OutcomeOK(f, r)
      BY <1>a, <2>6 DEF HandlerReturns, OutcomeOK, Settle, FlowRecords, RunRecords, Causes
    <3>4. flow' = [flow EXCEPT ![e] = f] /\ run' = [run EXCEPT ![e] = r]
      BY <2>6 DEF HandlerReturns, TypeOK
    <3>5. cleanups' \subseteq Flows \union {None}
      BY <1>a, <2>6 DEF HandlerReturns, TypeOK, FlowRecords
    <3> QED BY <2>6, <3>1, <3>2, <3>3, <3>4, <3>5, OneExec DEF HandlerReturns, TypeOK
  <2>7. ASSUME HandlerFails(e) PROVE IInv'
    <3>1. run[e].pc = "handler" /\ run[e].failed = {} /\ run[e].undone = {}
      BY <1>a, <2>7 DEF HandlerFails, RunOK
    <3> QED BY <2>7, <3>1, FailWithOK DEF HandlerFails, Causes
  <2> QED BY <1>6, <2>1, <2>2, <2>3, <2>4, <2>5, <2>6, <2>7 DEF Progress
<1>7. CASE UNCHANGED vars
  BY <1>7 DEF vars, TypeOK, RunInv, OutcomeInv
<1> QED BY <1>1, <1>2, <1>3, <1>4, <1>5, <1>6, <1>7 DEF Next

-----------------------------------------------------------------------------
(* The theorems. *)

THEOREM IInvHolds == Spec => []IInv
<1>1. Init => IInv
  BY InitIInv
<1>2. IInv /\ [Next]_vars => IInv'
  BY NextIInv
<1> QED BY <1>1, <1>2, PTL DEF Spec

(* The provider's state keeps its types. *)
THEOREM TypeCorrect == Spec => []TypeOK
<1>1. IInv => TypeOK
  BY DEF IInv
<1> QED BY <1>1, IInvHolds, PTL

(* An execution whose step failed has undone all that can be undone when it ends, for  *)
(* every definition and pool size, however the siblings, timers and stops interleave.  *)
THEOREM CompensationIsComplete == Spec => []CompensationComplete
<1>1. IInv => CompensationComplete
  BY DEF IInv, TypeOK, RunInv, RunOK, CompensationComplete, RunRecords, NotRunning
<1> QED BY <1>1, IInvHolds, PTL

(* Whatever order the timer and the function's end come in, the promise and the status *)
(* tell the same, and no execution ends without answering its caller.                  *)
THEOREM OutcomesAgree == Spec => []OutcomeAgrees
<1>1. IInv => OutcomeAgrees
  BY DEF IInv, OutcomeInv, OutcomeOK, OutcomeAgrees
<1> QED BY <1>1, IInvHolds, PTL

-----------------------------------------------------------------------------
(* One live execution per id. *)

(* While stop() has not been called, flowStates knows every live execution, and a *)
(* cleanup is pending only for an id that it knows: an id is never cleaned up and *)
(* free at once, so that the cleanup cannot meet a later execution.               *)
LiveInv ==
  stops = 0 =>
    /\ \A e \in Execs : Live(e) => /\ flow[e].id \in Flows
                                   /\ flowStates[flow[e].id] = e
                                   /\ flow[e].id \notin cleanups
    /\ \A f \in cleanups : f \in Flows /\ flowStates[f] # None

(* What one step of the asynchronous function leaves alone. *)
LEMMA ProgressFrame ==
  ASSUME IInv, NEW e \in Execs, Progress(e)
  PROVE  /\ Live(e) /\ flow'[e].id = flow[e].id /\ flow'[e].workflow = flow[e].workflow
         /\ \A d \in Execs \ {e} : flow'[d] = flow[d] /\ run'[d] = run[d]
         /\ UNCHANGED <<started, flowStates, stops>>
         /\ \/ cleanups' = cleanups
            \/ cleanups' = cleanups \union {flow[e].id} /\ run'[e].pc = "ended"
<1> USE DEF IInv
<1>1. flow \in [Execs -> FlowRecords] /\ run \in [Execs -> RunRecords]
  BY DEF TypeOK
<1>2. ASSUME NEW cause \in Causes, FailWith(e, cause)
      PROVE  /\ flow'[e].id = flow[e].id /\ flow'[e].workflow = flow[e].workflow
             /\ \A d \in Execs \ {e} : flow'[d] = flow[d] /\ run'[d] = run[d]
             /\ UNCHANGED <<started, flowStates, stops>>
             /\ cleanups' = cleanups \union {flow[e].id} /\ run'[e].pc = "ended"
  BY <1>1, <1>2 DEF FailWith, Settle, FlowRecords, RunRecords
<1>3. ASSUME EscapeWith(e)
      PROVE  /\ flow'[e].id = flow[e].id /\ flow'[e].workflow = flow[e].workflow
             /\ \A d \in Execs \ {e} : flow'[d] = flow[d] /\ run'[d] = run[d]
             /\ UNCHANGED <<started, flowStates, stops, cleanups>>
  BY <1>1, <1>3 DEF EscapeWith, Settle, FlowRecords
<1>4. ASSUME OnStepError(e)
      PROVE  /\ flow'[e].id = flow[e].id /\ flow'[e].workflow = flow[e].workflow
             /\ \A d \in Execs \ {e} : flow'[d] = flow[d] /\ run'[d] = run[d]
             /\ UNCHANGED <<started, flowStates, stops>>
             /\ \/ cleanups' = cleanups
                \/ cleanups' = cleanups \union {flow[e].id} /\ run'[e].pc = "ended"
  <2>1. CASE HasOnError
    BY <1>1, <1>4, <2>1 DEF OnStepError
  <2>2. CASE ~HasOnError
    BY <1>2, <1>4, <2>2 DEF OnStepError, Causes
  <2> QED BY <2>1, <2>2
<1>5. ASSUME NEW s \in Steps,
             \/ StepSucceeds(e, s) \/ StepFails(e, s)
             \/ \E ok \in BOOLEAN : RollbackEnds(e, s, ok)
      PROVE  /\ Live(e) /\ flow' = flow /\ cleanups' = cleanups
             /\ \A d \in Execs \ {e} : run'[d] = run[d]
             /\ UNCHANGED <<started, flowStates, stops>>
  BY <1>1, <1>5 DEF StepSucceeds, StepFails, RollbackEnds, Live
<1>6. ASSUME NEW s \in Steps, StepMissing(e, s) \/ StepThrows(e, s)
      PROVE  Live(e) /\ (OnStepError(e) \/ EscapeWith(e))
  BY <1>6 DEF StepMissing, StepThrows, Live
<1>7. ASSUME \/ RollbacksDone(e) \/ OnErrorReturns(e) \/ OnErrorThrows(e) \/ HandlerFails(e)
      PROVE  Live(e) /\ (\/ OnStepError(e) \/ EscapeWith(e)
                         \/ \E cause \in Causes : FailWith(e, cause))
  BY <1>7 DEF RollbacksDone, OnErrorReturns, OnErrorThrows, HandlerFails, Live, Causes
<1>8. ASSUME HandlerReturns(e)
      PROVE  /\ Live(e) /\ flow'[e].id = flow[e].id /\ flow'[e].workflow = flow[e].workflow
             /\ \A d \in Execs \ {e} : flow'[d] = flow[d] /\ run'[d] = run[d]
             /\ UNCHANGED <<started, flowStates, stops>>
             /\ cleanups' = cleanups \union {flow[e].id} /\ run'[e].pc = "ended"
  BY <1>1, <1>8 DEF HandlerReturns, Settle, FlowRecords, RunRecords, Live
<1>9. CASE \E s \in Steps : \/ StepSucceeds(e, s) \/ StepFails(e, s)
                            \/ \E ok \in BOOLEAN : RollbackEnds(e, s, ok)
  BY <1>5, <1>9
<1>10. CASE \E s \in Steps : StepMissing(e, s) \/ StepThrows(e, s)
  BY <1>3, <1>4, <1>6, <1>10
<1>11. CASE RollbacksDone(e) \/ OnErrorReturns(e) \/ OnErrorThrows(e) \/ HandlerFails(e)
  BY <1>2, <1>3, <1>4, <1>7, <1>11
<1>12. CASE HandlerReturns(e)
  BY <1>8, <1>12
<1> QED BY <1>9, <1>10, <1>11, <1>12 DEF Progress

LEMMA NextLiveInv == IInv /\ LiveInv /\ [Next]_vars => LiveInv'
<1> SUFFICES ASSUME IInv, LiveInv, [Next]_vars, stops' = 0 PROVE LiveInv'
  BY DEF LiveInv
<1>a. /\ flow \in [Execs -> FlowRecords] /\ run \in [Execs -> RunRecords] /\ stops \in Nat
      /\ flowStates \in [Flows -> Execs \union {None}] /\ None \notin Execs \union Flows
  BY ParameterAssumption DEF IInv, TypeOK
<1>1. CASE Start
  BY <1>1 DEF Start, LiveInv, Live
<1>2. CASE Stop
  BY <1>2, <1>a DEF Stop
<1>3. ASSUME NEW w \in Workflows, NEW f \in Flows, NEW e \in Execs, NEW armed \in Timeouts,
             Execute(w, f, e, armed)
      PROVE  LiveInv'
  <2>1. stops = 0 /\ f \notin cleanups /\ flow'[e].id = f /\ cleanups' = cleanups
    BY <1>3, <1>a DEF Execute, LiveInv, Unused
  <2>2. \A d \in Execs \ {e} : flow'[d] = flow[d] /\ run'[d] = run[d]
    BY <1>3, <1>a DEF Execute
  <2>3. \A d \in Execs : Live(d) => flow[d].id # f
    BY <1>3, <1>a, <2>1 DEF Execute, LiveInv
  <2>4. \A g \in Flows : flowStates'[g] = IF g = f THEN e ELSE flowStates[g]
    BY <1>3, <1>a DEF Execute
  <2>5. \A d \in Execs \ {e} : Live(d)' = Live(d)
    BY <2>2 DEF Live
  <2>6. \A d \in Execs : Live(d)' => /\ flow'[d].id \in Flows
                                     /\ flowStates'[flow'[d].id] = d
                                     /\ flow'[d].id \notin cleanups'
    BY <2>1, <2>2, <2>3, <2>4, <2>5 DEF LiveInv
  <2>7. \A g \in cleanups' : g \in Flows /\ flowStates'[g] # None
    BY <1>a, <2>1, <2>4 DEF LiveInv
  <2> QED BY <2>6, <2>7 DEF LiveInv
<1>4. ASSUME NEW f \in Flows, Cleanup(f) PROVE LiveInv'
  BY <1>4, <1>a DEF Cleanup, LiveInv, Live
<1>5. ASSUME NEW e \in Execs, Timeout(e) PROVE LiveInv'
  <2>1. \A d \in Execs : flow'[d].id = flow[d].id
    BY <1>5, <1>a DEF Timeout, Settle, FlowRecords
  <2> QED BY <1>5, <2>1 DEF Timeout, LiveInv, Live
<1>6. ASSUME NEW e \in Execs, Progress(e) PROVE LiveInv'
  <2>1. /\ Live(e) /\ flow'[e].id = flow[e].id
        /\ \A d \in Execs \ {e} : flow'[d] = flow[d] /\ run'[d] = run[d]
        /\ flowStates' = flowStates /\ stops = 0
        /\ \/ cleanups' = cleanups
           \/ cleanups' = cleanups \union {flow[e].id} /\ run'[e].pc = "ended"
    BY <1>6, ProgressFrame
  <2>2. \A d \in Execs : Live(d)' => Live(d) /\ flow'[d].id = flow[d].id
    BY <2>1 DEF Live
  <2>3. \A d \in Execs : Live(d)' => flow[d].id \notin cleanups'
    BY <2>1, <2>2 DEF LiveInv, Live
  <2>4. \A g \in cleanups' : g \in Flows /\ flowStates[g] # None
    BY <1>a, <2>1 DEF LiveInv
  <2> QED BY <2>1, <2>2, <2>3, <2>4 DEF LiveInv
<1>7. CASE UNCHANGED vars
  BY <1>7 DEF vars, LiveInv, Live
<1> QED BY <1>1, <1>2, <1>3, <1>4, <1>5, <1>6, <1>7 DEF Next

(* Until the first stop(), at most one execution per id is live and a second execute() *)
(* joins it, for any number of ids and executions and whenever the timers fire.        *)
THEOREM OneExecutionPerId == Spec => []OneLiveExecution
<1>1. Init => LiveInv
  BY DEF Init, LiveInv, Live, NotRunning
<1>2. IInv /\ LiveInv /\ [Next]_vars => LiveInv'
  BY NextLiveInv
<1>3. LiveInv => OneLiveExecution
  BY DEF LiveInv, OneLiveExecution
<1> QED BY <1>1, <1>2, <1>3, IInvHolds, PTL DEF Spec

-----------------------------------------------------------------------------
(* Every execution keeps the promise of Saga. *)

(* A group begins when every step of the earlier ones has succeeded, and the completion *)
(* handler runs when all have: what the abstract Apply and Commit ask for.              *)
ReachedOK(f, r) ==
  /\ r.pc # "idle" => f.workflow \in Workflows
  /\ r.pc = "steps" => /\ r.running \cap r.succeeded = {}
                       /\ \A t \in Steps : GroupOf[t] < r.group => t \in r.succeeded
  /\ r.pc = "handler" => r.succeeded = Steps

ReachedInv == \A e \in Execs : ReachedOK(flow[e], run[e])

(* The pool starts some waiting step when nothing runs. *)
LEMMA FirstNonempty ==
  ASSUME NEW S \in SUBSET Nat, S # {}
  PROVE  First(S, ParallelConcurrency) # {}
<1>1. PICK s \in S : \A t \in S : ~(t < s)
  <2>1. \E x \in S : \A y \in S : ~(<<y, x>> \in OpToRel(<, Nat))
    BY NatLessThanWellFounded, WFMin
  <2> QED BY <2>1 DEF OpToRel
<1>2. {t \in S : t < s} = {}
  BY <1>1
<1>3. Cardinality({t \in S : t < s}) = 0
  BY <1>2, FS_EmptySet
<1>4. s \in First(S, ParallelConcurrency)
  BY <1>3, ParameterAssumption DEF First
<1> QED BY <1>4

(* The last step is in the last group. *)
LEMMA LastGroup ==
  /\ NumGroups \in Nat
  /\ \A t \in Steps : GroupOf[t] \in Nat /\ GroupOf[t] <= NumGroups
<1>1. NumGroups \in Nat
  <2>1. CASE NumSteps = 0
    BY <2>1 DEF NumGroups
  <2>2. CASE NumSteps # 0
    <3>1. NumSteps \in Steps
      BY <2>2, DefinitionAssumption DEF Steps
    <3> QED BY <2>2, <3>1, DefinitionAssumption DEF NumGroups
  <2> QED BY <2>1, <2>2
<1>2. ASSUME NEW t \in Steps PROVE GroupOf[t] \in Nat /\ GroupOf[t] <= NumGroups
  <2>1. NumSteps \in Steps /\ t <= NumSteps /\ NumSteps # 0 /\ t \in Nat
    BY DefinitionAssumption DEF Steps
  <2>2. GroupOf[t] \in Nat /\ GroupOf[NumSteps] \in Nat
    BY <2>1, DefinitionAssumption
  <2>3. t = NumSteps \/ t < NumSteps
    BY <2>1, DefinitionAssumption
  <2> QED BY <2>1, <2>2, <2>3, DefinitionAssumption DEF NumGroups
<1> QED BY <1>1, <1>2

LEMMA EnterGroupReached ==
  ASSUME NEW f, NEW r \in RunRecords, NEW g \in Nat, f.workflow \in Workflows,
         \A t \in Steps : t \in r.succeeded <=> GroupOf[t] < g
  PROVE  LET n == EnterGroup(r, g)
         IN  /\ ReachedOK(f, n) /\ n.pc \in {"steps", "handler"}
             /\ n.failed = r.failed /\ n.succeeded = r.succeeded /\ n.undone = r.undone
<1>1. r.succeeded \subseteq Steps
  BY DEF RunRecords
<1>2. CASE g > NumGroups
  <2>1. r.succeeded = Steps
    BY <1>1, <1>2, LastGroup
  <2>2. EnterGroup(r, g) = [r EXCEPT !.pc = "handler", !.group = g]
    BY <1>2 DEF EnterGroup
  <2>3. LET n == EnterGroup(r, g)
        IN  /\ n.pc = "handler" /\ n.failed = r.failed
            /\ n.succeeded = r.succeeded /\ n.undone = r.undone
    BY <2>2 DEF RunRecords
  <2> QED BY <2>1, <2>3 DEF ReachedOK
<1>3. CASE ~(g > NumGroups)
  <2> DEFINE n == EnterGroup(r, g)
  <2>1. /\ n.pc = "steps" /\ n.group = g /\ n.failed = r.failed /\ n.undone = r.undone
        /\ n.succeeded = r.succeeded /\ n.running \subseteq StepsOf(g)
    BY <1>3 DEF EnterGroup, First, RunRecords
  <2>2. n.running \cap n.succeeded = {}
    BY <2>1 DEF StepsOf
  <2> QED BY <2>1, <2>2 DEF ReachedOK
<1> QED BY <1>2, <1>3

(* r is the state just after one step of the current group has settled. *)
LEMMA AfterStepReached ==
  ASSUME NEW f, NEW r \in RunRecords, f.workflow \in Workflows, r.pc = "steps",
         r.running \cap r.succeeded = {}, r.failed \subseteq StepsOf(r.group),
         \A t \in Steps : GroupOf[t] < r.group => t \in r.succeeded,
         \A t \in r.succeeded : GroupOf[t] <= r.group
  PROVE  LET n == AfterStep(r)
         IN  /\ ReachedOK(f, n) /\ n.pc \in {"steps", "undo", "handler"}
             /\ n.failed = r.failed /\ n.succeeded = r.succeeded /\ n.undone = r.undone
<1> DEFINE next == [r EXCEPT !.running = @ \union StepsToStart(r)]
           group == StepsOf(r.group)
           merged == [r EXCEPT !.completed = @ \union (r.succeeded \cap group \cap Undoable)]
           waiting == group \ (r.running \union r.failed \union r.succeeded)
<1>1. StepsToStart(r) \subseteq waiting /\ group \subseteq Steps /\ r.group \in Nat
  BY DEF StepsToStart, First, StepsOf, RunRecords
<1>2. CASE next.running # {}
  <2>1. AfterStep(r) = next
    BY <1>2 DEF AfterStep
  <2>2. /\ next.pc = "steps" /\ next.group = r.group /\ next.failed = r.failed
        /\ next.succeeded = r.succeeded /\ next.undone = r.undone
        /\ next.running = r.running \union StepsToStart(r)
    BY DEF RunRecords
  <2> QED BY <1>1, <2>1, <2>2 DEF ReachedOK
<1>3. CASE next.running = {}
  <2>1. r.running = {} /\ StepsToStart(r) = {}
    BY <1>3 DEF RunRecords
  <2>2. /\ merged \in RunRecords /\ merged.pc = "steps" /\ merged.succeeded = r.succeeded
        /\ merged.failed = r.failed /\ merged.undone = r.undone
    BY <1>1 DEF RunRecords
  <2>3. CASE r.failed \cap group = {}
    <3>1. AfterStep(r) = EnterGroup(merged, r.group + 1) /\ r.failed = {}
      BY <1>3, <2>3 DEF AfterStep
    <3>2. waiting = {}
      <4>1. StepsToStart(r) = First(waiting, ParallelConcurrency - Cardinality({}))
        BY <2>1 DEF StepsToStart
      <4>2. StepsToStart(r) = First(waiting, ParallelConcurrency)
        BY <4>1, FS_EmptySet, ParameterAssumption
      <4>3. waiting \in SUBSET Nat
        BY <1>1, DefinitionAssumption DEF Steps
      <4> HIDE DEF waiting
      <4> QED BY <2>1, <4>2, <4>3, FirstNonempty
    <3>3. \A t \in Steps : t \in merged.succeeded <=> GroupOf[t] < r.group + 1
      <4> SUFFICES ASSUME NEW t \in Steps
                   PROVE  t \in r.succeeded <=> GroupOf[t] < r.group + 1
        BY <2>2
      <4>1. GroupOf[t] \in Nat
        BY LastGroup
      <4>2. GroupOf[t] = r.group => t \in r.succeeded
        BY <2>1, <3>1, <3>2 DEF StepsOf
      <4> QED BY <1>1, <4>1, <4>2
    <3>4. r.group + 1 \in Nat
      BY <1>1
    <3> HIDE DEF merged
    <3> QED BY <2>2, <3>1, <3>3, <3>4, EnterGroupReached
  <2>4. CASE r.failed \cap group # {}
    <3>1. AfterStep(r) = [merged EXCEPT !.pc = "undo"]
      BY <1>3, <2>4 DEF AfterStep
    <3> QED BY <2>2, <3>1 DEF ReachedOK, RunRecords
  <2> QED BY <2>3, <2>4
<1> QED BY <1>2, <1>3

(* What a settled step leaves the execution with. *)
LEMMA SettledStepReached ==
  ASSUME NEW f, NEW r \in RunRecords, RunOK(r), ReachedOK(f, r), r.pc = "steps",
         NEW s \in r.running
  PROVE  /\ LET n == AfterStep(WithSuccess(r, s))
            IN  /\ ReachedOK(f, n) /\ n.pc \in {"steps", "undo", "handler"}
                /\ n.failed = r.failed /\ n.succeeded = r.succeeded \union {s}
                /\ n.undone = {}
         /\ LET n == AfterStep(WithFailure(r, s))
            IN  /\ ReachedOK(f, n) /\ n.pc \in {"steps", "undo", "handler"}
                /\ n.failed = r.failed \union {s} /\ n.succeeded = r.succeeded
                /\ n.undone = {}
<1> DEFINE good == WithSuccess(r, s)
           bad == WithFailure(r, s)
<1>1. s \in Steps /\ GroupOf[s] = r.group /\ r.group \in Nat /\ s \in StepsOf(r.group)
  BY DEF RunOK, RunRecords, StepsOf
<1>2. good \in RunRecords /\ bad \in RunRecords
  BY <1>1 DEF RunRecords, WithSuccess, WithFailure
<1>3. /\ good.pc = "steps" /\ good.group = r.group /\ good.failed = r.failed
      /\ good.running = r.running \ {s} /\ good.succeeded = r.succeeded \union {s}
      /\ good.undone = {}
      /\ bad.pc = "steps" /\ bad.group = r.group /\ bad.failed = r.failed \union {s}
      /\ bad.running = r.running \ {s} /\ bad.succeeded = r.succeeded /\ bad.undone = {}
  BY DEF RunRecords, RunOK, WithSuccess, WithFailure
<1>4. /\ r.failed \subseteq StepsOf(r.group) /\ f.workflow \in Workflows
      /\ \A t \in r.succeeded : GroupOf[t] <= r.group
      /\ r.running \cap r.succeeded = {}
      /\ \A t \in Steps : GroupOf[t] < r.group => t \in r.succeeded
  BY DEF RunOK, ReachedOK
<1>5. \A t \in good.succeeded : GroupOf[t] <= good.group
  BY <1>1, <1>3, <1>4
<1> HIDE DEF good, bad
<1>6. LET n == AfterStep(good)
      IN  /\ ReachedOK(f, n) /\ n.pc \in {"steps", "undo", "handler"}
          /\ n.failed = good.failed /\ n.succeeded = good.succeeded /\ n.undone = good.undone
  BY <1>1, <1>2, <1>3, <1>4, <1>5, AfterStepReached
<1>7. LET n == AfterStep(bad)
      IN  /\ ReachedOK(f, n) /\ n.pc \in {"steps", "undo", "handler"}
          /\ n.failed = bad.failed /\ n.succeeded = bad.succeeded /\ n.undone = bad.undone
  BY <1>1, <1>2, <1>3, <1>4, AfterStepReached
<1> QED BY <1>3, <1>6, <1>7 DEF good, bad

(* How one step of execution e moves the abstract state: it moves at e alone. *)
PhaseMap == [e \in Execs |-> Phase(e)]
AppliedMap == [e \in Execs |-> run[e].succeeded]
UndoneMap == [e \in Execs |-> run[e].undone]
Outcome(e) == IF flow[e].promise \in {"pending", "resolved"} THEN flow[e].promise ELSE "rejected"
OutcomeMap == [e \in Execs |-> Outcome(e)]

LEMMA MovesAtOne ==
  ASSUME NEW e \in Execs, \A d \in Execs \ {e} : flow'[d] = flow[d] /\ run'[d] = run[d]
  PROVE  /\ PhaseMap' = [PhaseMap EXCEPT ![e] = Phase(e)']
         /\ AppliedMap' = [AppliedMap EXCEPT ![e] = run'[e].succeeded]
         /\ UndoneMap' = [UndoneMap EXCEPT ![e] = run'[e].undone]
         /\ OutcomeMap' = [OutcomeMap EXCEPT ![e] = Outcome(e)']
<1>1. \A d \in Execs \ {e} : Phase(d)' = Phase(d) /\ Outcome(d)' = Outcome(d)
  BY DEF Phase, Outcome
<1> QED BY <1>1 DEF PhaseMap, AppliedMap, UndoneMap, OutcomeMap

(* The steps of Saga, said of the state of execution e before and after. *)
Kept(e) == run'[e].succeeded = run[e].succeeded /\ run'[e].undone = run[e].undone

MoveBegin(e) ==
  Phase(e) = "new" /\ Phase(e)' = "forward" /\ Kept(e) /\ Outcome(e)' = Outcome(e)

MoveAbort(e) ==
  Phase(e) = "forward" /\ Phase(e)' = "backward" /\ Kept(e) /\ Outcome(e)' = Outcome(e)

EarlierDone(e, s) == \A t \in Steps : GroupOf[t] < GroupOf[s] => t \in run[e].succeeded

MoveApply(e, s) ==
  /\ Phase(e) \in {"forward", "backward"} /\ Phase(e)' = Phase(e)
  /\ run[e].undone = {} /\ s \notin run[e].succeeded /\ EarlierDone(e, s)
  /\ run'[e].succeeded = run[e].succeeded \union {s} /\ run'[e].undone = run[e].undone
  /\ Outcome(e)' = Outcome(e)

ToUndo(e) == (run[e].succeeded \cap Undoable) \ run[e].undone

MoveUndo(e, s) ==
  /\ Phase(e) = "backward" /\ Phase(e)' = "backward"
  /\ s \in ToUndo(e) /\ \A t \in ToUndo(e) : GroupOf[t] <= GroupOf[s]
  /\ run'[e].succeeded = run[e].succeeded /\ run'[e].undone = run[e].undone \union {s}
  /\ Outcome(e)' = Outcome(e)

Told(e, what) == IF Outcome(e) = "pending" THEN what ELSE Outcome(e)

MoveCommit(e) ==
  /\ Phase(e) = "forward" /\ Phase(e)' = "done" /\ Kept(e)
  /\ run[e].succeeded = Steps /\ Outcome(e)' = Told(e, "resolved")

\* The steps whose error the provider does not route to the compensation.
Abandoning(s) ==
  GroupOf[s] \notin ParallelGroups /\ (s \in ThrowsSync \/ \E w \in Workflows : s \notin Registered[w])

MayFail(e) ==
  \/ Phase(e) = "forward" /\ run[e].succeeded = Steps
  \/ Phase(e) = "backward" /\ ToUndo(e) = {}
  \/ /\ Phase(e) = "forward"
     /\ \E s \in Steps \ run[e].succeeded : Abandoning(s) /\ EarlierDone(e, s)

MoveFail(e) ==
  /\ MayFail(e) /\ Phase(e)' = "done" /\ Kept(e)
  /\ Outcome(e)' \in {Outcome(e), Told(e, "rejected")}

MoveReject(e) ==
  /\ Phase(e) # "new" /\ Phase(e)' = Phase(e) /\ Kept(e)
  /\ Outcome(e) = "pending" /\ Outcome(e)' = "rejected"

MoveNothing(e) == Phase(e)' = Phase(e) /\ Kept(e) /\ Outcome(e)' = Outcome(e)

Moves(e) ==
  \/ MoveBegin(e) \/ MoveAbort(e) \/ MoveCommit(e) \/ MoveFail(e) \/ MoveReject(e)
  \/ MoveNothing(e) \/ \E s \in Steps : MoveApply(e, s) \/ MoveUndo(e, s)

LEMMA MovesMap ==
  ASSUME NEW e \in Execs, Moves(e),
         \A d \in Execs \ {e} : flow'[d] = flow[d] /\ run'[d] = run[d]
  PROVE  [Promised!Next]_Promised!vars
<1> USE DEF PhaseMap, AppliedMap, UndoneMap, OutcomeMap
<1>a. /\ PhaseMap' = [PhaseMap EXCEPT ![e] = Phase(e)']
      /\ AppliedMap' = [AppliedMap EXCEPT ![e] = run'[e].succeeded]
      /\ UndoneMap' = [UndoneMap EXCEPT ![e] = run'[e].undone]
      /\ OutcomeMap' = [OutcomeMap EXCEPT ![e] = Outcome(e)']
  BY MovesAtOne
<1>b. /\ PhaseMap[e] = Phase(e) /\ AppliedMap[e] = run[e].succeeded
      /\ UndoneMap[e] = run[e].undone /\ OutcomeMap[e] = Outcome(e)
  OBVIOUS
<1>c. /\ Kept(e) => AppliedMap' = AppliedMap /\ UndoneMap' = UndoneMap
      /\ Phase(e)' = Phase(e) => PhaseMap' = PhaseMap
      /\ Outcome(e)' = Outcome(e) => OutcomeMap' = OutcomeMap
      /\ run'[e].succeeded = run[e].succeeded => AppliedMap' = AppliedMap
      /\ run'[e].undone = run[e].undone => UndoneMap' = UndoneMap
  BY <1>a DEF Kept
<1>1. ASSUME MoveBegin(e) PROVE Promised!Begin(e)
  BY <1>1, <1>a, <1>b, <1>c DEF MoveBegin, Promised!Begin, Outcome
<1>2. ASSUME MoveAbort(e) PROVE Promised!Abort(e)
  BY <1>2, <1>a, <1>b, <1>c DEF MoveAbort, Promised!Abort, Outcome
<1>3. ASSUME MoveCommit(e) PROVE Promised!Commit(e)
  BY <1>3, <1>a, <1>b, <1>c DEF MoveCommit, Promised!Commit, Told, Outcome
<1>4. ASSUME MoveFail(e) PROVE Promised!Fail(e)
  BY <1>4, <1>a, <1>b, <1>c DEF MoveFail, MayFail, Abandoning, ToUndo, EarlierDone, Told, Outcome,
     Promised!Fail, Promised!Remaining, Promised!Reached
<1>5. ASSUME MoveReject(e) PROVE Promised!Reject(e)
  BY <1>5, <1>a, <1>b, <1>c DEF MoveReject, Promised!Reject, Outcome
<1>6. ASSUME MoveNothing(e) PROVE UNCHANGED Promised!vars
  BY <1>6, <1>a, <1>b, <1>c DEF MoveNothing, Promised!vars, Outcome
<1>7. ASSUME NEW s \in Steps, MoveApply(e, s) PROVE Promised!Apply(e, s)
  BY <1>7, <1>a, <1>b, <1>c DEF MoveApply, EarlierDone, Promised!Apply, Promised!Reached, Outcome
<1>8. ASSUME NEW s \in Steps, MoveUndo(e, s) PROVE Promised!Undo(e, s)
  BY <1>8, <1>a, <1>b, <1>c DEF MoveUndo, ToUndo, Promised!Undo, Promised!Remaining, Outcome
<1> QED BY <1>1, <1>2, <1>3, <1>4, <1>5, <1>6, <1>7, <1>8 DEF Moves, Promised!Next

(* The moves that end an execution, and those of a step error. *)
LEMMA EndMoves ==
  ASSUME IInv, NEW e \in Execs, flow[e].workflow \in Workflows,
         \/ \E cause \in Causes : FailWith(e, cause)
         \/ EscapeWith(e)
         \/ OnStepError(e)
  PROVE  /\ Kept(e) /\ Phase(e)' = "done" /\ Outcome(e)' \in {Outcome(e), Told(e, "rejected")}
         /\ ReachedOK(flow'[e], run'[e])
         /\ ~OnStepError(e) => Outcome(e)' = Told(e, "rejected")
<1>1. /\ flow \in [Execs -> FlowRecords] /\ run \in [Execs -> RunRecords]
      /\ flow[e] \in FlowRecords /\ run[e] \in RunRecords
  BY DEF IInv, TypeOK
<1>2. ASSUME NEW cause \in Causes, FailWith(e, cause)
      PROVE  /\ run'[e].pc = "ended" /\ Kept(e) /\ flow'[e].workflow = flow[e].workflow
             /\ Outcome(e)' = Told(e, "rejected")
  <2>1. run'[e].pc = "ended" /\ Kept(e)
    BY <1>1, <1>2 DEF FailWith, Kept, RunRecords
  <2>2. /\ flow'[e].workflow = flow[e].workflow
        /\ flow'[e].promise = IF flow[e].promise = "pending" THEN cause ELSE flow[e].promise
    BY <1>1, <1>2 DEF FailWith, Settle, FlowRecords
  <2> QED BY <2>1, <2>2 DEF Outcome, Told, Causes
<1>3. ASSUME EscapeWith(e)
      PROVE  /\ run'[e].pc = "escaped" /\ Kept(e) /\ flow'[e].workflow = flow[e].workflow
             /\ Outcome(e)' = Told(e, "rejected")
  <2>1. run'[e].pc = "escaped" /\ Kept(e)
    BY <1>1, <1>3 DEF EscapeWith, Kept, RunRecords
  <2>2. /\ flow'[e].workflow = flow[e].workflow
        /\ flow'[e].promise = IF flow[e].promise = "pending" THEN "escape" ELSE flow[e].promise
    BY <1>1, <1>3 DEF EscapeWith, Settle, FlowRecords
  <2> QED BY <2>1, <2>2 DEF Outcome, Told
<1>4. ASSUME OnStepError(e), HasOnError
      PROVE  /\ run'[e].pc = "onError" /\ Kept(e) /\ flow'[e].workflow = flow[e].workflow
             /\ Outcome(e)' = Outcome(e)
  BY <1>1, <1>4 DEF OnStepError, Kept, RunRecords, Outcome
<1>5. OnStepError(e) /\ ~HasOnError => \E cause \in Causes : FailWith(e, cause)
  BY DEF OnStepError, Causes
<1>6. /\ run'[e].pc \in {"onError", "ended", "escaped"} /\ Kept(e)
      /\ flow'[e].workflow = flow[e].workflow
      /\ Outcome(e)' \in {Outcome(e), Told(e, "rejected")}
      /\ ~OnStepError(e) => Outcome(e)' = Told(e, "rejected")
  BY <1>2, <1>3, <1>4, <1>5
<1> QED BY <1>6 DEF Phase, ReachedOK

(* Every step of the asynchronous function is a step of Saga, or none. *)
LEMMA ProgressMoves ==
  ASSUME IInv, ReachedInv, NEW e \in Execs, Progress(e)
  PROVE  Moves(e) /\ ReachedOK(flow'[e], run'[e])
<1>1. /\ flow \in [Execs -> FlowRecords] /\ run \in [Execs -> RunRecords]
      /\ flow[e] \in FlowRecords /\ run[e] \in RunRecords
      /\ RunOK(run[e]) /\ OutcomeOK(flow[e], run[e]) /\ ReachedOK(flow[e], run[e])
  BY DEF IInv, TypeOK, RunInv, OutcomeInv, ReachedInv
<1>2. flow[e].workflow \in Workflows
  BY <1>1, ProgressFrame DEF Live, ReachedOK
<1>3. ASSUME NEW s \in Steps, StepSucceeds(e, s) \/ StepFails(e, s)
      PROVE  Moves(e) /\ ReachedOK(flow'[e], run'[e])
  <2>1. /\ run[e].pc = "steps" /\ s \in run[e].running /\ run[e].undone = {}
        /\ flow'[e] = flow[e] /\ Outcome(e)' = Outcome(e)
        /\ s \notin run[e].succeeded /\ EarlierDone(e, s)
    BY <1>1, <1>3 DEF StepSucceeds, StepFails, RunOK, ReachedOK, StepsOf, EarlierDone, Outcome
  <2>2. CASE StepSucceeds(e, s)
    <3>1. run'[e] = AfterStep(WithSuccess(run[e], s))
      BY <1>1, <2>2 DEF StepSucceeds
    <3>2. /\ ReachedOK(flow[e], run'[e]) /\ run'[e].pc \in {"steps", "undo", "handler"}
          /\ run'[e].failed = run[e].failed /\ run'[e].succeeded = run[e].succeeded \union {s}
          /\ run'[e].undone = {}
      BY <1>1, <2>1, <3>1, SettledStepReached
    <3>3. Phase(e) \in {"forward", "backward"} /\ Phase(e)' = Phase(e)
      BY <2>1, <3>2 DEF Phase
    <3> QED BY <2>1, <3>2, <3>3 DEF Moves, MoveApply
  <2>3. CASE StepFails(e, s)
    <3>1. run'[e] = AfterStep(WithFailure(run[e], s))
      BY <1>1, <2>3 DEF StepFails
    <3>2. /\ ReachedOK(flow[e], run'[e]) /\ run'[e].pc \in {"steps", "undo", "handler"}
          /\ run'[e].failed = run[e].failed \union {s} /\ run'[e].succeeded = run[e].succeeded
          /\ run'[e].undone = {}
      BY <1>1, <2>1, <3>1, SettledStepReached
    <3>3. /\ Phase(e) = IF run[e].failed = {} THEN "forward" ELSE "backward"
          /\ Phase(e)' = "backward"
      BY <2>1, <3>2 DEF Phase
    <3> QED BY <2>1, <3>2, <3>3 DEF Moves, MoveAbort, MoveNothing, Kept
  <2> QED BY <1>3, <2>2, <2>3
<1>4. ASSUME NEW s \in Steps, StepMissing(e, s) \/ StepThrows(e, s)
      PROVE  Moves(e) /\ ReachedOK(flow'[e], run'[e])
  <2>1. /\ run[e].pc = "steps" /\ s \in run[e].running /\ run[e].group \notin ParallelGroups
        /\ GroupOf[s] = run[e].group
        /\ s \notin Registered[flow[e].workflow] \/ s \in ThrowsSync
    BY <1>1, <1>4 DEF StepMissing, StepThrows, IsSequential, RunOK, StepsOf
  <2>2. run[e].failed = {}
    BY <1>1, <2>1, DefinitionAssumption DEF RunOK, RunRecords, StepsOf
  <2>3. /\ Phase(e) = "forward" /\ s \notin run[e].succeeded /\ EarlierDone(e, s)
        /\ Abandoning(s)
    BY <1>1, <1>2, <2>1, <2>2 DEF Phase, ReachedOK, EarlierDone, Abandoning
  <2>4. OnStepError(e) \/ EscapeWith(e)
    BY <1>4 DEF StepMissing, StepThrows
  <2> QED BY <1>2, <2>3, <2>4, EndMoves DEF Moves, MoveFail, MayFail
<1>5. ASSUME NEW s \in Steps, NEW ok \in BOOLEAN, RollbackEnds(e, s, ok)
      PROVE  Moves(e) /\ ReachedOK(flow'[e], run'[e])
  <2>1. /\ run[e].pc = "undo" /\ run[e].failed # {}
        /\ run[e].completed = run[e].succeeded \cap Undoable
        /\ flow'[e] = flow[e] /\ Outcome(e)' = Outcome(e)
    BY <1>1, <1>5 DEF RollbackEnds, RunOK, Outcome
  <2>2. /\ run'[e].pc = "undo" /\ run'[e].failed = run[e].failed
        /\ run'[e].succeeded = run[e].succeeded /\ run'[e].undone = run[e].undone \union {s}
    BY <1>1, <1>5, <2>1 DEF RollbackEnds, RunRecords
  <2>3. s \in ToUndo(e) /\ \A t \in ToUndo(e) : GroupOf[t] <= GroupOf[s]
    <3>1. s \in ToUndo(e) /\ \A t \in ToUndo(e) : t <= s /\ t \in Steps
      BY <1>1, <1>5, <2>1, DefinitionAssumption DEF RollbackEnds, IsLastOf, ToUndo, RunRecords
    <3>2. \A t \in Steps : t < s \/ t = s \/ ~(t <= s)
      BY DefinitionAssumption DEF Steps
    <3>3. GroupOf[s] <= GroupOf[s]
      BY LastGroup
    <3> QED BY <3>1, <3>2, <3>3, DefinitionAssumption
  <2>4. Phase(e) = "backward" /\ Phase(e)' = "backward"
    BY <2>1, <2>2 DEF Phase
  <2>5. ReachedOK(flow'[e], run'[e])
    BY <1>2, <2>1, <2>2 DEF ReachedOK
  <2> QED BY <2>1, <2>2, <2>3, <2>4, <2>5 DEF Moves, MoveUndo
<1>6. ASSUME RollbacksDone(e) PROVE Moves(e) /\ ReachedOK(flow'[e], run'[e])
  <2>1. Phase(e) = "backward" /\ ToUndo(e) = {} /\ OnStepError(e)
    BY <1>1, <1>6 DEF RollbacksDone, RunOK, Phase, ToUndo
  <2> QED BY <1>2, <2>1, EndMoves DEF Moves, MoveFail, MayFail
<1>7. ASSUME OnErrorReturns(e) \/ OnErrorThrows(e)
      PROVE  Moves(e) /\ ReachedOK(flow'[e], run'[e])
  <2>1. /\ Phase(e) = "done" /\ run[e].pc = "onError"
        /\ (\E cause \in Causes : FailWith(e, cause)) \/ EscapeWith(e)
    BY <1>7 DEF OnErrorReturns, OnErrorThrows, Phase, Causes
  <2>2. /\ Kept(e) /\ Phase(e)' = "done" /\ ReachedOK(flow'[e], run'[e])
        /\ Outcome(e)' \in {Outcome(e), Told(e, "rejected")}
    BY <1>2, <2>1, EndMoves
  <2> QED BY <2>1, <2>2 DEF Moves, MoveReject, MoveNothing, Told
<1>8. ASSUME HandlerReturns(e) PROVE Moves(e) /\ ReachedOK(flow'[e], run'[e])
  <2>1. /\ run[e].pc = "handler" /\ run[e].succeeded = Steps /\ run[e].failed = {}
        /\ flow[e].status = "failed" <=> flow[e].promise # "pending"
    BY <1>1, <1>8 DEF HandlerReturns, RunOK, ReachedOK, OutcomeOK, FlowRecords
  <2>2. run'[e].pc = "ended" /\ Kept(e)
    BY <1>1, <1>8 DEF HandlerReturns, RunRecords, Kept
  <2>3. Outcome(e)' = Told(e, "resolved") /\ flow'[e].workflow = flow[e].workflow
    BY <1>1, <1>8, <2>1 DEF HandlerReturns, FlowRecords, Settle, Outcome, Told
  <2>4. Phase(e) = "forward" /\ Phase(e)' = "done"
    BY <2>1, <2>2 DEF Phase
  <2>5. ReachedOK(flow'[e], run'[e])
    BY <1>2, <2>2, <2>3 DEF ReachedOK
  <2> QED BY <2>1, <2>2, <2>3, <2>4, <2>5 DEF Moves, MoveCommit
<1>9. ASSUME HandlerFails(e) PROVE Moves(e) /\ ReachedOK(flow'[e], run'[e])
  <2>1. /\ Phase(e) = "forward" /\ run[e].succeeded = Steps
        /\ \E cause \in Causes : FailWith(e, cause)
    BY <1>1, <1>9 DEF HandlerFails, RunOK, ReachedOK, Phase, Causes
  <2> QED BY <1>2, <2>1, EndMoves DEF Moves, MoveFail, MayFail
<1> QED BY <1>3, <1>4, <1>5, <1>6, <1>7, <1>8, <1>9 DEF Progress

(* A step of the provider maps to a step of Saga or leaves the mapped state alone. *)
LEMMA NextSaga ==
  ASSUME IInv, ReachedInv, [Next]_vars
  PROVE  ReachedInv' /\ [Promised!Next]_Promised!vars
<1>1. flow \in [Execs -> FlowRecords] /\ run \in [Execs -> RunRecords]
  BY DEF IInv, TypeOK
<1>2. CASE UNCHANGED <<flow, run>>
  <2>1. ReachedInv'
    BY <1>2 DEF ReachedInv
  <2>2. UNCHANGED Promised!vars
    BY <1>2 DEF Promised!vars, Phase
  <2> QED BY <2>1, <2>2
<1>3. ASSUME NEW w \in Workflows, NEW f \in Flows, NEW e \in Execs, NEW armed \in Timeouts,
             Execute(w, f, e, armed)
      PROVE  ReachedInv' /\ [Promised!Next]_Promised!vars
  <2>1. /\ run[e] = NotRunning /\ run[e] \in RunRecords /\ flow[e].promise = "pending"
        /\ run[e].succeeded = {} /\ run[e].undone = {} /\ run[e].failed = {}
    BY <1>1, <1>3 DEF Execute, IInv, RunInv, OutcomeInv, RunOK, OutcomeOK, NotRunning
  <2>2. /\ run'[e] = EnterGroup(run[e], 1) /\ flow'[e].workflow = w
        /\ flow'[e].promise = "pending"
        /\ \A d \in Execs \ {e} : flow'[d] = flow[d] /\ run'[d] = run[d]
    BY <1>1, <1>3 DEF Execute, Unused
  <2>3. \A t \in Steps : t \in run[e].succeeded <=> GroupOf[t] < 1
    BY <2>1, DefinitionAssumption
  <2>4. /\ ReachedOK(flow'[e], run'[e]) /\ run'[e].pc \in {"steps", "handler"}
        /\ run'[e].failed = {} /\ run'[e].succeeded = {} /\ run'[e].undone = {}
    BY <2>1, <2>2, <2>3, EnterGroupReached
  <2>5. Phase(e) = "new" /\ Phase(e)' = "forward"
    BY <1>3, <2>4 DEF Execute, Phase
  <2>6. Moves(e)
    BY <2>1, <2>2, <2>4, <2>5 DEF Moves, MoveBegin, Kept, Outcome
  <2>7. ReachedInv'
    BY <2>2, <2>4 DEF ReachedInv
  <2> QED BY <2>2, <2>6, <2>7, MovesMap
<1>4. ASSUME NEW e \in Execs, Timeout(e)
      PROVE  ReachedInv' /\ [Promised!Next]_Promised!vars
  <2>1. flow[e].promise = "pending" /\ run[e].pc # "idle" /\ flow[e] \in FlowRecords
    BY <1>1, <1>4 DEF Timeout, IInv, OutcomeInv, OutcomeOK
  <2>2. /\ flow'[e].promise = "timeout" /\ flow'[e].workflow = flow[e].workflow
        /\ \A d \in Execs \ {e} : flow'[d] = flow[d]
    BY <1>1, <1>4, <2>1 DEF Timeout, Settle, FlowRecords
  <2>3. run' = run
    BY <1>4 DEF Timeout
  <2>4. /\ Phase(e)' = Phase(e) /\ Kept(e) /\ Phase(e) # "new"
        /\ Outcome(e) = "pending" /\ Outcome(e)' = "rejected"
    BY <2>1, <2>2, <2>3 DEF Phase, Kept, Outcome
  <2>5. ReachedInv'
    BY <2>2, <2>3 DEF ReachedInv, ReachedOK
  <2> QED BY <2>2, <2>3, <2>4, <2>5, MovesMap DEF Moves, MoveReject
<1>5. ASSUME NEW e \in Execs, Progress(e)
      PROVE  ReachedInv' /\ [Promised!Next]_Promised!vars
  <2>1. \A d \in Execs \ {e} : flow'[d] = flow[d] /\ run'[d] = run[d]
    BY <1>5, ProgressFrame
  <2>2. Moves(e) /\ ReachedOK(flow'[e], run'[e])
    BY <1>5, ProgressMoves
  <2>3. ReachedInv'
    BY <2>1, <2>2 DEF ReachedInv
  <2> QED BY <2>1, <2>2, <2>3, MovesMap
<1>6. Start \/ Stop \/ (\E f \in Flows : Cleanup(f)) \/ UNCHANGED vars => UNCHANGED <<flow, run>>
  BY DEF Start, Stop, Cleanup, vars
<1> QED BY <1>2, <1>3, <1>4, <1>5, <1>6 DEF Next

LEMMA InitSaga == Init => ReachedInv /\ Promised!Init
<1> SUFFICES ASSUME Init PROVE ReachedInv /\ Promised!Init
  OBVIOUS
<1>1. \A e \in Execs : run[e] = NotRunning /\ flow[e] = Unused
  BY DEF Init
<1>2. ReachedInv
  BY <1>1 DEF ReachedInv, ReachedOK, NotRunning
<1>3. \A e \in Execs : /\ Phase(e) = "new" /\ run[e].succeeded = {} /\ run[e].undone = {}
                       /\ flow[e].promise = "pending"
  BY <1>1 DEF Phase, NotRunning, Unused
<1>4. Promised!Init
  BY <1>3 DEF Promised!Init
<1> QED BY <1>2, <1>4

(* The provider implements Saga: for every definition and any number of executions, an  *)
(* execution applies its steps group by group, undoes what it can in reverse and then   *)
(* applies nothing more, and resolves only when all was applied.                        *)
THEOREM RefinesSaga == Spec => ImplementsSaga
<1>1. Init => ReachedInv /\ Promised!Init
  BY InitSaga
<1>2. IInv /\ ReachedInv /\ [Next]_vars => ReachedInv' /\ [Promised!Next]_Promised!vars
  BY NextSaga
<1>3. Spec => []ReachedInv
  BY <1>1, <1>2, IInvHolds, PTL DEF Spec
<1> QED BY <1>1, <1>2, <1>3, IInvHolds, PTL DEF Spec, ImplementsSaga, Promised!Spec
-----------------------------------------------------------------------------

HerdInv ==
  /\ entry # NoFlight => Cardinality(Running) <= 1 + forgets
  /\ entry = NoFlight => Cardinality(Running) <= forgets

FlightInv == FlightTypeOK /\ HerdInv /\ JoinsRunning

-----------------------------------------------------------------------------
(* The set of running functions, as flights start and end. *)

LEMMA RunningFinite ==
  ASSUME FlightTypeOK
  PROVE  IsFiniteSet(Running) /\ Cardinality(Running) \in Nat
<1>1. IsFiniteSet(Flights)
  BY FS_Interval, SingleflightAssumption DEF Flights
<1>2. Running \in SUBSET Flights
  BY DEF Running
<1> QED
  BY <1>1, <1>2, FS_Subset, FS_CardinalityType

\* A flight that starts makes the herd one larger.
LEMMA RunningGrows ==
  ASSUME FlightTypeOK, NEW f \in Flights, flights[f] = "unused",
         flights' = [flights EXCEPT ![f] = "running"]
  PROVE  Cardinality(Running') = Cardinality(Running) + 1
<1>1. Running' = Running \union {f} /\ f \notin Running
  BY DEF Running, FlightTypeOK
<1> QED
  BY <1>1, RunningFinite, FS_AddElement

\* A flight that ends makes it one smaller.
LEMMA RunningShrinks ==
  ASSUME FlightTypeOK, NEW f \in Flights, flights[f] = "running", NEW s, s # "running",
         flights' = [flights EXCEPT ![f] = s]
  PROVE  Cardinality(Running') = Cardinality(Running) - 1
<1>1. Running' = Running \ {f} /\ f \in Running
  BY DEF Running, FlightTypeOK
<1> QED
  BY <1>1, RunningFinite, FS_RemoveElement

\* A function that throws before its first await is never part of it.
LEMMA RunningStays ==
  ASSUME FlightTypeOK, NEW f \in Flights, flights[f] = "unused",
         flights' = [flights EXCEPT ![f] = "threw"]
  PROVE  Running' = Running
  BY DEF Running, FlightTypeOK

-----------------------------------------------------------------------------
(* The invariant. *)

LEMMA InitOK == FlightInit => FlightInv
<1> SUFFICES ASSUME FlightInit PROVE FlightInv
  OBVIOUS
<1>1. FlightTypeOK
  BY SingleflightAssumption DEF FlightInit, FlightTypeOK
<1>2. Running = {}
  BY DEF FlightInit, Running
<1>3. HerdInv
  BY <1>2, FS_EmptySet DEF FlightInit, HerdInv
<1> QED
  BY <1>1, <1>3 DEF FlightInv, JoinsRunning, FlightInit

LEMMA NextTypeOK ==
  ASSUME FlightTypeOK, [FlightNext]_flightVars
  PROVE  FlightTypeOK'
<1> USE SingleflightAssumption
<1>1. ASSUME NEW c \in Callers, DoThrowsCached(c) PROVE FlightTypeOK'
  BY <1>1 DEF DoThrowsCached, FlightTypeOK
<1>2. ASSUME NEW c \in Callers, DoJoins(c) PROVE FlightTypeOK'
  BY <1>2 DEF DoJoins, FlightTypeOK
<1>3. ASSUME NEW c \in Callers, NEW f \in Flights, DoStarts(c, f) PROVE FlightTypeOK'
  BY <1>3 DEF DoStarts, FlightTypeOK
<1>4. ASSUME NEW c \in Callers, NEW f \in Flights, DoStartsAndThrows(c, f) PROVE FlightTypeOK'
  BY <1>4 DEF DoStartsAndThrows, FlightTypeOK
<1>5. ASSUME NEW f \in Flights, FlightEnds(f) PROVE FlightTypeOK'
  BY <1>5 DEF FlightEnds, FlightSucceeds, FlightFails, FlightTypeOK
<1>6. CASE Forget
  BY <1>6 DEF Forget, FlightTypeOK
<1>7. CASE ForgetError
  BY <1>7 DEF ForgetError, FlightTypeOK
<1>8. CASE Tick
  BY <1>8 DEF Tick, FlightTypeOK
<1>9. CASE UNCHANGED flightVars
  BY <1>9 DEF flightVars, FlightTypeOK
<1> QED
  BY <1>1, <1>2, <1>3, <1>4, <1>5, <1>6, <1>7, <1>8, <1>9 DEF FlightNext

LEMMA NextHerd ==
  ASSUME FlightTypeOK, HerdInv, [FlightNext]_flightVars
  PROVE  HerdInv'
<1> USE SingleflightAssumption
<1>t. forgets \in Nat /\ Cardinality(Running) \in Nat /\ NoFlight \notin Flights
  BY RunningFinite DEF FlightTypeOK, Flights
<1>1. ASSUME UNCHANGED <<entry, flights, forgets>> PROVE HerdInv'
  BY <1>1 DEF HerdInv, Running
<1>2. ASSUME NEW c \in Callers, DoThrowsCached(c) \/ DoJoins(c) PROVE HerdInv'
  BY <1>1, <1>2 DEF DoThrowsCached, DoJoins
<1>3. ASSUME NEW c \in Callers, NEW f \in Flights, DoStarts(c, f) PROVE HerdInv'
  <2>1. Cardinality(Running') = Cardinality(Running) + 1
    BY <1>3, RunningGrows DEF DoStarts, IsNext
  <2> QED
    BY <1>3, <1>t, <2>1 DEF DoStarts, HerdInv
<1>4. ASSUME NEW c \in Callers, NEW f \in Flights, DoStartsAndThrows(c, f) PROVE HerdInv'
  <2>1. Running' = Running
    BY <1>4, RunningStays DEF DoStartsAndThrows, IsNext
  <2> QED
    BY <1>4, <1>t, <2>1 DEF DoStartsAndThrows, HerdInv
<1>5. ASSUME NEW f \in Flights, FlightEnds(f) PROVE HerdInv'
  <2>1. Cardinality(Running') = Cardinality(Running) - 1
    BY <1>5, RunningShrinks DEF FlightEnds, FlightSucceeds, FlightFails
  <2>2. entry' = NoFlight /\ forgets' = forgets
    BY <1>5 DEF FlightEnds, FlightSucceeds, FlightFails
  <2> QED
    BY <1>t, <2>1, <2>2 DEF HerdInv
<1>6. CASE Forget
  <2>1. Running' = Running
    BY <1>6 DEF Forget, Running
  <2> QED
    BY <1>6, <1>t, <2>1 DEF Forget, HerdInv
<1>7. CASE ForgetError \/ Tick \/ UNCHANGED flightVars
  BY <1>1, <1>7 DEF ForgetError, Tick, flightVars
<1> QED
  BY <1>2, <1>3, <1>4, <1>5, <1>6, <1>7 DEF FlightNext

LEMMA NextJoins ==
  ASSUME FlightTypeOK, JoinsRunning, [FlightNext]_flightVars
  PROVE  JoinsRunning'
<1> USE SingleflightAssumption
<1>1. ASSUME UNCHANGED <<entry, flights>> PROVE JoinsRunning'
  BY <1>1 DEF JoinsRunning
<1>2. ASSUME NEW c \in Callers, DoThrowsCached(c) \/ DoJoins(c) PROVE JoinsRunning'
  BY <1>1, <1>2 DEF DoThrowsCached, DoJoins
<1>3. ASSUME NEW c \in Callers, NEW f \in Flights, DoStarts(c, f) \/ DoStartsAndThrows(c, f)
      PROVE  JoinsRunning'
  BY <1>3 DEF DoStarts, DoStartsAndThrows, JoinsRunning, FlightTypeOK
<1>4. ASSUME NEW f \in Flights, FlightEnds(f) PROVE JoinsRunning'
  BY <1>4 DEF FlightEnds, FlightSucceeds, FlightFails, JoinsRunning
<1>5. CASE Forget
  BY <1>5 DEF Forget, JoinsRunning
<1>6. CASE ForgetError \/ Tick \/ UNCHANGED flightVars
  BY <1>1, <1>6 DEF ForgetError, Tick, flightVars
<1> QED
  BY <1>2, <1>3, <1>4, <1>5, <1>6 DEF FlightNext

LEMMA NextOK == FlightInv /\ [FlightNext]_flightVars => FlightInv'
  BY NextTypeOK, NextHerd, NextJoins DEF FlightInv

\* The inductive invariant holds in every state of every behaviour.
THEOREM FlightInvHolds == FlightSpec => []FlightInv
<1> QED
  BY InitOK, NextOK, PTL DEF FlightSpec

-----------------------------------------------------------------------------
(* What it implies. *)

\* The maps and the callers of do() hold what they should.
THEOREM FlightTypes == FlightSpec => []FlightTypeOK
<1>1. FlightInv => FlightTypeOK
  BY DEF FlightInv
<1> QED
  BY <1>1, FlightInvHolds, PTL

\* However many callers there are, no more than one function runs, and one more for every
\* forget() or clear(). (do, forget)
THEOREM HerdIsBounded == FlightSpec => []HerdBound
<1>1. FlightInv => HerdBound
  <2> SUFFICES ASSUME FlightInv PROVE HerdBound
    OBVIOUS
  <2>1. forgets \in Nat /\ Cardinality(Running) \in Nat
    BY RunningFinite, SingleflightAssumption DEF FlightInv, FlightTypeOK
  <2> QED
    BY <2>1 DEF FlightInv, HerdInv, HerdBound
<1> QED
  BY <1>1, FlightInvHolds, PTL

\* A caller never joins a flight that has ended, unless its function threw before its
\* first await. (the finally of do())
THEOREM JoinedFlightsRun == FlightSpec => []JoinsRunning
<1>1. FlightInv => JoinsRunning
  BY DEF FlightInv
<1> QED
  BY <1>1, FlightInvHolds, PTL

-----------------------------------------------------------------------------
(* The test event provider. *)

Stages == {"none", "scheduled", "handling", "resolved", "rejected", "cleared"}

TestTypeOK ==
  /\ emission \in [Emissions -> [stage : Stages, key : EventKeys \union {NoKey}, left : Nat,
                                 alone : BOOLEAN]]
  /\ pendingTimeouts \subseteq Emissions
  /\ pendingDelayedByKey \in [EventKeys -> Emissions \union {NoKey}]
  /\ handlers \in 0 .. 2

SharedKeysAreKnown ==
  \A d, e \in Scheduled :
    d # e /\ emission[d].key = emission[e].key /\ emission[d].key # NoKey => ~emission[d].alone

TestInv == TestTypeOK /\ PendingIsKnown /\ SharedKeysAreKnown

LEMMA InitTestInv == TestInit => TestInv
<1> SUFFICES ASSUME TestInit PROVE TestInv
  OBVIOUS
<1>1. TestTypeOK
  BY DEF TestInit, TestTypeOK, Unemitted, Stages
<1>2. Scheduled = {}
  BY DEF TestInit, Scheduled, Unemitted
<1> QED BY <1>1, <1>2 DEF TestInit, TestInv, PendingIsKnown, SharedKeysAreKnown

(* A new emission takes the name of its key, and both are known to share it. *)
LEMMA EmitDelayedInv ==
  ASSUME TestInv, NEW e \in Emissions, NEW k \in EventKeys \union {NoKey},
         NEW delay \in 0 .. MaxDelay, EmitDelayed(e, k, delay)
  PROVE  TestInv'
<1> PICK sharers : sharers = {x \in Scheduled : k # NoKey /\ emission[x].key = k}
  OBVIOUS
<1> PICK n \in Nat : n = delay + ProcessingDelay
  BY EmissionAssumption
<1> PICK b \in BOOLEAN : b = (sharers = {})
  OBVIOUS
<1>0. TestTypeOK /\ NoKey \notin EventKeys \union Emissions
  BY EmissionAssumption DEF TestInv
<1>1. /\ emission[e].stage = "none" /\ pendingTimeouts' = pendingTimeouts \union {e}
      /\ pendingDelayedByKey' = Named(k, e) /\ handlers' = handlers
      /\ emission' = [x \in Emissions |->
           IF x = e THEN [stage |-> "scheduled", key |-> k, left |-> n, alone |-> b]
           ELSE [emission[x] EXCEPT !.alone = @ /\ x \notin sharers]]
  BY DEF EmitDelayed
<1>2. \A x \in Emissions : emission[x] \in [stage : Stages, key : EventKeys \union {NoKey},
                                            left : Nat, alone : BOOLEAN]
  BY <1>0 DEF TestTypeOK
<1>3. /\ emission'[e] = [stage |-> "scheduled", key |-> k, left |-> n, alone |-> b]
      /\ \A x \in Emissions \ {e} :
           /\ emission'[x].stage = emission[x].stage /\ emission'[x].key = emission[x].key
           /\ emission'[x].left = emission[x].left
           /\ emission'[x].alone = (emission[x].alone /\ x \notin sharers)
           /\ emission'[x] \in [stage : Stages, key : EventKeys \union {NoKey},
                                left : Nat, alone : BOOLEAN]
  <2>1. emission'[e] = [stage |-> "scheduled", key |-> k, left |-> n, alone |-> b]
    BY <1>1
  <2>2. ASSUME NEW x \in Emissions \ {e}
        PROVE  /\ emission'[x].stage = emission[x].stage /\ emission'[x].key = emission[x].key
               /\ emission'[x].left = emission[x].left
               /\ emission'[x].alone = (emission[x].alone /\ x \notin sharers)
               /\ emission'[x] \in [stage : Stages, key : EventKeys \union {NoKey},
                                    left : Nat, alone : BOOLEAN]
    <3> PICK a \in BOOLEAN : a = (emission[x].alone /\ x \notin sharers)
      OBVIOUS
    <3>1. emission'[x] = [emission[x] EXCEPT !.alone = a]
      BY <1>1
    <3> QED BY <1>2, <3>1
  <2> QED BY <2>1, <2>2
<1>4. TestTypeOK'
  <2>1. emission' \in [Emissions -> [stage : Stages, key : EventKeys \union {NoKey}, left : Nat,
                                     alone : BOOLEAN]]
    <3>1. \A x \in Emissions : emission'[x] \in [stage : Stages, key : EventKeys \union {NoKey},
                                                 left : Nat, alone : BOOLEAN]
      <4> TAKE x \in Emissions
      <4>1. CASE x = e
        <5>1. [stage |-> "scheduled", key |-> k, left |-> n, alone |-> b]
                \in [stage : Stages, key : EventKeys \union {NoKey}, left : Nat, alone : BOOLEAN]
          BY DEF Stages
        <5> QED BY <1>3, <4>1, <5>1
      <4>2. CASE x # e
        BY <1>3, <4>2
      <4> QED BY <4>1, <4>2
    <3>2. emission' = [x \in Emissions |-> emission'[x]]
      BY <1>1
    <3> QED BY <3>1, <3>2
  <2>2. pendingDelayedByKey' \in [EventKeys -> Emissions \union {NoKey}]
    BY <1>0, <1>1 DEF Named, TestTypeOK
  <2> QED BY <1>0, <1>1, <2>1, <2>2 DEF TestTypeOK
<1>5. Scheduled' = Scheduled \union {e} /\ e \notin Scheduled
  BY <1>1, <1>3 DEF Scheduled
<1>6. \A l \in EventKeys :
        pendingDelayedByKey'[l] = IF l = k THEN e ELSE pendingDelayedByKey[l]
  BY <1>0, <1>1 DEF Named, TestTypeOK
<1>7. PendingIsKnown'
  <2>1. pendingTimeouts' = Scheduled'
    BY <1>1, <1>5 DEF TestInv, PendingIsKnown
  <2>2. ASSUME NEW l \in EventKeys, pendingDelayedByKey'[l] # NoKey
        PROVE  /\ pendingDelayedByKey'[l] \in Scheduled'
               /\ emission'[pendingDelayedByKey'[l]].key = l
    <3>1. CASE l = k
      BY <1>3, <1>5, <1>6, <3>1
    <3>2. CASE l # k
      <4> PICK d : d = pendingDelayedByKey[l]
        OBVIOUS
      <4>1. d \in Scheduled /\ emission[d].key = l /\ d \in Emissions \ {e}
        BY <1>5, <1>6, <2>2, <3>2 DEF TestInv, PendingIsKnown, Scheduled
      <4> QED BY <1>3, <1>5, <1>6, <3>2, <4>1
    <3> QED BY <3>1, <3>2
  <2>3. ASSUME NEW d \in Scheduled', emission'[d].key # NoKey, emission'[d].alone
        PROVE  pendingDelayedByKey'[emission'[d].key] = d
    <3>1. CASE d = e
      BY <1>3, <1>6, <2>3, <3>1
    <3>2. CASE d # e
      <4>1. d \in Scheduled /\ d \in Emissions \ {e}
        BY <1>5, <3>2 DEF Scheduled
      <4>2. /\ emission'[d].key = emission[d].key /\ emission[d].alone /\ d \notin sharers
            /\ emission[d].key \in EventKeys
        BY <1>2, <1>3, <2>3, <4>1
      <4>3. emission[d].key # k
        BY <1>0, <2>3, <4>1, <4>2
      <4>4. pendingDelayedByKey[emission[d].key] = d
        BY <2>3, <4>1, <4>2 DEF TestInv, PendingIsKnown
      <4> QED BY <1>6, <4>2, <4>3, <4>4
    <3> QED BY <3>1, <3>2
  <2> QED BY <2>1, <2>2, <2>3 DEF PendingIsKnown
<1>8. SharedKeysAreKnown'
  <2> SUFFICES ASSUME NEW c \in Scheduled', NEW d \in Scheduled', c # d,
                      emission'[c].key = emission'[d].key, emission'[c].key # NoKey
               PROVE  ~emission'[c].alone
    BY DEF SharedKeysAreKnown
  <2>1. CASE c = e
    <3>1. d \in Scheduled /\ d \in Emissions \ {e}
      BY <1>5, <2>1 DEF Scheduled
    <3>2. d \in sharers
      BY <1>3, <2>1, <3>1
    <3>3. sharers # {} /\ emission'[e].alone = b
      BY <1>3, <3>2
    <3> QED BY <2>1, <3>3
  <2>2. CASE d = e
    <3>1. c \in Scheduled /\ c \in Emissions \ {e}
      BY <1>5, <2>2 DEF Scheduled
    <3>2. c \in sharers
      BY <1>3, <2>2, <3>1
    <3> QED BY <1>3, <3>1, <3>2
  <2>3. CASE c # e /\ d # e
    <3>1. c \in Scheduled /\ d \in Scheduled /\ c \in Emissions \ {e} /\ d \in Emissions \ {e}
      BY <1>5, <2>3 DEF Scheduled
    <3> QED BY <1>3, <3>1 DEF TestInv, SharedKeysAreKnown
  <2> QED BY <2>1, <2>2, <2>3
<1> QED BY <1>4, <1>7, <1>8 DEF TestInv

(* What is not scheduled any more is not among the timers, nor the name of a key. *)
LEMMA EndsInv ==
  ASSUME TestInv, NEW gone \in SUBSET Scheduled,
         NEW stage \in [gone -> Stages \ {"scheduled"}],
         emission' = [x \in Emissions |-> IF x \in gone THEN [emission[x] EXCEPT !.stage = stage[x]]
                                          ELSE emission[x]],
         pendingTimeouts' = pendingTimeouts \ gone,
         pendingDelayedByKey' \in [EventKeys -> Emissions \union {NoKey}],
         \A k \in EventKeys : pendingDelayedByKey'[k] # NoKey =>
           pendingDelayedByKey'[k] = pendingDelayedByKey[k] /\ pendingDelayedByKey[k] \notin gone,
         \A e \in Scheduled \ gone : emission[e].key # NoKey /\ emission[e].alone =>
           pendingDelayedByKey'[emission[e].key] = pendingDelayedByKey[emission[e].key],
         handlers' = handlers
  PROVE  TestInv'
<1>0. TestTypeOK
  BY DEF TestInv
<1>1. \A x \in Emissions : emission[x] \in [stage : Stages, key : EventKeys \union {NoKey},
                                            left : Nat, alone : BOOLEAN]
  BY <1>0 DEF TestTypeOK
<1>2. \A x \in Emissions :
        /\ emission'[x] \in [stage : Stages, key : EventKeys \union {NoKey}, left : Nat,
                             alone : BOOLEAN]
        /\ emission'[x].key = emission[x].key /\ emission'[x].alone = emission[x].alone
        /\ emission'[x].stage = IF x \in gone THEN stage[x] ELSE emission[x].stage
  BY <1>1
<1>3. TestTypeOK'
  <2>1. emission' \in [Emissions -> [stage : Stages, key : EventKeys \union {NoKey}, left : Nat,
                                     alone : BOOLEAN]]
    <3>1. emission' = [x \in Emissions |-> emission'[x]]
      OBVIOUS
    <3> QED BY <1>2, <3>1
  <2> QED BY <1>0, <2>1 DEF TestTypeOK
<1>4. Scheduled' = Scheduled \ gone
  BY <1>2 DEF Scheduled
<1>5. \A x \in Scheduled' : x \in Scheduled \ gone /\ x \in Emissions
  BY <1>4 DEF Scheduled
<1>6. PendingIsKnown'
  <2>1. pendingTimeouts' = Scheduled'
    BY <1>4 DEF TestInv, PendingIsKnown
  <2>2. ASSUME NEW k \in EventKeys, pendingDelayedByKey'[k] # NoKey
        PROVE  /\ pendingDelayedByKey'[k] \in Scheduled'
               /\ emission'[pendingDelayedByKey'[k]].key = k
    <3> PICK d : d = pendingDelayedByKey[k]
      OBVIOUS
    <3>1. d # NoKey /\ pendingDelayedByKey'[k] = d /\ d \notin gone
      BY <2>2
    <3>2. d \in Scheduled /\ emission[d].key = k /\ d \in Emissions
      BY <3>1 DEF TestInv, PendingIsKnown, Scheduled
    <3> QED BY <1>2, <1>4, <3>1, <3>2
  <2>3. ASSUME NEW d \in Scheduled', emission'[d].key # NoKey, emission'[d].alone
        PROVE  pendingDelayedByKey'[emission'[d].key] = d
    <3>1. d \in Scheduled \ gone /\ emission'[d].key = emission[d].key /\ emission[d].alone
      BY <1>2, <1>5, <2>3
    <3>2. pendingDelayedByKey[emission[d].key] = d
      BY <2>3, <3>1 DEF TestInv, PendingIsKnown
    <3> QED BY <2>3, <3>1, <3>2
  <2> QED BY <2>1, <2>2, <2>3 DEF PendingIsKnown
<1>7. SharedKeysAreKnown'
  BY <1>2, <1>5 DEF TestInv, SharedKeysAreKnown
<1> QED BY <1>3, <1>6, <1>7 DEF TestInv

LEMMA FireInv ==
  ASSUME TestInv, NEW e \in Emissions, Fire(e)
  PROVE  TestInv'
<1>0. TestTypeOK /\ NoKey \notin EventKeys \union Emissions
  BY EmissionAssumption DEF TestInv
<1>1. e \in Scheduled /\ Delivered \in {"resolved", "handling"}
  BY DEF Fire, Delivered
<1> PICK outcome \in {"resolved", "handling"} : outcome = Delivered
  BY <1>1
<1> PICK k \in EventKeys \union {NoKey} : k = emission[e].key
  BY <1>0 DEF TestTypeOK
<1> PICK gone \in SUBSET Scheduled : gone = {e}
  BY <1>1
<1> PICK stage \in [gone -> Stages \ {"scheduled"}] : stage = [x \in gone |-> outcome]
  BY DEF Stages
<1>2. emission' = [x \in Emissions |-> IF x \in gone THEN [emission[x] EXCEPT !.stage = stage[x]]
                                       ELSE emission[x]]
  BY <1>0 DEF Fire, TestTypeOK
<1>3. /\ pendingDelayedByKey' \in [EventKeys -> Emissions \union {NoKey}]
      /\ \A l \in EventKeys :
           pendingDelayedByKey'[l] = IF l = k THEN NoKey ELSE pendingDelayedByKey[l]
  BY <1>0 DEF Fire, Named, TestTypeOK
<1>4. ASSUME NEW l \in EventKeys, pendingDelayedByKey'[l] # NoKey
      PROVE  pendingDelayedByKey'[l] = pendingDelayedByKey[l] /\ pendingDelayedByKey[l] \notin gone
  <2>1. l # k /\ pendingDelayedByKey'[l] = pendingDelayedByKey[l]
    BY <1>3, <1>4
  <2>2. pendingDelayedByKey[l] = e => emission[e].key = l
    BY <1>0, <1>4, <2>1 DEF TestInv, PendingIsKnown
  <2> QED BY <2>1, <2>2
<1>5. ASSUME NEW d \in Scheduled \ gone, emission[d].key # NoKey, emission[d].alone
      PROVE  pendingDelayedByKey'[emission[d].key] = pendingDelayedByKey[emission[d].key]
  <2>1. d \in Emissions /\ emission[d].key \in EventKeys
    BY <1>0, <1>5 DEF Scheduled, TestTypeOK
  <2>2. emission[d].key # k
    BY <1>1, <1>5 DEF TestInv, SharedKeysAreKnown
  <2> QED BY <1>3, <2>1, <2>2
<1>6. pendingTimeouts' = pendingTimeouts \ gone /\ handlers' = handlers
  BY DEF Fire
<1>7. \A l \in EventKeys : pendingDelayedByKey'[l] # NoKey =>
        pendingDelayedByKey'[l] = pendingDelayedByKey[l] /\ pendingDelayedByKey[l] \notin gone
  BY <1>4
<1>8. \A d \in Scheduled \ gone : emission[d].key # NoKey /\ emission[d].alone =>
        pendingDelayedByKey'[emission[d].key] = pendingDelayedByKey[emission[d].key]
  BY <1>5
<1> QED BY <1>2, <1>3, <1>6, <1>7, <1>8, EndsInv, SMTT(30)

LEMMA CancelKeyInv ==
  ASSUME TestInv, NEW k \in EventKeys, CancelKey(k)
  PROVE  TestInv'
<1>0. TestTypeOK /\ NoKey \notin EventKeys \union Emissions
  BY EmissionAssumption DEF TestInv
<1> PICK e \in Scheduled : e = pendingDelayedByKey[k] /\ emission[e].key = k
  BY DEF TestInv, PendingIsKnown, CancelKey
<1> PICK gone \in SUBSET Scheduled : gone = {e}
  OBVIOUS
<1> PICK stage \in [gone -> Stages \ {"scheduled"}] : stage = [x \in gone |-> "cleared"]
  BY DEF Stages
<1>2. emission' = [x \in Emissions |-> IF x \in gone THEN [emission[x] EXCEPT !.stage = stage[x]]
                                       ELSE emission[x]]
  BY DEF CancelKey, Cleared
<1>3. /\ pendingDelayedByKey' \in [EventKeys -> Emissions \union {NoKey}]
      /\ \A l \in EventKeys :
           pendingDelayedByKey'[l] = IF l = k THEN NoKey ELSE pendingDelayedByKey[l]
  BY <1>0 DEF CancelKey, Named, TestTypeOK
<1>4. ASSUME NEW l \in EventKeys, pendingDelayedByKey'[l] # NoKey
      PROVE  pendingDelayedByKey'[l] = pendingDelayedByKey[l] /\ pendingDelayedByKey[l] \notin gone
  <2>1. l # k /\ pendingDelayedByKey'[l] = pendingDelayedByKey[l]
    BY <1>3, <1>4
  <2>2. pendingDelayedByKey[l] = e => emission[e].key = l
    BY <1>0, <1>4, <2>1 DEF TestInv, PendingIsKnown
  <2> QED BY <2>1, <2>2
<1>5. ASSUME NEW d \in Scheduled \ gone, emission[d].key # NoKey, emission[d].alone
      PROVE  pendingDelayedByKey'[emission[d].key] = pendingDelayedByKey[emission[d].key]
  <2>1. d \in Emissions /\ emission[d].key \in EventKeys
    BY <1>0, <1>5 DEF Scheduled, TestTypeOK
  <2>2. emission[d].key # k
    BY <1>5 DEF TestInv, SharedKeysAreKnown
  <2> QED BY <1>3, <2>1, <2>2
<1>6. pendingTimeouts' = pendingTimeouts \ gone /\ handlers' = handlers
  BY DEF CancelKey
<1>7. \A l \in EventKeys : pendingDelayedByKey'[l] # NoKey =>
        pendingDelayedByKey'[l] = pendingDelayedByKey[l] /\ pendingDelayedByKey[l] \notin gone
  BY <1>4
<1>8. \A d \in Scheduled \ gone : emission[d].key # NoKey /\ emission[d].alone =>
        pendingDelayedByKey'[emission[d].key] = pendingDelayedByKey[emission[d].key]
  BY <1>5
<1>9. pendingDelayedByKey' \in [EventKeys -> Emissions \union {NoKey}]
  BY <1>3
<1>10. gone \in SUBSET Scheduled /\ stage \in [gone -> Stages \ {"scheduled"}]
  OBVIOUS
<1> QED BY ONLY TestInv, <1>2, <1>6, <1>7, <1>8, <1>9, <1>10, EndsInv

LEMMA StopTestsInv ==
  ASSUME TestInv, StopTests
  PROVE  TestInv'
<1>0. TestTypeOK /\ NoKey \notin EventKeys \union Emissions
  BY EmissionAssumption DEF TestInv
<1> PICK gone \in SUBSET Scheduled : gone = Scheduled /\ gone = pendingTimeouts
  BY DEF TestInv, PendingIsKnown
<1> PICK stage \in [gone -> Stages \ {"scheduled"}] : stage = [x \in gone |-> "cleared"]
  BY DEF Stages
<1>1. emission' = [x \in Emissions |-> IF x \in gone THEN [emission[x] EXCEPT !.stage = stage[x]]
                                       ELSE emission[x]]
  BY DEF StopTests, Cleared
<1>2. /\ pendingDelayedByKey' \in [EventKeys -> Emissions \union {NoKey}]
      /\ \A l \in EventKeys : pendingDelayedByKey'[l] = NoKey
  BY DEF StopTests
<1>3. pendingTimeouts' = pendingTimeouts \ gone /\ handlers' = handlers
  BY DEF StopTests
<1> QED BY <1>1, <1>2, <1>3, EndsInv

(* Steps that leave the timers and the keys as they are. *)
LEMMA KeepsInv ==
  ASSUME TestInv, TestTypeOK', UNCHANGED <<pendingTimeouts, pendingDelayedByKey>>,
         \A x \in Emissions :
           /\ emission'[x].key = emission[x].key /\ emission'[x].alone = emission[x].alone
           /\ emission'[x].stage = "scheduled" <=> emission[x].stage = "scheduled"
  PROVE  TestInv'
<1>1. Scheduled' = Scheduled /\ \A x \in Scheduled : x \in Emissions
  BY DEF Scheduled
<1>2. PendingIsKnown'
  <2>1. pendingTimeouts' = Scheduled'
    BY <1>1 DEF TestInv, PendingIsKnown
  <2>2. \A k \in EventKeys : pendingDelayedByKey[k] # NoKey =>
          pendingDelayedByKey[k] \in Scheduled /\ emission'[pendingDelayedByKey[k]].key = k
    BY <1>1 DEF TestInv, PendingIsKnown
  <2>3. \A e \in Scheduled : emission'[e].key # NoKey /\ emission'[e].alone =>
          pendingDelayedByKey[emission'[e].key] = e
    BY <1>1 DEF TestInv, PendingIsKnown
  <2> QED BY <1>1, <2>1, <2>2, <2>3 DEF PendingIsKnown
<1>3. SharedKeysAreKnown'
  BY <1>1 DEF TestInv, SharedKeysAreKnown
<1> QED BY <1>2, <1>3 DEF TestInv

LEMMA HandlerSettlesInv ==
  ASSUME TestInv, NEW e \in Emissions, HandlerSettles(e)
  PROVE  TestInv'
<1>0. TestTypeOK
  BY DEF TestInv
<1> PICK outcome \in {"resolved", "rejected"} :
      emission' = [emission EXCEPT ![e].stage = outcome]
  BY DEF HandlerSettles
<1>1. emission[e].stage = "handling"
      /\ UNCHANGED <<pendingTimeouts, pendingDelayedByKey, handlers>>
  BY DEF HandlerSettles
<1>2. outcome \in Stages
  BY DEF Stages
<1>3. TestTypeOK'
  BY <1>0, <1>1, <1>2 DEF TestTypeOK
<1>4. \A x \in Emissions :
        /\ emission'[x].key = emission[x].key /\ emission'[x].alone = emission[x].alone
        /\ emission'[x].stage = "scheduled" <=> emission[x].stage = "scheduled"
  BY <1>0, <1>1 DEF TestTypeOK
<1> QED BY <1>1, <1>3, <1>4, KeepsInv

LEMMA TimersTickInv ==
  ASSUME TestInv, TimersTick
  PROVE  TestInv'
<1>0. TestTypeOK
  BY DEF TestInv
<1>1. \A x \in Emissions : emission[x] \in [stage : Stages, key : EventKeys \union {NoKey},
                                            left : Nat, alone : BOOLEAN]
  BY <1>0 DEF TestTypeOK
<1>2. \A x \in Emissions :
        /\ emission'[x] \in [stage : Stages, key : EventKeys \union {NoKey}, left : Nat,
                             alone : BOOLEAN]
        /\ emission'[x].key = emission[x].key /\ emission'[x].alone = emission[x].alone
        /\ emission'[x].stage = emission[x].stage
  <2> TAKE x \in Emissions
  <2>1. CASE emission[x].left > 0
    <3> PICK n \in Nat : n = emission[x].left - 1
      BY <1>1, <2>1
    <3>1. emission'[x] = [emission[x] EXCEPT !.left = n]
      BY <2>1 DEF TimersTick
    <3> QED BY <1>1, <3>1
  <2>2. CASE ~(emission[x].left > 0)
    <3>1. emission'[x] = emission[x]
      BY <2>2 DEF TimersTick
    <3> QED BY <1>1, <3>1
  <2> QED BY <2>1, <2>2
<1>3. UNCHANGED <<pendingTimeouts, pendingDelayedByKey, handlers>>
  BY DEF TimersTick
<1>4. TestTypeOK'
  <2>1. emission' = [x \in Emissions |-> emission'[x]]
    BY DEF TimersTick
  <2>2. emission' \in [Emissions -> [stage : Stages, key : EventKeys \union {NoKey}, left : Nat,
                                     alone : BOOLEAN]]
    BY <1>2, <2>1
  <2> QED BY <1>0, <1>3, <2>2 DEF TestTypeOK
<1> QED BY <1>2, <1>3, <1>4, KeepsInv

LEMMA NextTestInv == TestInv /\ [TestNext]_testVars => TestInv'
<1> SUFFICES ASSUME TestInv, [TestNext]_testVars PROVE TestInv'
  OBVIOUS
<1>1. CASE SubscribeHandler
  <2>1. UNCHANGED <<emission, pendingTimeouts, pendingDelayedByKey>> /\ handlers' \in 0 .. 2
    BY <1>1 DEF SubscribeHandler, TestInv, TestTypeOK
  <2> QED BY <2>1 DEF TestInv, TestTypeOK, PendingIsKnown, SharedKeysAreKnown, Scheduled
<1>2. CASE UNCHANGED testVars
  BY <1>2 DEF testVars, TestInv, TestTypeOK, PendingIsKnown, SharedKeysAreKnown, Scheduled
<1> QED BY <1>1, <1>2, EmitDelayedInv, FireInv, HandlerSettlesInv, CancelKeyInv, StopTestsInv,
           TimersTickInv DEF TestNext

(* The inductive invariant, and with it the types of the test provider, hold throughout. *)
THEOREM TestInvHolds == TestSpec => []TestInv
<1> QED BY InitTestInv, NextTestInv, PTL DEF TestSpec

(* cancel() and stop() of the test provider reach exactly what is pending, but for an    *)
(* emission whose name the timer of an earlier one of its key has taken. (emit, cancel,  *)
(* stop, scheduleDelivery)                                                               *)
THEOREM TestsKnowPending == TestSpec => []PendingIsKnown
<1>1. TestInv => PendingIsKnown
  BY DEF TestInv
<1> QED BY <1>1, TestInvHolds, PTL

-----------------------------------------------------------------------------
(* The log. *)

\* A set of numbers has a least one: what the inductions of this module rest on.
LEMMA LeastNumber ==
  ASSUME NEW T \in SUBSET Nat, T # {}
  PROVE  \E n \in T : \A m \in T : n <= m
<1>1. PICK n \in T : \A m \in T : ~ (<<m, n>> \in OpToRel(<, Nat))
  BY WFMin, NatLessThanWellFounded, Zenon
<1>2. \A m \in T : ~ (m < n)
  BY <1>1, Zenon DEF OpToRel
<1> QED
  BY <1>2

\* A bounded set of numbers has a greatest one, and Max() is it.
LEMMA MaxBounded ==
  ASSUME NEW b \in Nat, NEW T \in SUBSET (0 .. b), T # {}
  PROVE  Max(T) \in T /\ \A y \in T : y <= Max(T)
<1> DEFINE D == {b - y : y \in T}
<1>0. \A y \in T : y \in 0 .. b /\ b - y \in Nat
  OBVIOUS
<1>1. D \in SUBSET Nat /\ D # {}
  BY <1>0
<1>2. PICK n \in D : \A m \in D : n <= m
  BY ONLY <1>1, LeastNumber
<1>3. PICK x \in T : n = b - x
  BY <1>2
<1>4. \A y \in T : x >= y
  BY <1>2, <1>3
<1> QED
  BY <1>3, <1>4 DEF Max

LEMMA BoundedIsFinite ==
  ASSUME NEW b \in Nat, NEW T \in SUBSET (0 .. b)
  PROVE  Cardinality(T) \in Nat
<1>1. IsFiniteSet(0 .. b)
  BY FS_Interval
<1>2. IsFiniteSet(T)
  BY <1>1, FS_Subset
<1> QED
  BY <1>2, FS_CardinalityType

-----------------------------------------------------------------------------
(* The file transport. *)

FlightType == [last : Nat, by : {"task", "shutdown"}, at : -1 .. Keep + 1]

FileType ==
  [size : Nat, writeBuffer : SUBSET Nat, scheduled : BOOLEAN, tasks : Nat,
   flights : SUBSET FlightType, failures : Nat, written : Nat, gone : Nat,
   botched : BOOLEAN, tripped : BOOLEAN]

LoggerType ==
  [initialized : BOOLEAN, transports : {"console", "file"}, pending : SUBSET Nat,
   enabled : BOOLEAN, timer : BOOLEAN, buffer : SUBSET Nat, dropped : Nat, logged : Nat]

DiskType == UNION {[D -> Nat] : D \in SUBSET (0 .. Keep)}

StateType == [l : LoggerType, f : FileType, d : DiskType]

\* The lines between two rotations that went well.
PerFile == MaxSize - 1

\* A line in file i of the disk, or on its way there, is older than the PerFile lines of every
\* file before it and than those written since the last rotation.
OldEnough(s, line, i) == i > 0 => line + (i - 1) * PerFile + s.f.size <= s.f.written

FileOK(s) ==
  /\ s \in StateType
  /\ \A n \in s.f.writeBuffer : n <= s.f.written
  /\ \A f \in s.f.flights : f.last <= s.f.written
  /\ \A i \in DOMAIN s.d : s.d[i] <= s.f.written
  /\ s.f.gone <= s.f.written
  /\ ~ s.f.botched =>
       /\ s.f.gone = 0 \/ s.f.gone + Keep * PerFile < s.f.written
       /\ \A i \in DOMAIN s.d : OldEnough(s, s.d[i], i)
       /\ \A f \in s.f.flights : f.at <= Keep => OldEnough(s, f.last, f.at)

LEMMA Numbers ==
  /\ Keep \in Nat \ {0} /\ PerFile \in Nat \ {0} /\ MaxSize = PerFile + 1
  /\ Deleted = Keep + 1 /\ Unopened = -1
  /\ \A i \in Nat : i * PerFile \in Nat /\ (i + 1) * PerFile = i * PerFile + PerFile
BY LoggingAssumption DEF PerFile, Deleted, Unopened

\* The disk d after the files in S moved up by one, from number up on.
MovedUp(d, S, up) ==
  [i \in {IF j >= up THEN j + 1 ELSE j : j \in S} |->
     d[CHOOSE j \in S : (IF j >= up THEN j + 1 ELSE j) = i]]

LEMMA DiskMoves ==
  ASSUME NEW d \in DiskType, NEW S, NEW up \in 0 .. Keep + 1,
         \/ S = DOMAIN d /\ up = Keep + 1
         \/ S = DOMAIN d \ {Keep} /\ up <= Keep,
         NEW e, e = MovedUp(d, S, up)
  PROVE  /\ e \in DiskType
         /\ \A i \in DOMAIN e : \E j \in DOMAIN d :
              /\ e[i] = d[j]
              /\ up = 0 => i = j + 1
              /\ up = Keep + 1 => i = j
<1> DEFINE To(j) == IF j >= up THEN j + 1 ELSE j
<1>1. Keep \in Nat /\ DOMAIN d \in SUBSET (0 .. Keep) /\ d \in [DOMAIN d -> Nat]
  BY Numbers DEF DiskType
<1>2. S \in SUBSET DOMAIN d /\ \A j \in S : To(j) \in 0 .. Keep
  BY <1>1
<1>0. e = [i \in {To(j) : j \in S} |-> d[CHOOSE j \in S : To(j) = i]]
  BY DEF MovedUp
<1>3. DOMAIN e = {To(j) : j \in S} /\ DOMAIN e \in SUBSET (0 .. Keep)
  BY <1>0, <1>2
<1>4. \A i \in DOMAIN e : \E j \in S : To(j) = i /\ e[i] = d[j]
  <2> TAKE i \in DOMAIN e
  <2>1. \E j \in S : To(j) = i
    BY <1>3
  <2>2. PICK j \in S : j = CHOOSE k \in S : To(k) = i
    BY <2>1
  <2>3. To(j) = i
    BY <2>1, <2>2
  <2>4. e[i] = d[j]
    BY <1>0, <2>2, <1>3
  <2> QED
    BY <2>3, <2>4
<1>5. e \in [DOMAIN e -> Nat]
  <2>1. \A i \in DOMAIN e : e[i] \in Nat
    BY <1>1, <1>2, <1>4
  <2>2. e = [i \in DOMAIN e |-> e[i]]
    BY <1>0
  <2> QED
    BY <2>1, <2>2
<1>6. e \in DiskType
  BY <1>3, <1>5 DEF DiskType
<1>7. \A i \in DOMAIN e : \E j \in DOMAIN d :
              /\ e[i] = d[j]
              /\ up = 0 => i = j + 1
              /\ up = Keep + 1 => i = j
  <2> TAKE i \in DOMAIN e
  <2>1. PICK j \in S : To(j) = i /\ e[i] = d[j]
    BY <1>4
  <2>2. j \in DOMAIN d /\ j \in 0 .. Keep
    BY <1>1, <1>2
  <2>3. up = 0 => i = j + 1
    BY <2>1, <2>2
  <2>4. up = Keep + 1 => i = j
    BY <2>1, <2>2, <1>1
  <2> QED
    BY <2>1, <2>2, <2>3, <2>4
<1> QED
  BY <1>6, <1>7

\* r is what RotateFiles() may leave of s: what the lines and files before the write are.
Rotated(s, r) ==
  /\ r \in StateType /\ r.l = s.l
  /\ r.f.written = s.f.written /\ r.f.writeBuffer = s.f.writeBuffer
  /\ \A f \in r.f.flights : f.last <= r.f.written
  /\ \A i \in DOMAIN r.d : r.d[i] <= r.f.written
  /\ r.f.gone <= r.f.written
  /\ ~ r.f.botched =>
       /\ r.f.gone = 0 \/ r.f.gone + Keep * PerFile <= r.f.written
       /\ \A i \in DOMAIN r.d : OldEnough(r, r.d[i], i)
       /\ \A f \in r.f.flights : f.at <= Keep => OldEnough(r, f.last, f.at)

LEMMA RotateFilesKeeps ==
  ASSUME NEW s, FileOK(s), s.f.size >= PerFile, NEW how \in 0 .. Keep + 1,
         NEW r, r = RotateFiles(s, how)
  PROVE  Rotated(s, r)
<1> DEFINE survivors == IF how = Deleted THEN DOMAIN s.d ELSE DOMAIN s.d \ {Keep}
           To(i) == IF i >= how THEN i + 1 ELSE i
           Follows(at) == IF at \in survivors THEN To(at)
                          ELSE IF at = Keep THEN Deleted ELSE at
           lost == IF Keep \in DOMAIN s.d \ survivors
                   THEN {s.d[Keep]} \union {f.last : f \in {g \in s.f.flights : g.at = Keep}}
                   ELSE {}
           disk1 == [i \in {To(j) : j \in survivors} |->
                       s.d[CHOOSE j \in survivors : To(j) = i]]
           flights1 == {[f EXCEPT !.at = Follows(f.at)] : f \in s.f.flights}
           size1 == IF how = 0 THEN 0 ELSE s.f.size
           gone1 == Max({s.f.gone} \union lost)
           botched1 == s.f.botched \/ how \in 1 .. Keep
<1>1. /\ s \in StateType /\ s.f \in FileType /\ s.d \in DiskType /\ s.l \in LoggerType
      /\ s.f.size \in Nat /\ s.f.written \in Nat /\ s.f.gone \in Nat /\ s.f.botched \in BOOLEAN
      /\ s.f.flights \in SUBSET FlightType
      /\ s.d \in [DOMAIN s.d -> Nat] /\ DOMAIN s.d \in SUBSET (0 .. Keep)
  BY DEF FileOK, StateType, FileType, DiskType
<1>2. /\ Keep \in Nat \ {0} /\ PerFile \in Nat \ {0} /\ Deleted = Keep + 1
  BY Numbers
<1>3. /\ disk1 \in DiskType
      /\ \A i \in DOMAIN disk1 : \E j \in DOMAIN s.d :
           /\ disk1[i] = s.d[j]
           /\ how = 0 => i = j + 1
           /\ how = Keep + 1 => i = j
  <2>1. \/ survivors = DOMAIN s.d /\ how = Keep + 1
        \/ survivors = DOMAIN s.d \ {Keep} /\ how <= Keep
    BY <1>2
  <2>2. disk1 = MovedUp(s.d, survivors, how)
    BY DEF MovedUp
  <2> HIDE DEF survivors, disk1
  <2> QED
    BY <1>1, <2>1, <2>2, DiskMoves
<1>4. \A at \in -1 .. Keep + 1 : Follows(at) \in -1 .. Keep + 1
  BY <1>1, <1>2
<1>5. flights1 \in SUBSET FlightType
      /\ \A g \in flights1 : \E f \in s.f.flights :
           g.last = f.last /\ g.at = Follows(f.at)
  <2>1. \A f \in FlightType : /\ [f EXCEPT !.at = Follows(f.at)] \in FlightType
                              /\ [f EXCEPT !.at = Follows(f.at)].last = f.last
                              /\ [f EXCEPT !.at = Follows(f.at)].at = Follows(f.at)
    <3> HIDE DEF Follows
    <3> QED
      BY <1>4 DEF FlightType
  <2> HIDE DEF Follows
  <2> QED
    BY <1>1, <2>1
<1>6. lost \in SUBSET (0 .. s.f.written)
  <2>1. \A f \in s.f.flights : f.last \in 0 .. s.f.written
    BY <1>1 DEF FileOK, FlightType
  <2>2. \A i \in DOMAIN s.d : s.d[i] \in 0 .. s.f.written
    BY <1>1 DEF FileOK
  <2> QED
    BY <2>1, <2>2
<1>7. gone1 \in {s.f.gone} \union lost /\ gone1 \in 0 .. s.f.written
  <2>1. {s.f.gone} \union lost \in SUBSET (0 .. s.f.written)
    BY <1>1, <1>6 DEF FileOK
  <2> HIDE DEF lost
  <2>2. Max({s.f.gone} \union lost) \in {s.f.gone} \union lost
    BY <1>1, <2>1, MaxBounded
  <2> QED
    BY <2>1, <2>2
<1>8. r = [s EXCEPT !.d = disk1, !.f.flights = flights1, !.f.size = size1,
                    !.f.gone = gone1, !.f.botched = botched1]
  BY DEF RotateFiles
<1>9. /\ r.l = s.l /\ r.d = disk1
      /\ r.f = [s.f EXCEPT !.flights = flights1, !.size = size1, !.gone = gone1,
                           !.botched = botched1]
      /\ r = [l |-> r.l, f |-> r.f, d |-> r.d]
  <2> HIDE DEF disk1, flights1, size1, gone1, botched1
  <2> QED
    BY <1>1, <1>8 DEF StateType
<1>10. size1 \in Nat /\ botched1 \in BOOLEAN /\ gone1 \in Nat
  BY <1>1, <1>7
<1>11. /\ r.f \in FileType /\ r.f.written = s.f.written /\ r.f.writeBuffer = s.f.writeBuffer
       /\ r.f.flights = flights1 /\ r.f.size = size1 /\ r.f.gone = gone1
       /\ r.f.botched = botched1
  <2> HIDE DEF disk1, flights1, size1, gone1, botched1
  <2> QED
    BY <1>1, <1>5, <1>9, <1>10 DEF FileType
<1>12. r \in StateType
  <2> HIDE DEF disk1
  <2> QED
    BY <1>1, <1>3, <1>9, <1>11 DEF StateType
<1>13. /\ \A f \in r.f.flights : f.last <= r.f.written
       /\ \A i \in DOMAIN r.d : r.d[i] <= r.f.written
       /\ r.f.gone <= r.f.written
  <2> HIDE DEF disk1, flights1, gone1, Follows
  <2>1. \A f \in r.f.flights : f.last <= r.f.written
    BY <1>5, <1>11 DEF FileOK
  <2>2. \A i \in DOMAIN r.d : r.d[i] <= r.f.written
    BY <1>3, <1>9, <1>11 DEF FileOK
  <2>3. r.f.gone <= r.f.written
    BY <1>7, <1>11, <1>1
  <2> QED
    BY <2>1, <2>2, <2>3
<1>14. ASSUME ~ r.f.botched
       PROVE  /\ r.f.gone = 0 \/ r.f.gone + Keep * PerFile <= r.f.written
              /\ \A i \in DOMAIN r.d : OldEnough(r, r.d[i], i)
              /\ \A f \in r.f.flights : f.at <= Keep => OldEnough(r, f.last, f.at)
  <2>1. ~ s.f.botched /\ (how = 0 \/ how = Keep + 1)
    <3>1. ~ botched1
      BY <1>11, <1>14
    <3>2. ~ s.f.botched /\ how \notin 1 .. Keep
      BY <3>1
    <3> QED
      BY <1>2, <3>2
  <2>2. /\ s.f.gone = 0 \/ s.f.gone + Keep * PerFile < s.f.written
        /\ \A i \in DOMAIN s.d : OldEnough(s, s.d[i], i)
        /\ \A f \in s.f.flights : f.at <= Keep => OldEnough(s, f.last, f.at)
    BY <2>1 DEF FileOK
  <2>3. \A line \in Nat : OldEnough(s, line, Keep) => line + Keep * PerFile <= s.f.written
    <3>1. PICK a \in Nat : a = (Keep - 1) * PerFile /\ Keep * PerFile = a + PerFile
      <4>1. Keep - 1 \in Nat /\ (Keep - 1) + 1 = Keep
        BY <1>2
      <4> QED
        BY <4>1, Numbers
    <3>2. \A line \in Nat : OldEnough(s, line, Keep) => line + a + s.f.size <= s.f.written
      BY <1>2, <3>1 DEF OldEnough
    <3> QED
      BY <1>1, <1>2, <3>1, <3>2
  <2>4. r.f.gone = 0 \/ r.f.gone + Keep * PerFile <= r.f.written
    <3>1. Keep * PerFile \in Nat
      BY <1>2, Numbers
    <3>2. CASE gone1 = s.f.gone
      BY <1>1, <1>11, <2>2, <3>1, <3>2
    <3>3. CASE gone1 \in lost
      <4>1. OldEnough(s, gone1, Keep)
        <5>1. Keep \in DOMAIN s.d
              /\ (gone1 = s.d[Keep] \/ \E f \in s.f.flights : f.at = Keep /\ gone1 = f.last)
          BY <3>3
        <5> HIDE DEF gone1
        <5> QED
          BY <1>2, <2>2, <5>1
      <4> HIDE DEF gone1
      <4> QED
        BY <1>10, <1>11, <2>3, <4>1
    <3> QED
      BY <1>7, <3>2, <3>3
  <2>5. \A line \in Nat, i \in 0 .. Keep :
          line <= s.f.written /\ OldEnough(s, line, i) => OldEnough(r, line, i)
    BY <1>1, <1>2, <1>11, Numbers DEF OldEnough
  <2>6. ASSUME how = 0, NEW line \in Nat, NEW i \in 0 .. Keep, line <= s.f.written, OldEnough(s, line, i)
        PROVE  OldEnough(r, line, i + 1)
    <3>1. r.f.size = 0 /\ (i + 1) - 1 = i
      BY <1>11, <2>6
    <3>2. CASE i = 0
      BY <1>1, <1>2, <1>11, <2>6, <3>1, <3>2, Numbers DEF OldEnough
    <3>3. CASE i > 0
      <4>1. PICK a \in Nat : a = (i - 1) * PerFile /\ i * PerFile = a + PerFile
        <5>1. i - 1 \in Nat /\ (i - 1) + 1 = i
          BY <3>3
        <5> QED
          BY <5>1, Numbers
      <4>2. line + a + s.f.size <= s.f.written
        BY <2>6, <3>3, <4>1 DEF OldEnough
      <4>3. line + i * PerFile + 0 <= s.f.written
        BY <1>1, <1>2, <2>6, <4>1, <4>2
      <4> QED
        BY <1>11, <3>1, <4>3 DEF OldEnough
    <3> QED
      BY <3>2, <3>3
  <2>7. \A i \in DOMAIN r.d : OldEnough(r, r.d[i], i)
    <3> TAKE i \in DOMAIN r.d
    <3> HIDE DEF disk1
    <3>1. PICK j \in DOMAIN s.d : /\ r.d[i] = s.d[j]
                                  /\ how = 0 => i = j + 1
                                  /\ how = Keep + 1 => i = j
      BY <1>3, <1>9
    <3>2. j \in 0 .. Keep /\ s.d[j] \in Nat /\ s.d[j] <= s.f.written /\ OldEnough(s, s.d[j], j)
      BY <1>1, <2>2 DEF FileOK
    <3> QED
      BY <2>1, <2>5, <2>6, <3>1, <3>2
  <2>8. ASSUME NEW g \in r.f.flights, g.at <= Keep PROVE OldEnough(r, g.last, g.at)
    <3>1. PICK f \in s.f.flights : g.last = f.last /\ g.at = Follows(f.at)
      <4> HIDE DEF flights1, Follows
      <4> QED
        BY <1>5, <1>11
    <3>2. f.last \in Nat /\ f.at \in -1 .. Keep + 1 /\ f.last <= s.f.written
      BY <1>1 DEF FileOK, FlightType
    <3>3. CASE f.at \in survivors /\ how = 0
      <4>1. f.at \in 0 .. Keep /\ g.at = f.at + 1
        BY <1>1, <3>1, <3>3
      <4> QED
        BY <2>2, <2>6, <3>1, <3>2, <3>3, <4>1
    <3>4. CASE ~ (f.at \in survivors /\ how = 0)
      <4>1. g.at = f.at
        BY <1>1, <1>2, <2>1, <2>8, <3>1, <3>2, <3>4
      <4>2. CASE f.at \in 0 .. Keep
        BY <2>2, <2>5, <3>1, <3>2, <4>1, <4>2
      <4>3. CASE f.at \notin 0 .. Keep
        BY <2>8, <3>2, <4>1, <4>3, <1>2 DEF OldEnough
      <4> QED
        BY <4>2, <4>3
    <3> QED
      BY <3>3, <3>4
  <2> QED
    BY <2>4, <2>7, <2>8
<1> HIDE DEF disk1, flights1, size1, gone1, botched1
<1> QED
  BY <1>9, <1>11, <1>12, <1>13, <1>14 DEF Rotated

\* t is what s may become when lines are written to the file transport.
Wrote(s, t) ==
  /\ FileOK(t) /\ t.l = s.l /\ t.f.written >= s.f.written
  /\ \A n \in t.f.writeBuffer : n \in s.f.writeBuffer \/ n > s.f.written

LEMMA WroteTwice ==
  ASSUME NEW s, NEW t, NEW u, FileOK(s), Wrote(s, t), Wrote(t, u)
  PROVE  Wrote(s, u)
<1>1. s.f.written \in Nat /\ t.f.written \in Nat /\ u.f.written \in Nat
      /\ \A n \in u.f.writeBuffer : n \in Nat
  BY DEF Wrote, FileOK, StateType, FileType
<1> QED
  BY <1>1 DEF Wrote

LEMMA FileWriteKeeps ==
  ASSUME NEW s, FileOK(s), NEW how \in 0 .. Keep + 1, NEW t, t = FileWrite(s, how)
  PROVE  Wrote(s, t)
<1> DEFINE r == CheckRotation(s, how)
<1>1. s \in StateType /\ s.f.size \in Nat /\ s.f.written \in Nat
  BY DEF FileOK, StateType, FileType
<1>2. Rotated(s, r)
  <2>1. CASE s.f.size + 1 >= MaxSize
    <3>1. r = RotateFiles(s, how) /\ s.f.size >= PerFile
      BY <1>1, <2>1, Numbers DEF CheckRotation
    <3> HIDE DEF r
    <3> QED
      BY <3>1, RotateFilesKeeps
  <2>2. CASE ~ (s.f.size + 1 >= MaxSize)
    <3>1. r = s
      BY <2>2 DEF CheckRotation
    <3>2. Keep * PerFile \in Nat /\ s.f.gone \in Nat
      BY Numbers DEF FileOK, StateType, FileType
    <3>3. ~ s.f.botched => s.f.gone = 0 \/ s.f.gone + Keep * PerFile <= s.f.written
      BY <1>1, <3>2 DEF FileOK
    <3>4. Rotated(s, s)
      BY <3>3 DEF FileOK, Rotated
    <3> QED
      BY <3>1, <3>4
  <2> QED
    BY <2>1, <2>2
<1> HIDE DEF r
<1>3. /\ r.l \in LoggerType /\ r.f \in FileType /\ r.d \in DiskType /\ r \in StateType
      /\ r.f.size \in Nat /\ r.f.written = s.f.written /\ r.f.writeBuffer = s.f.writeBuffer
      /\ r.f.writeBuffer \in SUBSET Nat /\ r.f.gone \in Nat /\ r.f.tasks \in Nat
      /\ r.l = s.l
  BY <1>2 DEF Rotated, StateType, FileType
<1>4. /\ t.l = r.l /\ t.d = r.d /\ t = [l |-> t.l, f |-> t.f, d |-> t.d]
      /\ \/ t.f = [r.f EXCEPT !.size = r.f.size + 1, !.written = r.f.written + 1,
                              !.writeBuffer = r.f.writeBuffer \union {s.f.written + 1}]
         \/ t.f = [r.f EXCEPT !.size = r.f.size + 1, !.written = r.f.written + 1,
                              !.writeBuffer = r.f.writeBuffer \union {s.f.written + 1},
                              !.scheduled = TRUE, !.tasks = r.f.tasks + 1]
  <2>1. PICK n : n = r.f.size + 1
    OBVIOUS
  <2>2. PICK w : w = r.f.written + 1
    OBVIOUS
  <2>3. PICK b : b = r.f.writeBuffer \union {s.f.written + 1}
    OBVIOUS
  <2>4. PICK k : k = r.f.tasks + 1
    OBVIOUS
  <2>5. PICK c : c = [r EXCEPT !.f.size = n, !.f.written = w, !.f.writeBuffer = b]
    OBVIOUS
  <2>6. t = ScheduleFlush(c)
    <3>1. t = ScheduleFlush([r EXCEPT !.f.size = r.f.size + 1, !.f.written = r.f.written + 1,
                                      !.f.writeBuffer = r.f.writeBuffer \union {s.f.written + 1}])
      BY DEF FileWrite, r
    <3> QED
      BY <2>1, <2>2, <2>3, <2>5, <3>1
  <2>7. /\ c.l = r.l /\ c.d = r.d /\ c = [l |-> c.l, f |-> c.f, d |-> c.d]
        /\ c.f = [r.f EXCEPT !.size = n, !.written = w, !.writeBuffer = b]
    BY <1>3, <2>5 DEF StateType
  <2>8. c.f.tasks = r.f.tasks
    BY <1>3, <2>7 DEF FileType
  <2>9. t = c \/ t = [c EXCEPT !.f.scheduled = TRUE, !.f.tasks = c.f.tasks + 1]
    BY <2>6 DEF ScheduleFlush
  <2>10. CASE t = c
    BY <2>1, <2>2, <2>3, <2>7, <2>10
  <2>11. CASE t = [c EXCEPT !.f.scheduled = TRUE, !.f.tasks = c.f.tasks + 1]
    <3>1. t = [c EXCEPT !.f.scheduled = TRUE, !.f.tasks = k]
      BY <2>4, <2>8, <2>11
    <3>2. t.l = c.l /\ t.d = c.d /\ t = [l |-> t.l, f |-> t.f, d |-> t.d]
          /\ t.f = [c.f EXCEPT !.scheduled = TRUE, !.tasks = k]
      BY <2>7, <3>1
    <3>3. t.f = [r.f EXCEPT !.size = n, !.written = w, !.writeBuffer = b,
                            !.scheduled = TRUE, !.tasks = k]
      BY <1>3, <2>7, <3>2 DEF FileType
    <3> QED
      BY <2>1, <2>2, <2>3, <2>4, <2>7, <3>2, <3>3
  <2> QED
    BY <2>9, <2>10, <2>11
<1>5. /\ t.f \in FileType /\ t.f.size = r.f.size + 1 /\ t.f.written = s.f.written + 1
      /\ t.f.writeBuffer = s.f.writeBuffer \union {s.f.written + 1}
      /\ t.f.flights = r.f.flights /\ t.f.gone = r.f.gone /\ t.f.botched = r.f.botched
  <2>1. PICK n \in Nat : n = r.f.size + 1
    BY <1>3
  <2>2. PICK w \in Nat : w = r.f.written + 1 /\ w = s.f.written + 1
    BY <1>1, <1>3
  <2>3. PICK k \in Nat : k = r.f.tasks + 1
    BY <1>3
  <2>4. PICK b \in SUBSET Nat : b = r.f.writeBuffer \union {s.f.written + 1}
    <3>1. s.f.written + 1 \in Nat /\ r.f.writeBuffer \in SUBSET Nat
      BY <1>1, <1>3
    <3> QED
      BY <3>1
  <2>5. \/ t.f = [r.f EXCEPT !.size = n, !.written = w, !.writeBuffer = b]
        \/ t.f = [r.f EXCEPT !.size = n, !.written = w, !.writeBuffer = b,
                             !.scheduled = TRUE, !.tasks = k]
    BY <1>4, <2>1, <2>2, <2>3, <2>4
  <2>6. /\ t.f \in FileType /\ t.f.size = n /\ t.f.written = w /\ t.f.writeBuffer = b
        /\ t.f.flights = r.f.flights /\ t.f.gone = r.f.gone /\ t.f.botched = r.f.botched
    BY <1>3, <2>5, ZenonT(30) DEF FileType
  <2> QED
    BY <1>3, <2>1, <2>2, <2>4, <2>6
<1>6. t \in StateType
  BY <1>3, <1>4, <1>5 DEF StateType
<1>7. \A line \in Nat, i \in -1 .. Keep + 1 : OldEnough(r, line, i) => OldEnough(t, line, i)
  <2> TAKE line \in Nat, i \in -1 .. Keep + 1
  <2>1. CASE i > 0
    <3>1. PICK a \in Nat : a = (i - 1) * PerFile
      <4>1. i - 1 \in Nat
        BY <2>1, Numbers
      <4> QED
        BY <4>1, Numbers
    <3> QED
      BY <1>1, <1>3, <1>5, <3>1 DEF OldEnough
  <2>2. CASE ~ (i > 0)
    BY <2>2 DEF OldEnough
  <2> QED
    BY <2>1, <2>2
<1>8. /\ \A n \in t.f.writeBuffer : n <= t.f.written
      /\ \A f \in t.f.flights : f.last <= t.f.written /\ f.last \in Nat /\ f.at \in -1 .. Keep + 1
      /\ \A i \in DOMAIN t.d : t.d[i] <= t.f.written /\ t.d[i] \in Nat /\ i \in 0 .. Keep
      /\ t.f.gone <= t.f.written
  <2>1. \A n \in t.f.writeBuffer : n <= t.f.written
    <3>1. \A n \in s.f.writeBuffer : n \in Nat /\ n <= s.f.written
      BY <1>3 DEF FileOK
    <3> QED
      BY <1>1, <1>5, <3>1
  <2>2. \A f \in t.f.flights : f.last <= t.f.written /\ f.last \in Nat /\ f.at \in -1 .. Keep + 1
    <3>1. \A f \in r.f.flights : f \in FlightType /\ f.last <= r.f.written
      BY <1>2, <1>3 DEF Rotated, FileType
    <3> QED
      BY <1>1, <1>3, <1>5, <3>1 DEF FlightType
  <2>3. \A i \in DOMAIN t.d : t.d[i] <= t.f.written /\ t.d[i] \in Nat /\ i \in 0 .. Keep
    <3>1. \A i \in DOMAIN r.d : r.d[i] \in Nat /\ r.d[i] <= r.f.written /\ i \in 0 .. Keep
      BY <1>2, <1>3 DEF Rotated, DiskType
    <3> QED
      BY <1>1, <1>3, <1>4, <1>5, <3>1
  <2>4. t.f.gone <= t.f.written
    BY <1>1, <1>2, <1>3, <1>5 DEF Rotated
  <2> QED
    BY <2>1, <2>2, <2>3, <2>4
<1>9. ~ t.f.botched =>
        /\ t.f.gone = 0 \/ t.f.gone + Keep * PerFile < t.f.written
        /\ \A i \in DOMAIN t.d : OldEnough(t, t.d[i], i)
        /\ \A f \in t.f.flights : f.at <= Keep => OldEnough(t, f.last, f.at)
  <2> SUFFICES ASSUME ~ t.f.botched
               PROVE  /\ t.f.gone = 0 \/ t.f.gone + Keep * PerFile < t.f.written
                      /\ \A i \in DOMAIN t.d : OldEnough(t, t.d[i], i)
                      /\ \A f \in t.f.flights : f.at <= Keep => OldEnough(t, f.last, f.at)
    OBVIOUS
  <2>1. /\ r.f.gone = 0 \/ r.f.gone + Keep * PerFile <= r.f.written
        /\ \A i \in DOMAIN r.d : OldEnough(r, r.d[i], i)
        /\ \A f \in r.f.flights : f.at <= Keep => OldEnough(r, f.last, f.at)
    BY <1>2, <1>5 DEF Rotated
  <2>2. t.f.gone = 0 \/ t.f.gone + Keep * PerFile < t.f.written
    <3>1. PICK a \in Nat : a = Keep * PerFile
      BY Numbers
    <3> QED
      BY <1>1, <1>3, <1>5, <2>1, <3>1
  <2>3. \A i \in DOMAIN t.d : OldEnough(t, t.d[i], i)
    <3> TAKE i \in DOMAIN t.d
    <3>1. t.d[i] \in Nat /\ i \in -1 .. Keep + 1
      BY <1>8, Numbers
    <3>2. OldEnough(r, t.d[i], i)
      BY <1>4, <2>1
    <3> QED
      BY <1>7, <3>1, <3>2
  <2>4. \A f \in t.f.flights : f.at <= Keep => OldEnough(t, f.last, f.at)
    BY <1>5, <1>7, <1>8, <2>1
  <2> QED
    BY <2>2, <2>3, <2>4
<1>10. FileOK(t)
  BY <1>6, <1>8, <1>9 DEF FileOK
<1> QED
  BY <1>1, <1>3, <1>4, <1>5, <1>10 DEF Wrote

\* Sent() folds FileWrite() over the numbers of the lines.
LEMMA SentKeeps ==
  ASSUME NEW s, FileOK(s), NEW how \in 0 .. Keep + 1, NEW transport, NEW count \in Nat,
         NEW t, t = Sent(s, transport, count, how)
  PROVE  Wrote(s, t)
<1>0. Wrote(s, s)
  BY DEF FileOK, StateType, FileType, Wrote
<1>1. CASE transport = "console"
  BY <1>0, <1>1 DEF Sent
<1>2. CASE transport # "console"
  <2> DEFINE All == 1 .. count
             Body(g, T) == IF T = {} THEN s ELSE FileWrite(g[T \ {Max(T)}], how)
             Solves(g, n) == g = [T \in SUBSET (1 .. n) |-> Body(g, T)]
  <2>1. \A n \in Nat : \A T \in SUBSET (1 .. n) :
          T # {} => /\ n - 1 \in Nat /\ n # 0
                    /\ T \ {Max(T)} \in SUBSET (1 .. n - 1)
                    /\ T \ {Max(T)} \in SUBSET (1 .. n)
    <3> TAKE n \in Nat
    <3> TAKE T \in SUBSET (1 .. n)
    <3> SUFFICES ASSUME T # {}
                 PROVE  /\ n - 1 \in Nat /\ n # 0
                        /\ T \ {Max(T)} \in SUBSET (1 .. n - 1)
                        /\ T \ {Max(T)} \in SUBSET (1 .. n)
      OBVIOUS
    <3>1. T \in SUBSET (0 .. n)
      OBVIOUS
    <3>2. PICK m \in T : m = Max(T) /\ \A y \in T : y <= m
      BY <3>1, MaxBounded
    <3>3. \A y \in T : y # m => y \in 1 .. n - 1
      BY <3>2
    <3>4. n - 1 \in Nat /\ n # 0
      BY <3>2
    <3> QED
      BY <3>2, <3>3, <3>4
  <2>2. \A n \in Nat : \E g : Solves(g, n)
    <3> DEFINE N == {n \in Nat : ~ \E g : Solves(g, n)}
    <3> SUFFICES ASSUME N # {} PROVE FALSE
      OBVIOUS
    <3>1. PICK n \in N : \A m \in N : n <= m
      <4>1. N \in SUBSET Nat
        OBVIOUS
      <4> QED
        BY ONLY <4>1, N # {}, LeastNumber
    <3>2. n \in Nat /\ \A m \in Nat : m < n => \E g : Solves(g, m)
      <4> HIDE DEF Solves
      <4>1. \A m \in Nat : ~ (\E g : Solves(g, m)) => n <= m
        BY <3>1
      <4> QED
        BY <4>1
    <3>3. CASE n = 0
      <4> DEFINE h == [T \in SUBSET (1 .. 0) |-> s]
      <4>1. \A T \in SUBSET (1 .. 0) : T = {}
        OBVIOUS
      <4>2. Solves(h, 0)
        BY <4>1
      <4> QED
        BY <4>2, <3>1, <3>3
    <3>4. CASE n # 0
      <4>1. n - 1 \in Nat /\ n - 1 < n
        BY <3>2, <3>4
      <4>2. PICK g : Solves(g, n - 1)
        BY <4>1, <3>2
      <4> DEFINE h == [T \in SUBSET (1 .. n) |->
                         IF T \in SUBSET (1 .. n - 1) THEN g[T] ELSE Body(g, T)]
      <4>3. \A T \in SUBSET (1 .. n) : T # {} => h[T \ {Max(T)}] = g[T \ {Max(T)}]
        BY <2>1, <3>2
      <4>4. \A T \in SUBSET (1 .. n - 1) : g[T] = Body(g, T)
        BY <4>2
      <4>5. \A T \in SUBSET (1 .. n) : h[T] = Body(g, T)
        <5> HIDE DEF Body
        <5> QED
          BY <4>4
      <4>6. \A T \in SUBSET (1 .. n) : h[T] = Body(h, T)
        <5> HIDE DEF h
        <5> QED
          BY <4>3, <4>5
      <4>7. Solves(h, n)
        <5>1. h = [T \in SUBSET (1 .. n) |-> h[T]]
          OBVIOUS
        <5> HIDE DEF h, Body
        <5> QED
          BY <5>1, <4>6
      <4> QED
        BY <4>7, <3>1
    <3> QED
      BY <3>3, <3>4
  <2> DEFINE f == CHOOSE g : g = [T \in SUBSET All |-> Body(g, T)]
  <2>3. f = [T \in SUBSET All |-> Body(f, T)]
    <3> HIDE DEF Body
    <3>1. \E g : g = [T \in SUBSET All |-> Body(g, T)]
      BY <2>2
    <3> QED
      BY <3>1
  <2>4. t = f[All]
    <3> DEFINE q == [i \in 1 .. count |-> i]
    <3>1. DOMAIN q = All
      OBVIOUS
    <3>2. t = FoldLeft(LAMBDA u, i : FileWrite(u, how), s, q)
      BY <1>2 DEF Sent
    <3> HIDE DEF q
    <3> QED
      BY <3>1, <3>2 DEF FoldLeft, MapThenFoldSet
  <2> HIDE DEF f
  <2>5. \A n \in 0 .. count : \A T \in SUBSET (1 .. n) : Wrote(s, f[T])
    <3> DEFINE N == {n \in 0 .. count : ~ \A T \in SUBSET (1 .. n) : Wrote(s, f[T])}
    <3> SUFFICES ASSUME N # {} PROVE FALSE
      OBVIOUS
    <3>1. PICK n \in N : \A m \in N : n <= m
      <4>1. N \in SUBSET Nat
        OBVIOUS
      <4> QED
        BY ONLY <4>1, N # {}, LeastNumber
    <3>2. n \in 0 .. count
          /\ \A m \in 0 .. count : m < n => \A T \in SUBSET (1 .. m) : Wrote(s, f[T])
      <4>1. n \in 0 .. count
        BY <3>1
      <4>2. ASSUME NEW m \in 0 .. count, m < n PROVE m \notin N
        <5>1. m \in N => n <= m
          BY <3>1
        <5> HIDE DEF N
        <5> QED
          BY <5>1, <4>1, <4>2
      <4> QED
        BY <4>1, <4>2
    <3>3. PICK T \in SUBSET (1 .. n) : ~ Wrote(s, f[T])
      BY <3>1
    <3>4. T \in SUBSET All
      BY <3>2
    <3>5. CASE T = {}
      BY <1>0, <2>3, <3>3, <3>4, <3>5
    <3>6. CASE T # {}
      <4> DEFINE U == T \ {Max(T)}
      <4>1. n - 1 \in 0 .. count /\ U \in SUBSET (1 .. n - 1)
        BY <2>1, <3>2, <3>6
      <4>2. f[T] = FileWrite(f[U], how)
        BY <2>3, <3>4, <3>6
      <4>3. Wrote(s, f[U])
        BY <3>2, <4>1
      <4> HIDE DEF U
      <4>4. Wrote(f[U], f[T])
        <5>1. FileOK(f[U])
          BY <4>3 DEF Wrote
        <5> QED
          BY <5>1, <4>2, FileWriteKeeps
      <4>5. Wrote(s, f[T])
        BY <4>3, <4>4, WroteTwice
      <4> QED
        BY <4>5, <3>3
    <3> QED
      BY <3>5, <3>6
  <2>6. count \in 0 .. count /\ All \in SUBSET (1 .. count)
    OBVIOUS
  <2> QED
    BY <2>4, <2>5, <2>6
<1> QED
  BY <1>1, <1>2

-----------------------------------------------------------------------------
(* LogBuffer and Logger. *)

\* No line is buffered before it is logged.
StateOK(s) ==
  FileOK(s) /\ \A n \in s.l.pending \union s.l.buffer : n <= s.l.logged

\* t is what a step of the log may make of s: nothing older comes back into a buffer.
Moved(s, t) ==
  /\ StateOK(t) /\ t.f.written >= s.f.written /\ t.l.logged >= s.l.logged
  /\ \A n \in t.f.writeBuffer : n \in s.f.writeBuffer \/ n > s.f.written
  /\ \A n \in t.l.pending : n \in s.l.pending \/ n > s.l.logged
  /\ \A n \in t.l.buffer : n \in s.l.buffer \/ n > s.l.logged

LEMMA MovedTwice ==
  ASSUME NEW s, NEW t, NEW u, StateOK(s), Moved(s, t), Moved(t, u)
  PROVE  Moved(s, u)
<1>1. /\ s.f.written \in Nat /\ t.f.written \in Nat /\ u.f.written \in Nat
      /\ s.l.logged \in Nat /\ t.l.logged \in Nat /\ u.l.logged \in Nat
      /\ \A n \in u.f.writeBuffer : n \in Nat
      /\ \A n \in u.l.pending : n \in Nat
      /\ \A n \in u.l.buffer : n \in Nat
  BY DEF Moved, StateOK, FileOK, StateType, FileType, LoggerType
<1> QED
  BY <1>1 DEF Moved

\* What is written to the file transport does not touch the logger.
LEMMA WroteMoves ==
  ASSUME NEW s, NEW t, StateOK(s), Wrote(s, t)
  PROVE  Moved(s, t)
<1>1. s.l.logged \in Nat
  BY DEF StateOK, FileOK, StateType, LoggerType
<1> QED
  BY <1>1 DEF Moved, StateOK, Wrote

\* A step that leaves the file transport and the disk alone.
LEMMA LoggerMoves ==
  ASSUME NEW s, StateOK(s), NEW k \in LoggerType, k.logged >= s.l.logged,
         \A n \in k.pending : n \in s.l.pending \/ n > s.l.logged,
         \A n \in k.buffer : n \in s.l.buffer \/ n > s.l.logged,
         \A n \in k.pending \union k.buffer : n <= k.logged,
         NEW t, t = [l |-> k, f |-> s.f, d |-> s.d]
  PROVE  Moved(s, t)
<1>1. t.l = k /\ t.f = s.f /\ t.d = s.d /\ s.f \in FileType /\ s.d \in DiskType
  BY DEF StateOK, FileOK, StateType
<1>2. t \in StateType
  BY <1>1 DEF StateType
<1>3. FileOK(t)
  BY <1>1, <1>2 DEF StateOK, FileOK, OldEnough
<1>4. s.f.written \in Nat
  BY <1>1 DEF FileType
<1> QED
  BY <1>1, <1>3, <1>4 DEF Moved, StateOK

LEMMA AppendedMoves ==
  ASSUME NEW s, StateOK(s), NEW t, t = Appended(s)
  PROVE  Moved(s, t)
<1>1. /\ s.l \in LoggerType /\ s = [l |-> s.l, f |-> s.f, d |-> s.d] /\ s.l.logged \in Nat
      /\ s.l.dropped \in Nat /\ s.l.buffer \in SUBSET Nat /\ s.l.pending \in SUBSET Nat
  BY DEF StateOK, FileOK, StateType, LoggerType
<1>2. PICK n \in Nat : n = s.l.logged + 1
  BY <1>1
<1>3. PICK c : c = [s EXCEPT !.l.logged = n, !.l.timer = TRUE]
  OBVIOUS
<1>4. PICK k : k = [s.l EXCEPT !.logged = n, !.timer = TRUE]
  OBVIOUS
<1>5. c = [l |-> k, f |-> s.f, d |-> s.d] /\ c.l = k
  BY <1>1, <1>3, <1>4
<1>6. /\ k \in LoggerType /\ k.logged = n /\ k.buffer = s.l.buffer /\ k.pending = s.l.pending
      /\ k.dropped = s.l.dropped
  BY <1>1, <1>4 DEF LoggerType
<1>7. PICK drops \in Nat : drops = k.dropped + 1
  BY <1>1, <1>6
<1>8. PICK b \in SUBSET Nat : b = k.buffer \union {n}
  BY <1>1, <1>6
<1>9. \/ t = [c EXCEPT !.l.dropped = drops]
      \/ t = [c EXCEPT !.l.buffer = b]
  BY <1>2, <1>3, <1>5, <1>7, <1>8 DEF Appended
<1>11. CASE t = [c EXCEPT !.l.dropped = drops]
  <2>1. PICK o \in LoggerType : o = [k EXCEPT !.dropped = drops]
    BY <1>6 DEF LoggerType
  <2>2. o.logged = n /\ o.buffer = s.l.buffer /\ o.pending = s.l.pending
    BY <1>6, <2>1 DEF LoggerType
  <2>3. t = [l |-> o, f |-> s.f, d |-> s.d]
    BY <1>5, <1>11, <2>1
  <2>4. \A i \in o.pending \union o.buffer : i <= o.logged
    BY <1>1, <1>2, <2>2 DEF StateOK
  <2> QED
    BY <1>1, <1>2, <2>2, <2>3, <2>4, LoggerMoves
<1>12. CASE t = [c EXCEPT !.l.buffer = b]
  <2>1. PICK o \in LoggerType : o = [k EXCEPT !.buffer = b]
    BY <1>6, <1>8 DEF LoggerType
  <2>2. o.logged = n /\ o.buffer = s.l.buffer \union {n} /\ o.pending = s.l.pending
    BY <1>6, <1>8, <2>1 DEF LoggerType
  <2>3. t = [l |-> o, f |-> s.f, d |-> s.d]
    BY <1>5, <1>12, <2>1
  <2>4. \A i \in o.pending \union o.buffer : i <= o.logged
    BY <1>1, <1>2, <2>2 DEF StateOK
  <2> QED
    BY <1>1, <1>2, <2>2, <2>3, <2>4, LoggerMoves
<1> QED
  BY <1>9, <1>11, <1>12

\* What the transports log while they are written to.
LEMMA EchoedMoves ==
  ASSUME NEW s, StateOK(s), NEW count \in Nat,
         NEW t, t = Echoed(s, count)
  PROVE  Moved(s, t)
<1>0. Moved(s, s)
  BY DEF StateOK, FileOK, StateType, FileType, LoggerType, Moved
<1> DEFINE All == 1 .. count
           Body(g, T) == IF T = {} THEN s ELSE Appended(g[T \ {Max(T)}])
           Solves(g, n) == g = [T \in SUBSET (1 .. n) |-> Body(g, T)]
<1>1. \A n \in Nat : \A T \in SUBSET (1 .. n) :
        T # {} => /\ n - 1 \in Nat /\ n # 0
                  /\ T \ {Max(T)} \in SUBSET (1 .. n - 1)
                  /\ T \ {Max(T)} \in SUBSET (1 .. n)
  <2> TAKE n \in Nat
  <2> TAKE T \in SUBSET (1 .. n)
  <2> SUFFICES ASSUME T # {}
               PROVE  /\ n - 1 \in Nat /\ n # 0
                      /\ T \ {Max(T)} \in SUBSET (1 .. n - 1)
                      /\ T \ {Max(T)} \in SUBSET (1 .. n)
    OBVIOUS
  <2>1. T \in SUBSET (0 .. n)
    OBVIOUS
  <2>2. PICK m \in T : m = Max(T) /\ \A y \in T : y <= m
    BY <2>1, MaxBounded
  <2>3. \A y \in T : y # m => y \in 1 .. n - 1
    BY <2>2
  <2>4. n - 1 \in Nat /\ n # 0
    BY <2>2
  <2> QED
    BY <2>2, <2>3, <2>4
<1>2. \A n \in Nat : \E g : Solves(g, n)
  <2> DEFINE N == {n \in Nat : ~ \E g : Solves(g, n)}
  <2> SUFFICES ASSUME N # {} PROVE FALSE
    OBVIOUS
  <2>1. PICK n \in N : \A m \in N : n <= m
    <3>1. N \in SUBSET Nat
      OBVIOUS
    <3> QED
      BY ONLY <3>1, N # {}, LeastNumber
  <2>2. n \in Nat /\ \A m \in Nat : m < n => \E g : Solves(g, m)
    <3> HIDE DEF Solves
    <3>1. \A m \in Nat : ~ (\E g : Solves(g, m)) => n <= m
      BY <2>1
    <3> QED
      BY <3>1
  <2>3. CASE n = 0
    <3> DEFINE h == [T \in SUBSET (1 .. 0) |-> s]
    <3>1. \A T \in SUBSET (1 .. 0) : T = {}
      OBVIOUS
    <3>2. Solves(h, 0)
      BY <3>1
    <3> QED
      BY <3>2, <2>1, <2>3
  <2>4. CASE n # 0
    <3>1. n - 1 \in Nat /\ n - 1 < n
      BY <2>2, <2>4
    <3>2. PICK g : Solves(g, n - 1)
      BY <3>1, <2>2
    <3> DEFINE h == [T \in SUBSET (1 .. n) |->
                       IF T \in SUBSET (1 .. n - 1) THEN g[T] ELSE Body(g, T)]
    <3>3. \A T \in SUBSET (1 .. n) : T # {} => h[T \ {Max(T)}] = g[T \ {Max(T)}]
      BY <1>1, <2>2
    <3>4. \A T \in SUBSET (1 .. n - 1) : g[T] = Body(g, T)
      BY <3>2
    <3>5. \A T \in SUBSET (1 .. n) : h[T] = Body(g, T)
      <4> HIDE DEF Body
      <4> QED
        BY <3>4
    <3>6. \A T \in SUBSET (1 .. n) : h[T] = Body(h, T)
      <4> HIDE DEF h
      <4> QED
        BY <3>3, <3>5
    <3>7. Solves(h, n)
      <4>1. h = [T \in SUBSET (1 .. n) |-> h[T]]
        OBVIOUS
      <4> HIDE DEF h, Body
      <4> QED
        BY <4>1, <3>6
    <3> QED
      BY <3>7, <2>1
  <2> QED
    BY <2>3, <2>4
<1> DEFINE f == CHOOSE g : g = [T \in SUBSET All |-> Body(g, T)]
<1>3. f = [T \in SUBSET All |-> Body(f, T)]
  <2> HIDE DEF Body
  <2>1. \E g : g = [T \in SUBSET All |-> Body(g, T)]
    BY <1>2
  <2> QED
    BY <2>1
<1>4. t = f[All]
  <2> DEFINE q == [i \in 1 .. count |-> i]
  <2>1. DOMAIN q = All
    OBVIOUS
  <2>2. t = FoldLeft(LAMBDA u, i : Appended(u), s, q)
    BY DEF Echoed
  <2> HIDE DEF q
  <2> QED
    BY <2>1, <2>2 DEF FoldLeft, MapThenFoldSet
<1> HIDE DEF f
<1>5. \A n \in 0 .. count : \A T \in SUBSET (1 .. n) : Moved(s, f[T])
  <2> DEFINE N == {n \in 0 .. count : ~ \A T \in SUBSET (1 .. n) : Moved(s, f[T])}
  <2> SUFFICES ASSUME N # {} PROVE FALSE
    OBVIOUS
  <2>1. PICK n \in N : \A m \in N : n <= m
    <3>1. N \in SUBSET Nat
      OBVIOUS
    <3> QED
      BY ONLY <3>1, N # {}, LeastNumber
  <2>2. n \in 0 .. count
        /\ \A m \in 0 .. count : m < n => \A T \in SUBSET (1 .. m) : Moved(s, f[T])
    <3>1. \A m \in 0 .. count : ~ (\A T \in SUBSET (1 .. m) : Moved(s, f[T])) => n <= m
      BY <2>1
    <3> QED
      BY <3>1
  <2>3. PICK T \in SUBSET (1 .. n) : ~ Moved(s, f[T])
    BY <2>1
  <2>4. T \in SUBSET All
    BY <2>2
  <2>5. CASE T = {}
    BY <1>0, <1>3, <2>3, <2>4, <2>5
  <2>6. CASE T # {}
    <3> DEFINE U == T \ {Max(T)}
    <3>1. n - 1 \in 0 .. count /\ U \in SUBSET (1 .. n - 1)
      BY <1>1, <2>2, <2>6
    <3>2. f[T] = Appended(f[U])
      BY <1>3, <2>4, <2>6
    <3>3. Moved(s, f[U])
      BY <2>2, <3>1
    <3> HIDE DEF U
    <3>4. Moved(f[U], f[T])
      <4>1. StateOK(f[U])
        BY <3>3 DEF Moved
      <4> QED
        BY <4>1, <3>2, AppendedMoves
    <3>5. Moved(s, f[T])
      BY <3>3, <3>4, MovedTwice
    <3> QED
      BY <3>5, <2>3
  <2> QED
    BY <2>5, <2>6
<1>6. count \in 0 .. count /\ All \in SUBSET (1 .. count)
  OBVIOUS
<1> QED
  BY <1>4, <1>5, <1>6

LEMMA FlushedMoves ==
  ASSUME NEW s, StateOK(s), NEW how \in 0 .. Keep + 1, NEW echo \in Nat,
         NEW t, t = Flushed(s, how, echo)
  PROVE  Moved(s, t) /\ \A n \in t.l.buffer : n > s.l.logged
<1>1. /\ s.l \in LoggerType /\ s = [l |-> s.l, f |-> s.f, d |-> s.d] /\ s.l.logged \in Nat
      /\ s.l.dropped \in Nat /\ s.l.buffer \in SUBSET Nat /\ s.l.pending \in SUBSET Nat
  BY DEF StateOK, FileOK, StateType, LoggerType
<1>2. CASE s.l.buffer = {} /\ s.l.dropped = 0
  <2>1. t = s
    BY <1>2 DEF Flushed
  <2> QED
    BY <1>1, <1>2, <2>1 DEF StateOK, FileOK, StateType, FileType, Moved
<1>3. CASE ~ (s.l.buffer = {} /\ s.l.dropped = 0)
  <2>1. PICK count \in Nat : count = Cardinality(s.l.buffer) + (IF s.l.dropped > 0 THEN 1 ELSE 0)
    <3>1. s.l.buffer \in SUBSET (0 .. s.l.logged)
      BY <1>1 DEF StateOK
    <3>2. Cardinality(s.l.buffer) \in Nat
      BY <1>1, <3>1, BoundedIsFinite
    <3> QED
      BY <3>2
  <2>2. PICK k \in LoggerType : k = [s.l EXCEPT !.buffer = {}, !.dropped = 0]
    BY <1>1 DEF LoggerType
  <2>3. k.buffer = {} /\ k.pending = s.l.pending /\ k.logged = s.l.logged
    BY <1>1, <2>2 DEF LoggerType
  <2>4. PICK w : w = [s EXCEPT !.l.buffer = {}, !.l.dropped = 0]
    OBVIOUS
  <2>5. w = [l |-> k, f |-> s.f, d |-> s.d] /\ w.l = k
    BY <1>1, <2>2, <2>4
  <2>6. Moved(s, w)
    <3>1. \A i \in k.pending \union k.buffer : i <= k.logged
      BY <1>1, <2>3 DEF StateOK
    <3> QED
      BY <1>1, <2>3, <2>5, <3>1, LoggerMoves
  <2>7. PICK e : e = Echoed(w, echo)
    OBVIOUS
  <2>8. Moved(w, e)
    BY <2>6, <2>7, EchoedMoves DEF Moved
  <2>9. t = Sent(e, s.l.transports, count, how)
    BY <1>3, <2>1, <2>4, <2>7 DEF Flushed
  <2>10. Wrote(e, t)
    <3>1. FileOK(e)
      BY <2>8 DEF Moved, StateOK
    <3> QED
      BY <2>9, <3>1, SentKeeps
  <2>11. Moved(e, t)
    BY <2>8, <2>10, WroteMoves DEF Moved
  <2>12. Moved(w, t)
    BY <2>6, <2>8, <2>11, MovedTwice DEF Moved
  <2>13. Moved(s, t)
    BY <2>6, <2>12, MovedTwice
  <2>14. \A n \in t.l.buffer : n > s.l.logged
    BY <2>3, <2>5, <2>12 DEF Moved
  <2> QED
    BY <2>13, <2>14
<1> QED
  BY <1>2, <1>3

LEMMA LoggerFlushedMoves ==
  ASSUME NEW s, StateOK(s), NEW how \in 0 .. Keep + 1, NEW echo \in Nat,
         NEW t, t = LoggerFlushed(s, how, echo)
  PROVE  /\ Moved(s, t) /\ t.l.pending = {}
         /\ \A n \in t.l.buffer : n > s.l.logged
<1>1. PICK e : e = Flushed(s, how, echo)
  OBVIOUS
<1>2. Moved(s, e) /\ StateOK(e) /\ \A n \in e.l.buffer : n > s.l.logged
  BY <1>1, FlushedMoves DEF Moved
<1>3. /\ e.l \in LoggerType /\ e = [l |-> e.l, f |-> e.f, d |-> e.d] /\ e.l.logged \in Nat
  BY <1>2 DEF StateOK, FileOK, StateType, LoggerType
<1>4. PICK k \in LoggerType : k = [e.l EXCEPT !.pending = {}]
  BY <1>3 DEF LoggerType
<1>5. k.buffer = e.l.buffer /\ k.pending = {} /\ k.logged = e.l.logged
  BY <1>3, <1>4 DEF LoggerType
<1>6. t = [e EXCEPT !.l.pending = {}]
  BY <1>1 DEF LoggerFlushed
<1>7. t = [l |-> k, f |-> e.f, d |-> e.d] /\ t.l = k
  BY <1>3, <1>4, <1>6
<1>8. Moved(e, t)
  <2>1. \A i \in k.pending \union k.buffer : i <= k.logged
    BY <1>2, <1>5 DEF StateOK
  <2> QED
    BY <1>2, <1>3, <1>5, <1>7, <2>1, LoggerMoves
<1>9. Moved(s, t)
  BY <1>2, <1>8, MovedTwice
<1> QED
  BY <1>2, <1>5, <1>7, <1>9

LEMMA LogLineMoves ==
  ASSUME NEW s, StateOK(s), NEW how \in 0 .. Keep + 1, NEW echo \in Nat,
         NEW t, t = LogLine(s, how, echo)
  PROVE  Moved(s, t)
<1>1. /\ s.l \in LoggerType /\ s = [l |-> s.l, f |-> s.f, d |-> s.d] /\ s.l.logged \in Nat
      /\ s.l.buffer \in SUBSET Nat /\ s.l.pending \in SUBSET Nat
      /\ \A i \in s.l.pending \union s.l.buffer : i <= s.l.logged
  BY DEF StateOK, FileOK, StateType, LoggerType
<1>2. PICK n \in Nat : n = s.l.logged + 1
  BY <1>1
<1>3. PICK k \in LoggerType : k = [s.l EXCEPT !.logged = n]
  BY <1>1 DEF LoggerType
<1>4. k.buffer = s.l.buffer /\ k.pending = s.l.pending /\ k.logged = n
  BY <1>1, <1>3 DEF LoggerType
<1>5. PICK c : c = [s EXCEPT !.l.logged = n]
  OBVIOUS
<1>6. c = [l |-> k, f |-> s.f, d |-> s.d] /\ c.l = k
  BY <1>1, <1>3, <1>5
<1>7. CASE ~ s.l.initialized
  <2>1. PICK p \in SUBSET Nat : p = k.pending \union {n}
    BY <1>1, <1>4
  <2>2. t = [c EXCEPT !.l.pending = p]
    BY <1>2, <1>5, <1>6, <1>7, <2>1 DEF LogLine
  <2>3. PICK o \in LoggerType : o = [k EXCEPT !.pending = p]
    BY <1>3, <2>1 DEF LoggerType
  <2>4. o.buffer = s.l.buffer /\ o.pending = s.l.pending \union {n} /\ o.logged = n
    BY <1>3, <1>4, <2>1, <2>3 DEF LoggerType
  <2>5. t = [l |-> o, f |-> s.f, d |-> s.d]
    BY <1>6, <2>2, <2>3
  <2>6. \A i \in o.pending \union o.buffer : i <= o.logged
    BY <1>1, <1>2, <2>4
  <2> QED
    BY <1>1, <1>2, <2>4, <2>5, <2>6, LoggerMoves
<1>8. CASE s.l.initialized /\ ~ s.l.enabled
  <2>1. t = Sent(c, s.l.transports, 1, how)
    BY <1>2, <1>5, <1>8 DEF LogLine
  <2>2. Moved(s, c)
    <3>1. \A i \in k.pending \union k.buffer : i <= k.logged
      BY <1>1, <1>2, <1>4
    <3> QED
      BY <1>1, <1>2, <1>4, <1>6, <3>1, LoggerMoves
  <2>3. StateOK(c) /\ FileOK(c)
    BY <2>2 DEF Moved, StateOK
  <2>4. Wrote(c, t)
    BY <2>1, <2>3, SentKeeps
  <2> QED
    BY <2>2, <2>3, <2>4, WroteMoves, MovedTwice
<1>9. CASE s.l.initialized /\ s.l.enabled
  <2>1. PICK a : a = Appended(s)
    OBVIOUS
  <2>2. Moved(s, a)
    BY <2>1, AppendedMoves
  <2>3. t = a \/ t = Flushed(a, how, echo)
    BY <1>9, <2>1 DEF LogLine
  <2>4. CASE t = Flushed(a, how, echo)
    <3>1. StateOK(a)
      BY <2>2 DEF Moved
    <3>2. Moved(a, t)
      BY <2>4, <3>1, FlushedMoves
    <3> QED
      BY <2>2, <3>2, MovedTwice
  <2> QED
    BY <2>2, <2>3, <2>4
<1> QED
  BY <1>7, <1>8, <1>9

LEMMA ConfiguredMoves ==
  ASSUME NEW s, StateOK(s), NEW how \in 0 .. Keep + 1, NEW given \in BOOLEAN,
         NEW async \in BOOLEAN, NEW t, t = Configured(s, given, async, how)
  PROVE  Moved(s, t)
<1>1. /\ s.l \in LoggerType /\ s = [l |-> s.l, f |-> s.f, d |-> s.d] /\ s.l.logged \in Nat
      /\ s.l.transports \in {"console", "file"} /\ s.l.pending \in SUBSET Nat
      /\ \A i \in s.l.pending \union s.l.buffer : i <= s.l.logged
  BY DEF StateOK, FileOK, StateType, LoggerType
<1>2. PICK via \in {"console", "file"} : via = IF given THEN "file" ELSE s.l.transports
  BY <1>1
<1>3. PICK c : c = [s EXCEPT !.l.transports = via, !.l.enabled = async, !.l.timer = async,
                             !.l.initialized = TRUE]
  OBVIOUS
<1>4. PICK k \in LoggerType : k = [s.l EXCEPT !.transports = via, !.enabled = async,
                                              !.timer = async, !.initialized = TRUE]
  BY <1>1, <1>2 DEF LoggerType
<1>5. k.buffer = s.l.buffer /\ k.pending = s.l.pending /\ k.logged = s.l.logged
  BY <1>1, <1>4 DEF LoggerType
<1>6. c = [l |-> k, f |-> s.f, d |-> s.d] /\ c.l = k
  BY <1>1, <1>3, <1>4
<1>7. CASE s.l.initialized
  <2>1. t = c
    BY <1>2, <1>3, <1>7 DEF Configured
  <2> QED
    BY <1>1, <1>5, <1>6, <2>1, LoggerMoves
<1>8. CASE ~ s.l.initialized
  <2>1. PICK w : w = [c EXCEPT !.l.pending = {}]
    OBVIOUS
  <2>2. t = Sent(w, via, Cardinality(s.l.pending), how)
    BY <1>2, <1>3, <1>8, <2>1 DEF Configured
  <2>3. PICK o \in LoggerType : o = [k EXCEPT !.pending = {}]
    BY <1>4 DEF LoggerType
  <2>4. o.buffer = s.l.buffer /\ o.pending = {} /\ o.logged = s.l.logged
    BY <1>4, <1>5, <2>3 DEF LoggerType
  <2>5. w = [l |-> o, f |-> s.f, d |-> s.d]
    BY <1>6, <2>1, <2>3
  <2>6. Moved(s, w)
    <3>1. \A i \in o.pending \union o.buffer : i <= o.logged
      BY <1>1, <2>4
    <3> QED
      BY <1>1, <2>4, <2>5, <3>1, LoggerMoves
  <2>7. StateOK(w) /\ FileOK(w)
    BY <2>6 DEF Moved, StateOK
  <2>8. PICK count \in Nat : count = Cardinality(s.l.pending)
    <3>1. s.l.pending \in SUBSET (0 .. s.l.logged)
      BY <1>1
    <3> QED
      BY <1>1, <3>1, BoundedIsFinite
  <2>9. Wrote(w, t)
    BY <2>2, <2>7, <2>8, SentKeeps
  <2> QED
    BY <2>6, <2>7, <2>9, WroteMoves, MovedTwice
<1> QED
  BY <1>7, <1>8

LEMMA FileFlushMoves ==
  ASSUME NEW s, StateOK(s), NEW by \in {"task", "shutdown"}, NEW t, t = FileFlush(s, by)
  PROVE  /\ Moved(s, t) /\ t.l = s.l /\ t.f.written = s.f.written
         /\ t.f.writeBuffer = {}
<1>1. /\ s \in StateType /\ s.f \in FileType /\ s = [l |-> s.l, f |-> s.f, d |-> s.d]
      /\ s.f.written \in Nat /\ s.f.writeBuffer \in SUBSET Nat
      /\ s.f.flights \in SUBSET FlightType /\ s.l.logged \in Nat
  BY DEF StateOK, FileOK, StateType, FileType, LoggerType
<1>2. CASE s.f.writeBuffer = {}
  <2>1. t = s
    BY <1>2 DEF FileFlush
  <2> QED
    BY <1>1, <1>2, <2>1 DEF Moved, StateOK
<1>3. CASE s.f.writeBuffer # {}
  <2>1. PICK g \in FlightType : /\ g = [last |-> Max(s.f.writeBuffer), by |-> by, at |-> Unopened]
                                /\ g.last <= s.f.written /\ g.at = -1
    <3>1. s.f.writeBuffer \in SUBSET (0 .. s.f.written)
      BY <1>1 DEF StateOK, FileOK
    <3>2. PICK m \in 0 .. s.f.written : m = Max(s.f.writeBuffer)
      BY <1>1, <1>3, <3>1, MaxBounded
    <3>3. PICK g : g = [last |-> m, by |-> by, at |-> Unopened]
      OBVIOUS
    <3>4. g \in FlightType /\ g.last = m /\ g.at = -1
      BY <3>2, <3>3, Numbers DEF FlightType
    <3> QED
      BY <3>2, <3>3, <3>4
  <2>2. PICK aloft \in SUBSET FlightType : aloft = s.f.flights \union {g}
    BY <1>1
  <2>3. t = [s EXCEPT !.f.writeBuffer = {}, !.f.scheduled = FALSE, !.f.flights = aloft]
    BY <1>3, <2>1, <2>2 DEF FileFlush
  <2>4. PICK k \in FileType : k = [s.f EXCEPT !.writeBuffer = {}, !.scheduled = FALSE,
                                              !.flights = aloft]
    BY <1>1 DEF FileType
  <2>5. t = [l |-> s.l, f |-> k, d |-> s.d]
    BY <1>1, <2>3, <2>4
  <2>6. /\ t.l = s.l /\ t.f = k /\ t.d = s.d /\ k.writeBuffer = {} /\ k.flights = aloft
        /\ k.written = s.f.written /\ k.gone = s.f.gone /\ k.botched = s.f.botched
        /\ k.size = s.f.size
    BY <1>1, <2>4, <2>5 DEF FileType
  <2>7. t \in StateType
    BY <1>1, <2>5, <2>6 DEF StateType
  <2>8. ~ s.f.botched => \A f \in aloft : f.at <= Keep => OldEnough(s, f.last, f.at)
    BY <2>1, <2>2 DEF StateOK, FileOK, OldEnough
  <2>9. FileOK(t)
    BY <2>1, <2>2, <2>6, <2>7, <2>8 DEF StateOK, FileOK, OldEnough
  <2> QED
    BY <1>1, <2>6, <2>9 DEF Moved, StateOK
<1> QED
  BY <1>2, <1>3

-----------------------------------------------------------------------------
(* The log. *)

ShutdownType == [step : {"no", "flushing", "closing", "done"}, mark : Nat, fileMark : Nat]

LogTypeOK == State \in StateType /\ shutdown \in ShutdownType

\* Once Logger.shutdown() was called, what is buffered came after the call.
Drained ==
  /\ shutdown.mark <= logger.logged /\ shutdown.fileMark <= file.written
  /\ shutdown.step # "no" =>
       /\ \A n \in logger.pending \union logger.buffer : n > shutdown.mark
       /\ \A n \in file.writeBuffer : n > shutdown.fileMark

LogInv == StateOK(State) /\ shutdown \in ShutdownType /\ Drained

LEMMA StateIs == State.l = logger /\ State.f = file /\ State.d = disk
BY DEF State

LEMMA LogInitOK == LogInit => LogInv
<1> SUFFICES ASSUME LogInit PROVE LogInv
  OBVIOUS
<1>1. logger \in LoggerType /\ logger.pending = {} /\ logger.buffer = {} /\ logger.logged = 0
  BY DEF LogInit, LoggerType
<1>2. /\ file \in FileType /\ file.writeBuffer = {} /\ file.flights = {} /\ file.gone = 0
      /\ file.written = 0
  BY DEF LogInit, FileType
<1>3. disk \in DiskType /\ DOMAIN disk = {}
  <2>1. disk = [i \in {} |-> 0]
    BY DEF LogInit
  <2>2. {} \in SUBSET (0 .. Keep) /\ disk \in [{} -> Nat]
    BY <2>1
  <2> QED
    BY <2>1, <2>2 DEF DiskType
<1>4. State \in StateType
  BY <1>1, <1>2, <1>3 DEF State, StateType
<1>5. StateOK(State)
  BY <1>1, <1>2, <1>3, <1>4, StateIs DEF StateOK, FileOK
<1>6. shutdown \in ShutdownType /\ shutdown.mark = 0 /\ shutdown.fileMark = 0
      /\ shutdown.step = "no"
  BY DEF LogInit, ShutdownType
<1> QED
  BY <1>1, <1>2, <1>5, <1>6 DEF LogInv, Drained

\* A step that moves the log on and leaves shutdown() where it is.
LEMMA MovedKeeps ==
  ASSUME LogInv, NEW t, Moved(State, t), Becomes(t), shutdown' \in ShutdownType,
         shutdown'.mark = shutdown.mark, shutdown'.fileMark = shutdown.fileMark,
         shutdown'.step # "no" => shutdown.step # "no"
  PROVE  LogInv'
<1>1. StateOK(t) /\ t = [l |-> t.l, f |-> t.f, d |-> t.d]
  BY DEF Moved, StateOK, FileOK, StateType
<1>2. t.l = logger' /\ t.f = file' /\ t.d = disk'
  BY DEF Becomes
<1>3. t = State'
  BY <1>1, <1>2 DEF State
<1>4. StateOK(State)'
  <2>1. StateOK(State')
    BY <1>1, <1>3
  <2> QED
    BY <2>1 DEF StateOK, FileOK, OldEnough
<1>5. /\ logger.logged \in Nat /\ logger'.logged \in Nat
      /\ file.written \in Nat /\ file'.written \in Nat
      /\ shutdown.mark \in Nat /\ shutdown.fileMark \in Nat
      /\ \A n \in logger'.pending : n \in Nat
      /\ \A n \in logger'.buffer : n \in Nat
      /\ \A n \in file'.writeBuffer : n \in Nat
  <2>1. StateOK(State) /\ StateOK(t) /\ shutdown \in ShutdownType
    BY <1>1 DEF LogInv
  <2> QED
    BY <1>2, <2>1, StateIs DEF StateOK, FileOK, StateType, LoggerType, FileType, ShutdownType
<1>6. Drained'
  <2>1. /\ file'.written >= file.written /\ logger'.logged >= logger.logged
        /\ \A n \in file'.writeBuffer : n \in file.writeBuffer \/ n > file.written
        /\ \A n \in logger'.pending : n \in logger.pending \/ n > logger.logged
        /\ \A n \in logger'.buffer : n \in logger.buffer \/ n > logger.logged
    BY <1>2, StateIs DEF Moved
  <2>2. Drained
    BY DEF LogInv
  <2> QED
    BY <1>5, <2>1, <2>2 DEF Drained
<1> QED
  BY <1>4, <1>6 DEF LogInv

LEMMA StepChoices ==
  ASSUME LogInv
  PROVE  /\ Rotations(State) \in SUBSET (0 .. Keep + 1) /\ Echoes \in SUBSET Nat
         /\ StateOK(State) /\ FileOK(State)
<1>1. DOMAIN disk \in SUBSET (0 .. Keep)
  <2>1. disk \in DiskType
    BY StateIs DEF LogInv, StateOK, FileOK, StateType
  <2> QED
    BY <2>1 DEF DiskType
<1>2. \A i \in DOMAIN disk \ {Keep} : i + 1 \in 0 .. Keep + 1
  BY <1>1, Numbers
<1>3. Rotations(State) \in SUBSET (0 .. Keep + 1)
  <2>1. \A h \in Rotations(State) :
          h = 0 \/ h = Deleted \/ \E i \in DOMAIN disk \ {Keep} : h = i + 1
    BY StateIs DEF Rotations
  <2> QED
    BY <1>2, <2>1, Numbers
<1>4. Echoes \in SUBSET Nat
  BY LoggingAssumption DEF Echoes
<1> QED
  BY <1>3, <1>4 DEF LogInv, StateOK

LEMMA MicrotaskOK == ASSUME LogInv, Microtask PROVE LogInv'
<1>1. /\ StateOK(State) /\ file \in FileType /\ file.tasks \in Nat /\ file.tasks > 0
      /\ State = [l |-> logger, f |-> file, d |-> disk]
      /\ logger \in LoggerType /\ disk \in DiskType
  BY StateIs DEF LogInv, StateOK, FileOK, StateType, FileType, Microtask, State
<1>2. PICK n \in Nat : n = file.tasks - 1
  BY <1>1
<1>3. PICK k \in FileType : k = [file EXCEPT !.tasks = n]
  BY <1>1 DEF FileType
<1>4. PICK s : s = [l |-> logger, f |-> k, d |-> disk]
  OBVIOUS
<1>5. Becomes(FileFlush(s, "task"))
  <2>1. s = [State EXCEPT !.f.tasks = @ - 1]
    BY <1>1, <1>2, <1>3, <1>4
  <2> QED
    BY <2>1 DEF Microtask
<1>6. Moved(State, s)
  <2>1. /\ k.written = file.written /\ k.writeBuffer = file.writeBuffer /\ k.gone = file.gone
        /\ k.flights = file.flights /\ k.botched = file.botched /\ k.size = file.size
        /\ s.l = logger /\ s.f = k /\ s.d = disk
    BY <1>1, <1>3, <1>4 DEF FileType
  <2>2. s \in StateType
    BY <1>1, <1>3, <1>4 DEF StateType
  <2>3. StateOK(s)
    BY <1>1, <2>1, <2>2, StateIs DEF StateOK, FileOK, OldEnough
  <2>4. file.written \in Nat /\ logger.logged \in Nat
    BY <1>1 DEF FileType, LoggerType
  <2> QED
    BY <2>1, <2>3, <2>4, StateIs DEF Moved
<1>7. PICK t : t = FileFlush(s, "task")
  OBVIOUS
<1>8. Moved(State, t)
  BY <1>1, <1>6, <1>7, FileFlushMoves, MovedTwice DEF Moved
<1> QED
  BY <1>5, <1>7, <1>8, MovedKeeps DEF LogInv, Microtask

LEMMA TimerTickOK == ASSUME LogInv, TimerTick PROVE LogInv'
<1>1. PICK how \in Rotations(State), echo \in Echoes :
        Becomes(Flushed(State, how, echo))
  BY DEF TimerTick
<1>2. PICK t : t = Flushed(State, how, echo)
  OBVIOUS
<1>3. Moved(State, t)
  BY <1>1, <1>2, StepChoices, FlushedMoves
<1> QED
  BY <1>1, <1>2, <1>3, MovedKeeps DEF LogInv, TimerTick

LEMMA LogOK == ASSUME LogInv, Log PROVE LogInv'
<1>1. PICK how \in Rotations(State), echo \in Echoes :
        Becomes(LogLine(State, how, echo))
  BY DEF Log
<1>2. PICK t : t = LogLine(State, how, echo)
  OBVIOUS
<1>3. Moved(State, t)
  BY <1>1, <1>2, StepChoices, LogLineMoves
<1> QED
  BY <1>1, <1>2, <1>3, MovedKeeps DEF LogInv, Log

LEMMA ConfigureOK == ASSUME LogInv, Configure PROVE LogInv'
<1>1. PICK given \in BOOLEAN, async \in BOOLEAN, how \in Rotations(State) :
        Becomes(Configured(State, given, async, how))
  BY DEF Configure
<1>2. PICK t : t = Configured(State, given, async, how)
  OBVIOUS
<1>3. Moved(State, t)
  BY <1>1, <1>2, StepChoices, ConfiguredMoves
<1> QED
  BY <1>1, <1>2, <1>3, MovedKeeps DEF LogInv, Configure

LEMMA FlushLoggerOK == ASSUME LogInv, FlushLogger PROVE LogInv'
<1>1. PICK how \in Rotations(State), echo \in Echoes :
        Becomes(LoggerFlushed(State, how, echo))
  BY DEF FlushLogger
<1>2. PICK t : t = LoggerFlushed(State, how, echo)
  OBVIOUS
<1>3. Moved(State, t)
  BY <1>1, <1>2, StepChoices, LoggerFlushedMoves
<1> QED
  BY <1>1, <1>2, <1>3, MovedKeeps DEF LogInv, FlushLogger

LEMMA LogToFileOK == ASSUME LogInv, LogToFile PROVE LogInv'
<1>1. PICK c : c = [State EXCEPT !.l.logged = @ + 1]
  OBVIOUS
<1>2. PICK how \in Rotations(State) : Becomes(Sent(c, "file", 1, how))
  BY <1>1 DEF LogToFile
<1>3. StateOK(State) /\ how \in 0 .. Keep + 1
  BY StepChoices
<1>4. Moved(State, c)
  <2>1. /\ logger \in LoggerType /\ logger.logged \in Nat
        /\ \A i \in logger.pending \union logger.buffer : i \in Nat /\ i <= logger.logged
    BY <1>3, StateIs DEF StateOK, FileOK, StateType, LoggerType
  <2>2. PICK n \in Nat : n = logger.logged + 1
    BY <2>1
  <2>3. PICK k \in LoggerType : k = [logger EXCEPT !.logged = n]
    BY <2>1 DEF LoggerType
  <2>4. k.logged = n /\ k.buffer = logger.buffer /\ k.pending = logger.pending
    BY <2>1, <2>3 DEF LoggerType
  <2>5. c = [l |-> k, f |-> State.f, d |-> State.d]
    BY <1>1, <2>2, <2>3, StateIs DEF State
  <2>6. \A i \in k.pending \union k.buffer : i <= k.logged
    BY <2>1, <2>2, <2>4
  <2> QED
    BY <1>3, <2>1, <2>2, <2>4, <2>5, <2>6, StateIs, LoggerMoves
<1>5. PICK t : t = Sent(c, "file", 1, how)
  OBVIOUS
<1>6. StateOK(c) /\ FileOK(c)
  BY <1>4 DEF Moved, StateOK
<1>7. Wrote(c, t)
  BY <1>3, <1>5, <1>6, SentKeeps
<1>8. Moved(State, t)
  BY <1>3, <1>4, <1>6, <1>7, WroteMoves, MovedTwice
<1> QED
  BY <1>2, <1>5, <1>8, MovedKeeps DEF LogInv, LogToFile

LEMMA ShutdownBeginsOK == ASSUME LogInv, ShutdownBegins PROVE LogInv'
<1>1. PICK c : c = [State EXCEPT !.l.timer = FALSE]
  OBVIOUS
<1>2. PICK how \in Rotations(State), echo \in Echoes :
        LET drained == LoggerFlushed(Flushed(c, how, echo), how, 0)
        IN  /\ Becomes(FileFlush(drained, "shutdown"))
            /\ shutdown' = [step |-> "flushing", mark |-> logger.logged,
                            fileMark |-> drained.f.written]
  BY <1>1 DEF ShutdownBegins
<1>3. StateOK(State) /\ how \in 0 .. Keep + 1 /\ echo \in Nat
  BY StepChoices
<1>4. Moved(State, c) /\ c.l.logged = logger.logged
  <2>1. /\ logger \in LoggerType /\ logger.logged \in Nat
        /\ \A i \in logger.pending \union logger.buffer : i \in Nat /\ i <= logger.logged
    BY <1>3, StateIs DEF StateOK, FileOK, StateType, LoggerType
  <2>2. PICK k \in LoggerType : k = [logger EXCEPT !.timer = FALSE]
    BY <2>1 DEF LoggerType
  <2>3. k.logged = logger.logged /\ k.buffer = logger.buffer /\ k.pending = logger.pending
    BY <2>1, <2>2 DEF LoggerType
  <2>4. c = [l |-> k, f |-> State.f, d |-> State.d]
    BY <1>1, <2>2, StateIs DEF State
  <2>5. \A i \in k.pending \union k.buffer : i <= k.logged
    BY <2>1, <2>3
  <2> QED
    BY <1>3, <2>1, <2>3, <2>4, <2>5, StateIs, LoggerMoves
<1>5. PICK e : e = Flushed(c, how, echo)
  OBVIOUS
<1>6. PICK g : g = LoggerFlushed(e, how, 0)
  OBVIOUS
<1>7. PICK t : t = FileFlush(g, "shutdown")
  OBVIOUS
<1>8. Becomes(t) /\ shutdown' = [step |-> "flushing", mark |-> logger.logged,
                                 fileMark |-> g.f.written]
  BY <1>2, <1>5, <1>6, <1>7
<1>9. Moved(c, e) /\ \A n \in e.l.buffer : n > c.l.logged
  BY <1>3, <1>4, <1>5, FlushedMoves DEF Moved
<1>10. Moved(e, g) /\ g.l.pending = {}
  BY <1>3, <1>6, <1>9, LoggerFlushedMoves DEF Moved
<1>11. Moved(g, t) /\ t.l = g.l /\ t.f.written = g.f.written /\ t.f.writeBuffer = {}
  BY <1>7, <1>10, FileFlushMoves DEF Moved
<1>12. StateOK(t) /\ StateOK(c) /\ StateOK(e) /\ StateOK(g)
  BY <1>4, <1>9, <1>10, <1>11 DEF Moved
<1>13. t = State' /\ t.l = logger' /\ t.f = file' /\ t.d = disk'
  <2>1. t = [l |-> t.l, f |-> t.f, d |-> t.d]
    BY <1>12 DEF StateOK, FileOK, StateType
  <2>2. t.l = logger' /\ t.f = file' /\ t.d = disk'
    BY <1>8 DEF Becomes
  <2> QED
    BY <2>1, <2>2 DEF State
<1>14. StateOK(State)'
  <2>1. StateOK(State')
    BY <1>12, <1>13
  <2> QED
    BY <2>1 DEF StateOK, FileOK, OldEnough
<1>15. /\ logger.logged \in Nat /\ e.l.logged \in Nat /\ g.l.logged \in Nat
       /\ g.f.written \in Nat /\ \A n \in e.l.buffer \union g.l.buffer : n \in Nat
  BY <1>3, <1>12, StateIs DEF StateOK, FileOK, StateType, LoggerType, FileType
<1>16. shutdown' \in ShutdownType /\ shutdown'.mark = logger.logged
       /\ shutdown'.fileMark = g.f.written
  BY <1>8, <1>15 DEF ShutdownType
<1>17. Drained'
  <2>1. g.l.logged >= logger.logged /\ \A n \in g.l.buffer : n > logger.logged
    BY <1>4, <1>9, <1>10, <1>15 DEF Moved
  <2> QED
    BY <1>10, <1>11, <1>13, <1>15, <1>16, <2>1 DEF Drained
<1> QED
  BY <1>14, <1>16, <1>17 DEF LogInv

LEMMA ShutdownClosesOK == ASSUME LogInv, ShutdownCloses PROVE LogInv'
<1>1. PICK t : t = FileFlush(State, "shutdown")
  OBVIOUS
<1>2. Becomes(t) /\ Moved(State, t)
  BY <1>1, StepChoices, FileFlushMoves DEF ShutdownCloses
<1>3. shutdown' = [shutdown EXCEPT !.step = "closing"] /\ shutdown.step = "flushing"
      /\ shutdown \in ShutdownType
  BY DEF ShutdownCloses, LogInv
<1>4. shutdown' \in ShutdownType /\ shutdown'.mark = shutdown.mark
      /\ shutdown'.fileMark = shutdown.fileMark
  BY <1>3 DEF ShutdownType
<1> QED
  BY <1>2, <1>3, <1>4, MovedKeeps

\* A step that is not of the log.
LEMMA StillMoves ==
  ASSUME LogInv
  PROVE  Moved(State, State)
BY StepChoices DEF StateOK, FileOK, StateType, FileType, LoggerType, Moved

LEMMA ShutdownEndsOK == ASSUME LogInv, ShutdownEnds PROVE LogInv'
<1>1. Becomes(State)
  BY StateIs DEF ShutdownEnds, Becomes
<1>2. shutdown' = [shutdown EXCEPT !.step = "done"] /\ shutdown.step = "closing"
      /\ shutdown \in ShutdownType
  BY DEF ShutdownEnds, LogInv
<1>3. shutdown' \in ShutdownType /\ shutdown'.mark = shutdown.mark
      /\ shutdown'.fileMark = shutdown.fileMark
  BY <1>2 DEF ShutdownType
<1> QED
  BY <1>1, <1>2, <1>3, StillMoves, MovedKeeps

LEMMA StutterOK == ASSUME LogInv, UNCHANGED logVars PROVE LogInv'
<1>1. Becomes(State)
  BY StateIs DEF logVars, Becomes
<1> QED
  BY <1>1, StillMoves, MovedKeeps DEF logVars, LogInv

\* A step of the appends: lines and the write buffer stay what they are.
AppendStep ==
  /\ file' \in FileType /\ disk' \in DiskType /\ logger' = logger /\ shutdown' = shutdown
  /\ file'.written = file.written /\ file'.writeBuffer = file.writeBuffer
  /\ file'.gone = file.gone /\ file'.botched = file.botched /\ file'.size = file.size
  /\ \A f \in file'.flights :
       \/ \E g \in file.flights : f.last = g.last /\ f.at = g.at
       \/ f.last <= file.written /\ f.at = 0
  /\ \A i \in DOMAIN disk' :
       \/ i \in DOMAIN disk /\ disk'[i] = disk[i]
       \/ disk'[i] = 0 /\ i = 0
       \/ \E g \in file.flights : i = g.at /\ disk'[i] = g.last

LEMMA Parts ==
  ASSUME LogInv
  PROVE  /\ logger \in LoggerType /\ file \in FileType /\ disk \in DiskType
         /\ shutdown \in ShutdownType /\ FileOK(State)
         /\ file.written \in Nat /\ logger.logged \in Nat
         /\ \A f \in file.flights : f \in FlightType /\ f.last <= file.written
         /\ DOMAIN disk \in SUBSET (0 .. Keep) /\ disk \in [DOMAIN disk -> Nat]
<1>1. StateOK(State) /\ FileOK(State) /\ shutdown \in ShutdownType
  BY DEF LogInv, StateOK
<1>2. logger \in LoggerType /\ file \in FileType /\ disk \in DiskType
  BY <1>1, StateIs DEF FileOK, StateType
<1>3. \A f \in file.flights : f \in FlightType /\ f.last <= file.written
  BY <1>1, <1>2, StateIs DEF FileOK, FileType
<1>4. DOMAIN disk \in SUBSET (0 .. Keep) /\ disk \in [DOMAIN disk -> Nat]
  BY <1>2 DEF DiskType
<1>5. file.written \in Nat /\ logger.logged \in Nat
  BY <1>2 DEF FileType, LoggerType
<1> QED
  BY <1>1, <1>2, <1>3, <1>4, <1>5

LEMMA AppendStepOK == ASSUME LogInv, AppendStep PROVE LogInv'
<1>1. PICK t : t = [l |-> logger, f |-> file', d |-> disk']
  OBVIOUS
<1>2. t.l = logger /\ t.f = file' /\ t.d = disk' /\ t \in StateType /\ t.l = logger'
  BY <1>1, Parts DEF AppendStep, StateType
<1>3. /\ t.f.written = file.written /\ t.f.writeBuffer = file.writeBuffer
      /\ t.f.gone = file.gone /\ t.f.botched = file.botched /\ t.f.size = file.size
  BY <1>2 DEF AppendStep
<1>4. /\ \A f \in t.f.flights :
           \/ \E g \in file.flights : f.last = g.last /\ f.at = g.at
           \/ f.last <= file.written /\ f.at = 0
      /\ \A i \in DOMAIN t.d :
           \/ i \in DOMAIN disk /\ t.d[i] = disk[i]
           \/ t.d[i] = 0 /\ i = 0
           \/ \E g \in file.flights : i = g.at /\ t.d[i] = g.last
  BY <1>2 DEF AppendStep
<1>5. \A line, i : OldEnough(State, line, i) => OldEnough(t, line, i)
  BY <1>3, StateIs DEF OldEnough
<1>6. \A line : OldEnough(t, line, 0)
  BY DEF OldEnough
<1>7. FileOK(t)
  <2>1. \A f \in t.f.flights : f.last <= t.f.written
    BY <1>3, <1>4, Parts
  <2>2. \A i \in DOMAIN t.d : t.d[i] <= t.f.written /\ i <= Keep
    <3> TAKE i \in DOMAIN t.d
    <3>1. i <= Keep
      <4>1. disk' \in DiskType
        BY DEF AppendStep
      <4>2. DOMAIN disk' \in SUBSET (0 .. Keep)
        BY <4>1 DEF DiskType
      <4> QED
        BY <1>2, <4>2, Numbers
    <3>2. disk \in [DOMAIN disk -> Nat] /\ \A j \in DOMAIN disk : disk[j] <= file.written
      BY Parts, StateIs DEF FileOK
    <3> QED
      BY <1>3, <1>4, <3>1, <3>2, Parts
  <2>3. \A n \in t.f.writeBuffer : n <= t.f.written
    BY <1>3, Parts, StateIs DEF FileOK
  <2>4. t.f.gone <= t.f.written
    BY <1>3, Parts, StateIs DEF FileOK
  <2>5. ASSUME ~ t.f.botched
        PROVE  /\ t.f.gone = 0 \/ t.f.gone + Keep * PerFile < t.f.written
               /\ \A i \in DOMAIN t.d : OldEnough(t, t.d[i], i)
               /\ \A f \in t.f.flights : f.at <= Keep => OldEnough(t, f.last, f.at)
    <3>1. /\ file.gone = 0 \/ file.gone + Keep * PerFile < file.written
          /\ \A i \in DOMAIN disk : OldEnough(State, disk[i], i)
          /\ \A f \in file.flights : f.at <= Keep => OldEnough(State, f.last, f.at)
      BY <1>3, <2>5, Parts, StateIs DEF FileOK
    <3>2. t.f.gone = 0 \/ t.f.gone + Keep * PerFile < t.f.written
      BY <1>3, <3>1
    <3>3. \A i \in DOMAIN t.d : OldEnough(t, t.d[i], i)
      BY <1>4, <1>5, <1>6, <2>2, <3>1
    <3>4. \A f \in t.f.flights : f.at <= Keep => OldEnough(t, f.last, f.at)
      BY <1>4, <1>5, <1>6, <3>1
    <3> QED
      BY <3>2, <3>3, <3>4
  <2> QED
    BY <1>2, <2>1, <2>2, <2>3, <2>4, <2>5 DEF FileOK
<1>8. Moved(State, t)
  <2>1. \A n \in logger.pending \union logger.buffer : n <= logger.logged
    BY StateIs DEF LogInv, StateOK
  <2> QED
    <3>1. StateOK(t)
      BY <1>2, <1>7, <2>1 DEF StateOK
    <3>2. /\ t.f.written >= State.f.written /\ t.l.logged >= State.l.logged
          /\ t.f.writeBuffer = State.f.writeBuffer /\ t.l = State.l
      <4>1. t.l = State.l /\ State.l.logged \in Nat
        BY <1>2, Parts, StateIs
      <4>2. t.f.written = State.f.written /\ t.f.writeBuffer = State.f.writeBuffer
            /\ State.f.written \in Nat
        BY <1>3, Parts, StateIs
      <4> QED
        BY <4>1, <4>2
    <3> QED
      BY <3>1, <3>2 DEF Moved
<1>9. Becomes(t)
  BY <1>2 DEF Becomes, AppendStep
<1> QED
  BY <1>8, <1>9, Parts, MovedKeeps DEF AppendStep

LEMMA AppendOpensOK == ASSUME LogInv, AppendOpens PROVE LogInv'
<1>1. PICK f \in file.flights :
        /\ f.at = Unopened
        /\ file' = [file EXCEPT !.flights = (@ \ {f}) \union {[f EXCEPT !.at = 0]}]
  BY DEF AppendOpens
<1>2. PICK g \in FlightType : g = [f EXCEPT !.at = 0] /\ g.last = f.last /\ g.at = 0
  <2>1. f \in FlightType /\ 0 \in -1 .. Keep + 1
    BY Parts, Numbers
  <2>2. PICK g : g = [f EXCEPT !.at = 0]
    OBVIOUS
  <2>3. g \in FlightType /\ g.last = f.last /\ g.at = 0
    BY <2>1, <2>2 DEF FlightType
  <2> QED
    BY <2>2, <2>3
<1>3. PICK aloft \in SUBSET FlightType : aloft = (file.flights \ {f}) \union {g}
  BY Parts
<1>4. file' = [file EXCEPT !.flights = aloft]
  BY <1>1, <1>2, <1>3
<1>5. /\ file' \in FileType /\ file'.flights = aloft
      /\ file'.written = file.written /\ file'.writeBuffer = file.writeBuffer
      /\ file'.gone = file.gone /\ file'.botched = file.botched /\ file'.size = file.size
  BY <1>4, Parts DEF FileType
<1>6. disk' = [i \in DOMAIN disk \union {0} |-> IF i \in DOMAIN disk THEN disk[i] ELSE 0]
  BY DEF AppendOpens
<1>7. disk' \in DiskType
  <2>1. DOMAIN disk \union {0} \in SUBSET (0 .. Keep)
    BY Parts, Numbers
  <2>2. disk' \in [DOMAIN disk \union {0} -> Nat]
    BY <1>6, Parts
  <2> QED
    BY <2>1, <2>2 DEF DiskType
<1>8. AppendStep
  BY <1>1, <1>2, <1>3, <1>5, <1>6, <1>7, Parts DEF AppendStep, AppendOpens
<1> QED
  BY <1>8, AppendStepOK

LEMMA AppendSucceedsOK == ASSUME LogInv, AppendSucceeds PROVE LogInv'
<1>1. PICK f \in file.flights :
        /\ f.at # Unopened
        /\ file' = [file EXCEPT !.flights = @ \ {f},
                                !.failures = IF f.by = "task" THEN 0 ELSE @]
        /\ disk' = [i \in DOMAIN disk |->
                      IF i = f.at THEN Max({disk[i], f.last}) ELSE disk[i]]
  BY DEF AppendSucceeds
<1>2. PICK aloft \in SUBSET FlightType : aloft = file.flights \ {f}
  BY Parts
<1>3. PICK n \in Nat : n = IF f.by = "task" THEN 0 ELSE file.failures
  BY Parts DEF FileType
<1>4. file' = [file EXCEPT !.flights = aloft, !.failures = n]
  BY <1>1, <1>2, <1>3
<1>5. /\ file' \in FileType /\ file'.flights = aloft
      /\ file'.written = file.written /\ file'.writeBuffer = file.writeBuffer
      /\ file'.gone = file.gone /\ file'.botched = file.botched /\ file'.size = file.size
  BY <1>4, Parts DEF FileType
<1>6. \A i \in DOMAIN disk : disk'[i] = disk[i] \/ (i = f.at /\ disk'[i] = f.last)
  <2> TAKE i \in DOMAIN disk
  <2>1. f.last \in Nat /\ disk[i] \in Nat
    BY Parts DEF FlightType
  <2>2. PICK b \in Nat : {disk[i], f.last} \in SUBSET (0 .. b)
    BY <2>1
  <2>3. Max({disk[i], f.last}) \in {disk[i], f.last}
    BY <2>2, MaxBounded
  <2> QED
    BY <1>1, <2>3
<1>7. disk' \in DiskType /\ DOMAIN disk' = DOMAIN disk
  <2>1. \A i \in DOMAIN disk : disk'[i] \in Nat
    BY <1>6, Parts DEF FlightType
  <2>2. disk' \in [DOMAIN disk -> Nat]
    <3>1. disk' = [i \in DOMAIN disk |-> disk'[i]]
      BY <1>1
    <3> QED
      BY <2>1, <3>1
  <2> QED
    BY <2>2, Parts DEF DiskType
<1>8. AppendStep
  BY <1>1, <1>2, <1>5, <1>6, <1>7, Parts DEF AppendStep, AppendSucceeds
<1> QED
  BY <1>8, AppendStepOK

LEMMA AppendFailsOK == ASSUME LogInv, AppendFails PROVE LogInv'
<1>1. PICK f \in file.flights, logs \in BOOLEAN :
        LET failed == [State EXCEPT
                        !.f.flights = @ \ {f},
                        !.f.failures = IF f.by = "task" THEN @ + 1 ELSE @]
            told == IF logs THEN LogLine(failed, 0, 0) ELSE failed
        IN  \/ Becomes([told EXCEPT !.f.writeBuffer = {}, !.f.tripped = TRUE])
            \/ Becomes(told)
  BY ZenonT(30) DEF AppendFails
<1>2. PICK aloft \in SUBSET FlightType : aloft = file.flights \ {f}
  BY Parts
<1>3. PICK n \in Nat : n = IF f.by = "task" THEN file.failures + 1 ELSE file.failures
  BY Parts DEF FileType
<1>4. PICK k \in FileType : k = [file EXCEPT !.flights = aloft, !.failures = n]
  BY Parts DEF FileType
<1>5. /\ k.flights = aloft
      /\ k.written = file.written /\ k.writeBuffer = file.writeBuffer
      /\ k.gone = file.gone /\ k.botched = file.botched /\ k.size = file.size
  BY <1>4, Parts DEF FileType
<1>6. PICK c : c = [l |-> logger, f |-> k, d |-> disk]
  OBVIOUS
<1>7. c = [State EXCEPT !.f.flights = @ \ {f},
                        !.f.failures = IF f.by = "task" THEN @ + 1 ELSE @]
  <2>1. c = [State EXCEPT !.f.flights = aloft, !.f.failures = n]
    <3>1. State = [l |-> logger, f |-> file, d |-> disk]
      BY DEF State
    <3>2. PICK z : z = [State EXCEPT !.f.flights = aloft, !.f.failures = n]
      OBVIOUS
    <3>3. z = [l |-> logger, f |-> [file EXCEPT !.flights = aloft, !.failures = n], d |-> disk]
      BY ONLY <3>1, <3>2
    <3> QED
      BY <1>4, <1>6, <3>2, <3>3
  <2> QED
    BY <1>2, <1>3, <2>1, StateIs
<1>8. Moved(State, c)
  <2>1. c \in StateType /\ c.l = logger /\ c.f = k /\ c.d = disk
    BY <1>6, Parts DEF StateType
  <2>2. \A line, i : OldEnough(State, line, i) => OldEnough(c, line, i)
    BY <1>5, <2>1, StateIs DEF OldEnough
  <2>3. FileOK(c)
    BY <1>2, <1>5, <2>1, <2>2, Parts, StateIs DEF FileOK
  <2>4. \A i \in logger.pending \union logger.buffer : i <= logger.logged
    BY StateIs DEF LogInv, StateOK
  <2> QED
    BY <1>5, <2>1, <2>3, <2>4, Parts, StateIs DEF Moved, StateOK
<1>9. PICK told : told = IF logs THEN LogLine(c, 0, 0) ELSE c
  OBVIOUS
<1>10. Moved(State, told)
  <2>1. CASE logs
    <3>1. StateOK(c) /\ 0 \in 0 .. Keep + 1 /\ 0 \in Nat
      BY <1>8, Numbers DEF Moved
    <3>2. Moved(c, told)
      BY <1>9, <2>1, <3>1, LogLineMoves
    <3> QED
      BY <1>8, <3>2, StepChoices, MovedTwice
  <2>2. CASE ~ logs
    BY <1>8, <1>9, <2>2
  <2> QED
    BY <2>1, <2>2
<1>11. \/ Becomes([told EXCEPT !.f.writeBuffer = {}, !.f.tripped = TRUE])
       \/ Becomes(told)
  BY <1>1, <1>7, <1>9
<1>12. CASE Becomes(told)
  BY <1>10, <1>12, MovedKeeps DEF AppendFails, LogInv
<1>13. CASE Becomes([told EXCEPT !.f.writeBuffer = {}, !.f.tripped = TRUE])
  <2>1. /\ StateOK(told) /\ FileOK(told) /\ told.f \in FileType /\ told.l \in LoggerType
        /\ told.d \in DiskType /\ told = [l |-> told.l, f |-> told.f, d |-> told.d]
    BY <1>10 DEF Moved, StateOK, FileOK, StateType
  <2>2. PICK m \in FileType : m = [told.f EXCEPT !.writeBuffer = {}, !.tripped = TRUE]
    BY <2>1 DEF FileType
  <2>3. /\ m.writeBuffer = {} /\ m.flights = told.f.flights /\ m.written = told.f.written
        /\ m.gone = told.f.gone /\ m.botched = told.f.botched /\ m.size = told.f.size
    BY <2>1, <2>2 DEF FileType
  <2>4. PICK t : t = [told EXCEPT !.f.writeBuffer = {}, !.f.tripped = TRUE]
    OBVIOUS
  <2>5. t = [l |-> told.l, f |-> m, d |-> told.d] /\ t.l = told.l /\ t.f = m /\ t.d = told.d
    BY <2>1, <2>2, <2>4
  <2>6. t \in StateType
    BY <2>1, <2>5 DEF StateType
  <2>7. \A line, i : OldEnough(told, line, i) => OldEnough(t, line, i)
    BY <2>3, <2>5 DEF OldEnough
  <2>8. FileOK(t)
    BY <2>1, <2>3, <2>5, <2>6, <2>7 DEF FileOK
  <2>9. Moved(State, t)
    BY <1>10, <2>3, <2>5, <2>8 DEF Moved, StateOK
  <2> QED
    BY <1>13, <2>4, <2>9, MovedKeeps DEF AppendFails, LogInv
<1> QED
  BY <1>11, <1>12, <1>13

LEMMA LogInvImplies == LogInv => LinesAreKept
<1> SUFFICES ASSUME LogInv PROVE LinesAreKept
  OBVIOUS
<1>1. RotationKeepsRecent
  <2>1. PICK a \in Nat : a = Keep * PerFile
    BY Numbers
  <2>2. file.gone \in Nat /\ file.written \in Nat
    BY Parts DEF FileType
  <2>3. file.botched \/ file.gone = 0 \/ file.gone + a < file.written
    BY <2>1, Parts, StateIs DEF FileOK
  <2>4. a = Keep * (MaxSize - 1)
    BY <2>1 DEF PerFile
  <2>5. file.gone = 0 \/ file.botched \/ file.written - file.gone > a
    BY <2>2, <2>3
  <2> QED
    BY <2>4, <2>5 DEF RotationKeepsRecent
<1>2. ShutdownDrains
  BY DEF LogInv, Drained, ShutdownDrains
<1> QED
  BY <1>1, <1>2 DEF LinesAreKept

(* Rotation keeps the recent lines, whatever the appends under way do when *)
(* the files move, and a shutdown leaves nothing in a buffer that was       *)
(* logged before it, for all budgets, thresholds, sizes and numbers of      *)
(* files (Logger, LogBuffer, createFileTransport).                          *)
THEOREM LogKeepsLines == LogSpec => []LinesAreKept
<1>1. LogInit => LogInv
  BY LogInitOK
<1>2. LogInv /\ [LogNext]_logVars => LogInv'
  <2> SUFFICES ASSUME LogInv, [LogNext]_logVars PROVE LogInv'
    OBVIOUS
  <2>1. CASE UNCHANGED logVars
    BY <2>1, StutterOK
  <2>2. CASE LogNext
    BY <2>2, LogOK, LogToFileOK, ConfigureOK, FlushLoggerOK, ShutdownBeginsOK, MicrotaskOK,
       TimerTickOK, AppendOpensOK, AppendSucceedsOK, AppendFailsOK, ShutdownClosesOK,
       ShutdownEndsOK
    DEF LogNext, EventLoop
  <2> QED
    BY <2>1, <2>2
<1>3. LogInv => LinesAreKept
  BY LogInvImplies
<1> QED
  BY <1>1, <1>2, <1>3, PTL DEF LogSpec
=============================================================================
