---------------------------- MODULE BullWorkflow ----------------------------
(***************************************************************************)
(* Durable workflows over BullMQ (packages/bullmq/src/workflows):          *)
(* bullmq-workflow-provider.ts with flow-builder.ts, step-registry.ts and  *)
(* workflow-result-utils.ts, in several processes that share Redis.        *)
(*                                                                         *)
(* buildFlow() makes a chain of jobs, one per sequential step or parallel  *)
(* group, each the only child of the next, and the workflow's own job on   *)
(* top.  Only one job of the chain can run at a time, so the chain is one  *)
(* record: the place of that job and its state.  What getChildrenValues()  *)
(* gives a job are the results of the places before it.  BullMQ is         *)
(* external: it ignores a job whose id exists, retries a step up to        *)
(* Attempts times, fails the chain with its step, announces finished       *)
(* workflows, and hands the jobs of a dead worker to another.              *)
(***************************************************************************)
EXTENDS Integers, FiniteSets, Sequences

CONSTANTS
  Procs,
  Keyed,       \* job ids that are idempotency keys
  Unkeyed,     \* job ids that are flow ids
  MaxRequests, \* bound: calls of execute()
  MaxFlows,    \* bound: job ids in use
  Timed,       \* the requests with a timeout
  Groups,      \* per job id: the steps of each place of the chain, in the order of the definition
  Unhandled,   \* the steps for which the consumers, the same in every process, give no handler
  Undoable,    \* the steps with a rollback handler
  Slow,        \* of these, the steps that may outlast their timeout
  Attempts,    \* attempts of a step's job
  MaxStops,    \* bound: calls of stop() and crashes, together
  None

JobIds == Keyed \union Unkeyed
Requests == 1 .. MaxRequests
Top(k) == Len(Groups[k]) + 1      \* the place of the workflow's own job

StepsAt(k, g) ==
  IF g = Top(k) THEN {} ELSE {Groups[k][g][i] : i \in DOMAIN Groups[k][g]}
Steps(k) == UNION {StepsAt(k, g) : g \in DOMAIN Groups[k]}
AllSteps == UNION {Steps(k) : k \in JobIds}
PlaceOf == [k \in JobIds |-> [s \in Steps(k) |->
             CHOOSE g \in DOMAIN Groups[k] : s \in StepsAt(k, g)]]
IndexOf == [k \in JobIds |-> [s \in Steps(k) |->
             LET group == Groups[k][PlaceOf[k][s]] IN
             CHOOSE i \in DOMAIN group : group[i] = s]]

\* The job of a parallel group has a colon in its id if it has a key, which BullMQ refuses:
\* only workflows without parallel groups are executed with a key.
ASSUME WorkflowAssumption ==
  /\ MaxRequests \in Nat /\ MaxFlows \in Nat /\ MaxStops \in Nat
  /\ Attempts \in Nat \ {0} /\ Slow \subseteq Undoable
  /\ Keyed \cap Unkeyed = {} /\ Timed \subseteq Requests
  /\ None \notin Procs \union JobIds \union Requests
  /\ Groups \in [JobIds -> Seq(Seq(AllSteps))]
  /\ \A k \in JobIds : \A g, h \in DOMAIN Groups[k] :
       g # h => StepsAt(k, g) \cap StepsAt(k, h) = {}
  /\ \A k \in Keyed : \A g \in DOMAIN Groups[k] : Len(Groups[k][g]) = 1
  /\ Undoable \subseteq AllSteps /\ Unhandled \subseteq AllSteps

VARIABLES
  job,      \* Redis: the chain of a job id, and what its worker has done
  effect,   \* per job id and step that can be undone: what became of its effect
  ran,      \* per job id: how often the completion handler ran
  life,     \* per process: "running", "stopping", "stopped" or "crashed"
  listener, \* per process: the connection of its QueueEvents
  stream,   \* per process: announcements on their way
  request,  \* per request: the stage of execute(), its promise, status and timer
  pending,  \* pendingResults, per process and job id
  handle,   \* idempotentHandles, per process and key: the request that made the handle
  reader,   \* one call of getResult(), or of result() of a durable handle: its stage, whether
            \* the job it holds was read after its end, and what the caller is told
  stops

vars == <<job, effect, ran, life, listener, stream, request, pending, handle, reader, stops>>
redis == <<job, effect, ran>>
callers == <<request, pending, handle>>

NoJob == [state |-> "none", place |-> 1, tries |-> 0, stalls |-> 0, owner |-> None, by |-> None,
          phase |-> "idle", open |-> {}, ok |-> {}, undone |-> {}, lapsed |-> FALSE, loose |-> {}]
Unsent == [stage |-> "unsent", proc |-> None, key |-> None, promise |-> "none",
           status |-> "none", timer |-> "off"]
Unread == [stage |-> "idle", proc |-> None, key |-> None, ended |-> FALSE, told |-> "none"]

Init ==
  /\ job = [k \in JobIds |-> NoJob]
  /\ effect = [k \in JobIds |-> [s \in Undoable |-> "none"]]
  /\ ran = [k \in JobIds |-> 0]
  /\ life = [p \in Procs |-> "running"]
  /\ listener = [p \in Procs |-> "none"]
  /\ stream = [p \in Procs |-> {}]
  /\ request = [r \in Requests |-> Unsent]
  /\ pending = [p \in Procs |-> [k \in JobIds |-> None]]
  /\ handle = [p \in Procs |-> [k \in Keyed |-> None]]
  /\ reader \in {Unread, [Unread EXCEPT !.stage = "absent"]}
  /\ stops = 0

Finished == {"completed", "failed"}

\* The workers of a process, the steps' and the workflow's, are there from start() to stop().
HasWorkers(p) == life[p] = "running"

-----------------------------------------------------------------------------
(* Promises and the tables of a process. *)

\* A promise that settles clears its timer; a check that is under way goes on.
Settled(q, promise, status) ==
  [q EXCEPT !.promise = promise, !.status = IF @ = "none" THEN "none" ELSE status,
            !.timer = IF @ = "armed" THEN "off" ELSE @]

\* An event has taken the caller out of the table: a result is passed on at once, a failure
\* has yet to be loaded from Redis.
Notified(q, outcome) ==
  IF outcome = "completed" THEN Settled(q, "resolved", "completed")
  ELSE [q EXCEPT !.promise = "loading"]

-----------------------------------------------------------------------------
(* execute(). *)

\* Bound: where there is a reader there is one execution, and only there are local states
\* cleaned up and processes started again.
Alone == reader.stage # "absent"

\* Processes are alike: the first execution is always in the same one.
IsNext(r, p) ==
  /\ request[r].stage = "unsent" /\ \A q \in 1 .. r - 1 : request[q].stage # "unsent"
  /\ IF r = 1 THEN p = CHOOSE q \in Procs : TRUE ELSE ~Alone

\* The model's choice of a job id: a flow id is new, and no more than MaxFlows are in use.
MayAsk(k) ==
  LET used == {request[q].key : q \in Requests} \ {None} IN
  /\ k \in Unkeyed => k \notin used
  /\ Cardinality(used \union {k}) <= MaxFlows

Connecting(p) == [listener EXCEPT ![p] = IF @ = "none" THEN "connecting" ELSE @]

\* A new flow has its local state and the promise of its result before it has a job.
NewFlow(q) == [q EXCEPT !.stage = "connecting", !.promise = "pending", !.status = "pending"]

\* A key whose handle is known is answered at once, any other is first looked up in Redis.
ExecuteKeyed(r, p, k) ==
  /\ IsNext(r, p) /\ life[p] = "running" /\ k \in Keyed /\ MayAsk(k)
  /\ request' = [request EXCEPT ![r] =
       [Unsent EXCEPT !.proc = p, !.key = k,
                      !.stage = IF handle[p][k] = None THEN "looking" ELSE "joined"]]
  /\ UNCHANGED <<redis, life, listener, stream, pending, handle, reader, stops>>

Execute(r, p, k) ==
  /\ IsNext(r, p) /\ life[p] = "running" /\ k \in Unkeyed /\ MayAsk(k)
  /\ request' = [request EXCEPT ![r] =
       NewFlow([Unsent EXCEPT !.proc = p, !.key = k])]
  /\ listener' = Connecting(p)
  /\ UNCHANGED <<redis, life, stream, pending, handle, reader, stops>>

LooksUp(r) ==
  LET p == request[r].proc
      k == request[r].key
  IN /\ request[r].stage = "looking"
     /\ IF job[k].state # "none"
        THEN /\ request' = [request EXCEPT ![r].stage = "durable"]
             /\ UNCHANGED <<listener, handle>>
        ELSE /\ request' = [request EXCEPT ![r] = NewFlow(request[r])]
             /\ handle' = [handle EXCEPT ![p][k] = r]
             /\ listener' = Connecting(p)
     /\ UNCHANGED <<redis, life, stream, pending, reader, stops>>

\* Mutant: the result is registered after the job was added.
RegistersLate(r) ==
  /\ request[r].stage = "connecting" /\ listener[request[r].proc] = "ready"
  /\ request' = [request EXCEPT ![r].stage = "adding"]
  /\ UNCHANGED <<redis, life, listener, stream, pending, handle, reader, stops>>

\* The listener is there: registerPendingResult(), whoever is registered already.
Registers(r) ==
  /\ request[r].stage = "connecting" /\ listener[request[r].proc] = "ready"
  /\ request' = [request EXCEPT ![r].stage = "adding"]
  /\ pending' = [pending EXCEPT ![request[r].proc][request[r].key] = r]
  /\ UNCHANGED <<redis, life, listener, stream, handle, reader, stops>>

Adds(r) ==
  LET k == request[r].key IN
  /\ request[r].stage = "adding"
  /\ job' = [job EXCEPT ![k] =
       IF @.state = "none" THEN [NoJob EXCEPT !.state = "waiting", !.owner = r] ELSE @]
  /\ request' = [request EXCEPT ![r].stage = IF k \in Keyed THEN "verifying" ELSE "returning"]
  /\ UNCHANGED <<effect, ran, life, listener, stream, pending, handle, reader, stops>>

\* The job of a key is read again: an execution that lost the race takes back what it has
\* registered under the job id, and hands out a durable handle.
Verifies(r) ==
  LET p == request[r].proc
      k == request[r].key
  IN /\ request[r].stage = "verifying"
     /\ IF job[k].owner # r
        THEN /\ request' = [request EXCEPT ![r].stage = "durable", ![r].status = "none"]
             /\ pending' = [pending EXCEPT ![p][k] = None]
             /\ handle' = [handle EXCEPT ![p][k] = r]
        ELSE /\ request' = [request EXCEPT ![r].stage = "returning"]
             /\ UNCHANGED <<pending, handle>>
     /\ UNCHANGED <<redis, life, listener, stream, reader, stops>>

\* The flow is in the registry: the status becomes "running", whatever it was, and the
\* timer is armed unless the promise has settled.
Returns(r) ==
  LET q == request[r] IN
  /\ q.stage = "returning"
  /\ request' = [request EXCEPT ![r].stage = "returned",
       ![r].status = IF q.status = "none" THEN "none" ELSE "running",
       ![r].timer = IF r \in Timed /\ q.promise = "pending" THEN "armed" ELSE "off"]
  /\ UNCHANGED <<redis, life, listener, stream, pending, handle, reader, stops>>

\* A call of Redis fails: what is in the tables stays there.
ExecuteFails(r) ==
  /\ request[r].stage \in {"looking", "adding", "verifying"}
  /\ request' = [request EXCEPT ![r].stage = "threw"]
  /\ UNCHANGED <<redis, life, listener, stream, pending, handle, reader, stops>>

ExecuteStep(r) ==
  LooksUp(r) \/ Registers(r) \/ Adds(r) \/ Verifies(r) \/ Returns(r) \/ ExecuteFails(r)

Connect(p) ==
  /\ listener[p] = "connecting" /\ life[p] = "running"
  /\ listener' = [listener EXCEPT ![p] = "ready"]
  /\ UNCHANGED <<redis, life, stream, callers, reader, stops>>

-----------------------------------------------------------------------------
(* Timers and announcements. *)

\* checkRedisAndTimeout() looks for a job whose id is the flow id: a keyed flow is not
\* found, and neither is any if Redis fails.  Whether it saw the end of the flow, or none,
\* is acted upon later.
TimeoutFires(r) ==
  LET q == request[r] IN
  /\ q.timer = "armed"
  /\ \E seen \in
       {"none"} \union ({job[k].state : k \in Unkeyed \cap {q.key}} \cap Finished) :
       request' = [request EXCEPT ![r].timer =
         IF q.status \in {"pending", "running"} THEN seen ELSE "off"]
  /\ UNCHANGED <<redis, life, listener, stream, pending, handle, reader, stops>>

TimeoutActs(r) ==
  LET q == request[r]
      saw == request[r].timer
      live == request[r].status \in {"pending", "running"}
  IN /\ saw \notin {"off", "armed"}
     /\ IF pending[q.proc][q.key] = r /\ (saw = "completed" \/ (saw # "failed" /\ live))
        THEN /\ pending' = [pending EXCEPT ![q.proc][q.key] = None]
             /\ request' = [request EXCEPT ![r] =
                  [Settled(q, IF saw = "completed" THEN "resolved" ELSE "timeout",
                              IF saw = "completed" THEN "completed" ELSE "failed")
                   EXCEPT !.timer = "off"]]
        ELSE /\ request' = [request EXCEPT ![r].timer = "off"]
             /\ UNCHANGED pending
     /\ UNCHANGED <<redis, life, listener, stream, handle, reader, stops>>

\* The timer that a settlement by an announcement has set: the local state is dropped.
CleansUp(r) ==
  /\ Alone /\ request[r].promise \in {"resolved", "failed"} /\ request[r].status \in Finished
  /\ request' = [request EXCEPT ![r].status = "none"]
  /\ UNCHANGED <<redis, life, listener, stream, pending, handle, reader, stops>>

Told(outcome, ended) ==
  IF outcome = "failed" THEN "failed" ELSE IF ended THEN "value" ELSE "empty"

Tell(what) == [reader EXCEPT !.stage = "done", !.told = what]

\* The "completed" or "failed" event of QueueEvents, for the pending result and for a reader
\* that listens.
Hear(p, k, outcome) ==
  LET r == pending[p][k] IN
  /\ <<k, outcome>> \in stream[p]
  /\ stream' = [stream EXCEPT ![p] = @ \ {<<k, outcome>>}]
  /\ IF r = None THEN UNCHANGED <<request, pending>>
     ELSE /\ pending' = [pending EXCEPT ![p][k] = None]
          /\ request' = [request EXCEPT ![r] = Notified(request[r], outcome)]
  /\ reader' = IF reader.stage \in {"checking", "waiting"} /\ reader.proc = p /\ reader.key = k
               THEN Tell(Told(outcome, TRUE)) ELSE reader
  /\ UNCHANGED <<redis, life, listener, handle, stops>>

\* loadWorkflowFailure() has answered, or failed: the caller is told in any case, after a
\* stop() too.
Rejects(r) ==
  /\ request[r].promise = "loading"
  /\ request' = [request EXCEPT ![r] = Settled(request[r], "failed", "failed")]
  /\ UNCHANGED <<redis, life, listener, stream, pending, handle, reader, stops>>

Announce(k, outcome) ==
  stream' = [p \in Procs |->
               IF listener[p] = "ready" THEN stream[p] \union {<<k, outcome>>} ELSE stream[p]]

-----------------------------------------------------------------------------
(* Results for those who did not execute the flow. *)

\* The status of the flow in this process, if it was started here.
StatusAt(p, k) ==
  LET here == {r \in Requests \cap {job[k].owner} : request[r].proc = p} IN
  IF here = {} THEN "none" ELSE request[CHOOSE r \in here : TRUE].status

\* findJobByFlowId(): the registry of flows leads to the queue, or else a search of the
\* queues that the process knows; it knows this one.
Found(k) == job[k].state # "none"

\* getStatus(): what is known here, unless it is that the flow is pending, or else the state
\* of the job.
StatusOf(k) ==
  CASE job[k].state \in Finished -> job[k].state
    [] job[k].state \in {"waiting", "active", "failing"} -> "running"
    [] OTHER -> "pending"

GetStatus(p, k) ==
  IF StatusAt(p, k) \in {"none", "pending"} THEN StatusOf(k) ELSE StatusAt(p, k)

\* getResult() by flow id, or a durable handle by key: the job is fetched, ...
Reads(p, k) ==
  /\ reader.stage = "idle" /\ life[p] = "running"
  /\ request[1].stage \in {"returned", "abandoned", "threw"}
  /\ reader' = IF ~Found(k) THEN Tell("not found")
               ELSE [Unread EXCEPT !.stage = "fetched", !.proc = p, !.key = k,
                                   !.ended = job[k].state \in Finished]
  /\ UNCHANGED <<redis, life, listener, stream, callers, stops>>

\* ... then asked for its state: one that has not finished is waited for, once the
\* process listens.
ReadsState ==
  LET state == job[reader.key].state IN
  /\ reader.stage = "fetched"
  /\ IF state \in Finished THEN reader' = Tell(Told(state, reader.ended)) /\ UNCHANGED listener
     ELSE IF life[reader.proc] = "running"
     THEN /\ reader' = [reader EXCEPT !.stage = "connecting"]
          /\ listener' = Connecting(reader.proc)
     ELSE reader' = Tell("threw") /\ UNCHANGED listener
  /\ UNCHANGED <<redis, life, stream, callers, stops>>

\* waitForJobCompletion() listens before it asks for the state again.
Listens ==
  /\ reader.stage = "connecting" /\ listener[reader.proc] = "ready"
  /\ reader' = [reader EXCEPT !.stage = "checking"]
  /\ UNCHANGED <<redis, life, listener, stream, callers, stops>>

\* Mutant: it asks only before it listens.
DoesNotCheckState ==
  /\ reader.stage = "checking"
  /\ reader' = [reader EXCEPT !.stage = "waiting"]
  /\ UNCHANGED <<redis, life, listener, stream, callers, stops>>

\* The result of a job that has finished meanwhile is taken from the job that was fetched.
ChecksState ==
  LET state == job[reader.key].state IN
  /\ reader.stage = "checking"
  /\ reader' = IF state \in Finished THEN Tell(Told(state, reader.ended))
               ELSE [reader EXCEPT !.stage = "waiting"]
  /\ UNCHANGED <<redis, life, listener, stream, callers, stops>>

ReaderStep == ReadsState \/ Listens \/ ChecksState

-----------------------------------------------------------------------------
(* The worker of the steps. *)

Take(p, k) ==
  /\ HasWorkers(p) /\ job[k].state = "waiting" /\ job[k].place < Top(k)
  /\ job' = [job EXCEPT ![k].state = "active", ![k].by = p, ![k].phase = "steps",
                        ![k].open = StepsAt(k, job[k].place), ![k].ok = {}, ![k].undone = {}]
  /\ UNCHANGED <<effect, ran, life, listener, stream, callers, reader, stops>>

\* How a step's handler can settle; one that was aborted by its timeout counts as failed
\* even if it succeeds after all.
Outcomes(s) == {"applied", "none"} \union (IF s \in Slow THEN {"late"} ELSE {})

Leaves(k, s, how) ==
  effect' = IF how = "none" \/ s \notin Undoable THEN effect ELSE [effect EXCEPT ![k][s] = how]

\* The step, or the group, has a step that getStep() does not find.
Broken(k) == StepsAt(k, job[k].place) \cap Unhandled # {}

\* The steps of a group end in any order, and none is cut off by the failure of another.
StepEnds(k, s, how) ==
  /\ job[k].phase = "steps" /\ s \in job[k].open /\ ~Broken(k)
  /\ job' = [job EXCEPT ![k].open = @ \ {s},
                        ![k].ok = IF how = "applied" THEN @ \union {s} ELSE @]
  /\ Leaves(k, s, how)
  /\ UNCHANGED <<ran, life, listener, stream, callers, reader, stops>>

\* The job throws outside of what leads to rollbacks, onError and the report.
Lapses(k, left) ==
  job' = [job EXCEPT ![k].phase = "thrown", ![k].open = {}, ![k].lapsed = TRUE,
                     ![k].loose = @ \union ({job[k].by} \X left)]

\* A step has no handler: the others of its group were started and go on.
HandlerMissing(k) ==
  /\ job[k].phase = "steps" /\ Broken(k)
  /\ Lapses(k, StepsAt(k, job[k].place) \ Unhandled)
  /\ UNCHANGED <<effect, ran, life, listener, stream, callers, reader, stops>>

LooseEnds(k, x, how) ==
  /\ x \in job[k].loose
  /\ job' = [job EXCEPT ![k].loose = @ \ {x}]
  /\ Leaves(k, x[2], how)
  /\ UNCHANGED <<ran, life, listener, stream, callers, reader, stops>>

AllOk(k) == job[k].ok = StepsAt(k, job[k].place)

GroupEnded(k) == job[k].phase = "steps" /\ job[k].open = {}

\* The results are stored and the next job of the chain may run.
StepCompletes(k) ==
  /\ GroupEnded(k) /\ AllOk(k)
  /\ job' = [job EXCEPT ![k] = [NoJob EXCEPT !.state = "waiting", !.owner = job[k].owner,
                                !.place = job[k].place + 1, !.stalls = job[k].stalls]]
  /\ UNCHANGED <<effect, ran, life, listener, stream, callers, reader, stops>>

\* A failure is looked at when every step of the group has ended.
GroupFailed(k) == GroupEnded(k) /\ ~AllOk(k)

\* Mutant: the steps of the group that did succeed are not among the results.
PriorSteps(k) ==
  {s \in Undoable \cap Steps(k) : PlaceOf[k][s] < job[k].place} \ job[k].undone

\* The rollbacks still to run: the steps of earlier places, and of a parallel group those
\* that succeeded.
ToUndo(k) ==
  {s \in Undoable \cap Steps(k) : PlaceOf[k][s] < job[k].place \/ s \in job[k].ok}
    \ job[k].undone

\* s comes after t in the definition, and so in the results.
After(k, s, t) ==
  \/ PlaceOf[k][s] > PlaceOf[k][t]
  \/ PlaceOf[k][s] = PlaceOf[k][t] /\ IndexOf[k][s] > IndexOf[k][t]

\* Redis does not give the results of the earlier places, which a job asks for before it
\* runs its steps, and that of a single step once more before the rollbacks.
ReadFails(k) ==
  /\ job[k].phase = "steps" /\ job[k].undone = {}
  /\ \/ job[k].open = StepsAt(k, job[k].place)
     \/ GroupFailed(k) /\ Len(Groups[k][job[k].place]) = 1
  /\ Lapses(k, {})
  /\ UNCHANGED <<effect, ran, life, listener, stream, callers, reader, stops>>

\* A rollback ends, or throws: the next one runs anyway.
RollbackEnds(k, s) ==
  /\ GroupFailed(k)
  /\ s \in ToUndo(k) /\ \A t \in ToUndo(k) \ {s} : After(k, s, t)
  /\ job' = [job EXCEPT ![k].undone = @ \union {s}]
  /\ effect' = [effect EXCEPT ![k][s] = "undone"]
  /\ UNCHANGED <<ran, life, listener, stream, callers, reader, stops>>

\* rejectPendingByFlowId(): the timer goes even if there is nobody to tell.
Rejected(q, waits) ==
  [q EXCEPT !.status = IF @ = "none" THEN "none" ELSE "failed",
            !.promise = IF waits THEN "reported" ELSE @,
            !.timer = IF @ = "armed" THEN "off" ELSE @]

\* onError was called: the caller, if it is here, is told, however many attempts are left.
StepReports(k) ==
  LET r == job[k].owner IN
  /\ GroupFailed(k) /\ ToUndo(k) = {}
  /\ job' = [job EXCEPT ![k].phase = "thrown"]
  /\ IF request[r].proc # job[k].by THEN UNCHANGED <<request, pending>>
     ELSE /\ pending' = [p \in Procs |-> [i \in JobIds |->
                           IF pending[p][i] = r THEN None ELSE pending[p][i]]]
          /\ request' = [request EXCEPT ![r] =
               Rejected(request[r], pending[request[r].proc][k] = r)]
  /\ UNCHANGED <<effect, ran, life, listener, stream, handle, reader, stops>>

\* BullMQ retries the job of the step or fails it.
StepFails(k) ==
  LET final == job[k].tries + 1 >= Attempts IN
  /\ job[k].phase = "thrown" /\ job[k].place < Top(k)
  /\ job' = [job EXCEPT ![k] =
       [NoJob EXCEPT !.state = IF final THEN "failing" ELSE "waiting",
                     !.tries = IF final THEN 0 ELSE job[k].tries + 1,
                     !.owner = job[k].owner, !.place = job[k].place, !.stalls = job[k].stalls,
                     !.lapsed = final /\ job[k].lapsed, !.loose = job[k].loose]]
  /\ UNCHANGED <<effect, ran, life, listener, stream, callers, reader, stops>>

\* failParentOnFailure: the workflow's own job fails.
Cascade(k) ==
  /\ job[k].state = "failing"
  /\ job' = [job EXCEPT ![k].state = "failed"]
  /\ Announce(k, "failed")
  /\ UNCHANGED <<effect, ran, life, listener, callers, reader, stops>>

-----------------------------------------------------------------------------
(* The worker of the workflow's own job. *)

\* Mutant: the handler is skipped unless the status is known to be "running".
TakeWorkflowUnlessPending(p, k) ==
  /\ HasWorkers(p) /\ job[k].state = "waiting" /\ job[k].place = Top(k)
  /\ job' = [job EXCEPT ![k].state = "active", ![k].by = p,
       ![k].phase = IF StatusAt(p, k) \in {"failed", "pending"} THEN "skipped" ELSE "handler"]
  /\ UNCHANGED <<effect, ran, life, listener, stream, callers, reader, stops>>

\* A flow that has failed for its caller here is completed without its handler.
TakeWorkflow(p, k) ==
  /\ HasWorkers(p) /\ job[k].state = "waiting" /\ job[k].place = Top(k)
  /\ job' = [job EXCEPT ![k].state = "active", ![k].by = p,
       ![k].phase = IF StatusAt(p, k) = "failed" THEN "skipped" ELSE "handler"]
  /\ UNCHANGED <<effect, ran, life, listener, stream, callers, reader, stops>>

HandlerReturns(k) ==
  /\ job[k].phase = "handler"
  /\ job' = [job EXCEPT ![k].phase = "returned"]
  /\ ran' = [ran EXCEPT ![k] = @ + 1]
  /\ UNCHANGED <<effect, life, listener, stream, callers, reader, stops>>

\* ... or Redis does not give it the results of the steps, before it runs.
HandlerThrows(k) ==
  LET r == job[k].owner IN
  /\ job[k].phase = "handler"
  /\ job' = [job EXCEPT ![k].phase = "thrown"]
  /\ ran' \in {ran, [ran EXCEPT ![k] = @ + 1]}
  /\ request' = IF StatusAt(job[k].by, k) = "none" THEN request
                ELSE [request EXCEPT ![r].status = "failed"]
  /\ UNCHANGED <<effect, life, listener, stream, pending, handle, reader, stops>>

\* The workflow's own job has one attempt.
WorkflowEnds(k) ==
  LET outcome == IF job[k].phase = "thrown" THEN "failed" ELSE "completed" IN
  /\ job[k].place = Top(k) /\ job[k].phase \in {"skipped", "returned", "thrown"}
  /\ job[k].state = "active"
  /\ job' = [job EXCEPT ![k].state = outcome, ![k].by = None]
  /\ Announce(k, outcome)
  /\ UNCHANGED <<effect, ran, life, listener, callers, reader, stops>>

-----------------------------------------------------------------------------
(* stop() and crashes. *)

\* The listeners that are still connecting are closed, and their executions throw.
StopBegins(p) ==
  /\ life[p] = "running" /\ stops < MaxStops
  /\ stops' = stops + 1
  /\ life' = [life EXCEPT ![p] = "stopping"]
  /\ request' = [r \in Requests |->
       IF request[r].proc = p /\ request[r].stage = "connecting" /\ listener[p] = "connecting"
       THEN [request[r] EXCEPT !.stage = "threw"] ELSE request[r]]
  /\ reader' = IF reader.proc = p /\ reader.stage = "connecting" /\ listener[p] = "connecting"
               THEN Tell("threw") ELSE reader
  /\ UNCHANGED <<redis, listener, stream, pending, handle>>

\* What a process forgets when it stops or dies; only if it dies does it not go on with the
\* failure that it loads for a caller.
Gone(p, q, how) ==
  IF q.proc # p THEN q
  ELSE [q EXCEPT !.status = "none", !.timer = "off",
          !.promise = IF @ = "loading" /\ how = "crashed" THEN "pending" ELSE @,
          !.stage = CASE @ \in {"looking", "connecting", "adding"} -> "threw"
                      [] @ \in {"verifying", "returning", "returned"} -> "abandoned"
                      [] OTHER -> @]

Vanishes(p, how) ==
  /\ life' = [life EXCEPT ![p] = how]
  /\ listener' = [listener EXCEPT ![p] = "none"]
  /\ stream' = [stream EXCEPT ![p] = {}]
  /\ request' = [r \in Requests |-> Gone(p, request[r], how)]
  /\ pending' = [pending EXCEPT ![p] = [k \in JobIds |-> None]]
  /\ handle' = [handle EXCEPT ![p] = [k \in Keyed |-> None]]
  /\ reader' = IF reader.proc = p /\ reader.stage # "done"
               THEN [reader EXCEPT !.stage = "abandoned"] ELSE reader

\* No worker of the process has a job: those it had have completed or failed.
Drained(p) == \A k \in JobIds : job[k].by # p

\* The active jobs have ended: listeners, timers and tables are cleared.
StopEnds(p) ==
  /\ life[p] = "stopping" /\ Drained(p)
  /\ Vanishes(p, "stopped")
  /\ UNCHANGED <<redis, stops>>

Crash(p) ==
  /\ life[p] \in {"running", "stopping"} /\ stops < MaxStops
  /\ stops' = stops + 1
  /\ Vanishes(p, "crashed")
  /\ job' = [k \in JobIds |->
       LET alive == {x \in job[k].loose : x[1] # p} IN
       IF job[k].by # p THEN [job[k] EXCEPT !.loose = alive]
       ELSE [NoJob EXCEPT !.state = "waiting", !.tries = job[k].tries, !.owner = job[k].owner,
                          !.place = job[k].place, !.stalls = job[k].stalls + 1, !.loose = alive]]
  /\ UNCHANGED <<effect, ran>>

\* start(), or a new process: the queues' workers are made again.
Start(p) ==
  /\ Alone /\ life[p] \in {"stopped", "crashed"}
  /\ life' = [life EXCEPT ![p] = "running"]
  /\ UNCHANGED <<redis, listener, stream, callers, reader, stops>>

-----------------------------------------------------------------------------
\* What Redis does once a worker is through with a job.
JobSettles(k) == StepCompletes(k) \/ StepReports(k) \/ StepFails(k) \/ Cascade(k) \/ WorkflowEnds(k)

Next ==
  \/ \E r \in Requests :
       \/ \E p \in Procs, k \in JobIds : ExecuteKeyed(r, p, k) \/ Execute(r, p, k)
       \/ ExecuteStep(r) \/ TimeoutFires(r) \/ TimeoutActs(r) \/ Rejects(r) \/ CleansUp(r)
  \/ ReaderStep
  \/ \E p \in Procs :
       \/ Connect(p) \/ StopBegins(p) \/ StopEnds(p) \/ Crash(p) \/ Start(p)
       \/ \E k \in JobIds : Take(p, k) \/ TakeWorkflow(p, k) \/ Reads(p, k)
       \/ \E a \in stream[p] : Hear(p, a[1], a[2])
  \/ \E k \in JobIds :
       \/ JobSettles(k) \/ HandlerReturns(k) \/ HandlerThrows(k)
       \/ HandlerMissing(k) \/ ReadFails(k)
       \/ \E s \in AllSteps :
            RollbackEnds(k, s) \/ \E how \in Outcomes(s) : StepEnds(k, s, how)
       \/ \E x \in job[k].loose : \E how \in Outcomes(x[2]) : LooseEnds(k, x, how)

Spec == Init /\ [][Next]_vars

\* Timers fire, calls of Redis end and announcements arrive; handlers may run for ever.
Fairness == WF_vars(
  \/ \E r \in Requests : TimeoutFires(r) \/ ExecuteStep(r) \/ TimeoutActs(r) \/ Rejects(r)
  \/ \E k \in JobIds : JobSettles(k)
  \/ ReaderStep
  \/ \E p \in Procs : \E a \in stream[p] : Hear(p, a[1], a[2]))

FairSpec == Spec /\ Fairness

-----------------------------------------------------------------------------
(* Properties. *)

JobStates == {"none", "waiting", "active", "failing"} \union Finished

JobRecords ==
  [state : JobStates, place : Nat, tries : Nat, stalls : Nat, owner : Requests \union {None},
   by : Procs \union {None},
   phase : {"idle", "steps", "thrown", "handler", "skipped", "returned"},
   open : SUBSET AllSteps, ok : SUBSET AllSteps, undone : SUBSET AllSteps,
   lapsed : BOOLEAN, loose : SUBSET (Procs \X AllSteps)]
\* A promise is rejected by the announcement ("failed"), the report of a step or the timer.
RequestRecords ==
  [stage : {"unsent", "looking", "joined", "durable", "connecting", "adding", "verifying",
            "returning", "returned", "threw", "abandoned"},
   proc : Procs \union {None}, key : JobIds \union {None},
   promise : {"none", "pending", "loading", "resolved", "failed", "reported", "timeout"},
   status : {"none", "pending", "running"} \union Finished,
   timer : {"off", "armed", "none"} \union Finished]
ReaderRecords ==
  [stage : {"idle", "absent", "fetched", "connecting", "checking", "waiting", "done", "abandoned"},
   proc : Procs \union {None}, key : JobIds \union {None}, ended : BOOLEAN,
   told : {"none", "not found", "failed", "value", "empty", "threw"}]

\* Types: what executions, workers, stop() and crashes leave in the tables and in Redis.
TypeOK ==
  /\ job \in [JobIds -> JobRecords]
  /\ effect \in [JobIds -> [Undoable -> {"none", "applied", "late", "undone"}]]
  /\ ran \in [JobIds -> Nat]
  /\ life \in [Procs -> {"running", "stopping", "stopped", "crashed"}]
  /\ listener \in [Procs -> {"none", "connecting", "ready"}]
  /\ stream \in [Procs -> SUBSET (JobIds \X Finished)]
  /\ request \in [Requests -> RequestRecords]
  /\ pending \in [Procs -> [JobIds -> Requests \union {None}]]
  /\ handle \in [Procs -> [Keyed -> Requests \union {None}]]
  /\ reader \in ReaderRecords
  /\ stops \in 0 .. MaxStops

\* The last attempt of the step that failed threw outside the compensation, for want of a
\* handler or of the results of the steps before it: the code undoes nothing and calls no
\* onError, although some steps may have had their effect.
Lapsed(k) == job[k].lapsed

\* A flow that failed at a step has undone what its steps did, the earlier places and the
\* other steps of a parallel group, whichever processes ran them and however often the
\* step was tried.  Excepted are a flow whose last attempt lapsed; one with a worker that
\* died, which takes the list of what to undo with it; and a step that outlived its
\* timeout, which is not on the list.
FailedIsCompensated ==
  \A k \in JobIds :
    job[k].state = "failed" /\ job[k].place < Top(k) /\ job[k].stalls = 0 /\ ~Lapsed(k)
      => \A s \in Undoable : effect[k][s] # "applied"

\* Two executions in one process that both looked the key up before either had made a
\* handle.
Raced(r) ==
  \E q \in Requests \ {r} :
    /\ request[q].proc = request[r].proc /\ request[q].key = request[r].key
    /\ "none" \notin {request[q].promise, request[r].promise}

\* The completion handler runs once, and once more only for a worker that died; a flow
\* completes without it only if its caller has been told that it failed; and no process
\* reports a flow as completed, by getStatus(), before it is.
CompletionRuns ==
  \A k \in JobIds :
    /\ ran[k] <= 1 + job[k].stalls
    /\ \A p \in Procs : GetStatus(p, k) = "completed" => job[k].state = "completed"
    /\ job[k].state = "completed" /\ ran[k] = 0
         => \/ request[job[k].owner].promise \in {"failed", "reported", "timeout"}
            \/ Raced(job[k].owner)

\* pendingResults holds exactly the callers that nobody has begun to tell: an execution that
\* has registered is found under its job id until its promise settles or its failure is
\* loaded, in every order of announcements, timeouts, reports of steps and lost races; who
\* waits for that and is in no table any more has a flow that did fail.
CallersAreTracked ==
  /\ \A r \in Requests :
       LET q == request[r] IN
       /\ q.stage \in {"adding", "verifying", "returning", "returned"} /\ ~Raced(r)
            => (q.promise = "pending" <=> pending[q.proc][q.key] = r)
       /\ q.promise = "loading" => job[q.key].state = "failed"
  /\ \A p \in Procs, k \in JobIds :
       pending[p][k] # None =>
         /\ request[pending[p][k]].proc = p /\ request[pending[p][k]].key = k
         /\ request[pending[p][k]].promise = "pending"

\* A caller with a timeout is told something, in a process that stays up; and a reader that
\* listens when the flow has finished, or listens when it finishes, is told how it ended, in
\* every order of its look at the state, the end of the flow and the announcement: only a
\* stop() or a crash of its own process leaves it without an answer.
Answered == []<>(
  /\ \A r \in Timed :
       request[r].stage = "returned" =>
         request[r].promise \notin {"pending", "loading"} \/ Raced(r)
  /\ \A k \in JobIds : reader.key = k /\ job[k].state \in Finished =>
       /\ reader.stage \notin {"checking", "waiting"}
       /\ reader.told \in {"failed", "value", "empty"} =>
            (reader.told = "failed" <=> job[k].state = "failed"))
=============================================================================
