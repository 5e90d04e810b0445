----------------------------- MODULE BullEvents -----------------------------
(***************************************************************************)
(* Request-response events over BullMQ (packages/bullmq/src/events): the   *)
(* provider's emit() and stop() (bullmq-event-provider.ts), the completion *)
(* tracker (completion-tracker.ts) and the queue manager with its workers  *)
(* (queue-manager.ts), in several processes that share Redis.              *)
(*                                                                         *)
(* One event, so one queue.  BullMQ is external: adding a job whose id     *)
(* exists changes nothing, finished jobs are retained, and every finished  *)
(* job is announced to the QueueEvents listeners that are connected.  The  *)
(* announcements that have not reached a process are kept as a set: an     *)
(* order among those of one job is not used.  An action runs from one      *)
(* await of the code to the next.                                          *)
(***************************************************************************)
EXTENDS Integers, FiniteSets

CONSTANTS
  Procs,
  Jobs,        \* job ids: idempotency keys, or the event id of an emission
  MaxRequests, \* bound: calls of emit()
  Timed,       \* the requests that have a timeout
  Attempts,    \* attempts of a job
  MaxStops,    \* bound: calls of stop() and crashes, together
  None

Requests == 1 .. MaxRequests

ASSUME RequestAssumption ==
  /\ MaxRequests \in Nat /\ MaxStops \in Nat
  /\ Timed \subseteq Requests
  /\ Attempts \in Nat \ {0}
  /\ None \notin Procs \union Jobs

VARIABLES
  job,      \* Redis, per job id: its state, the failed tries of an unfinished one, its worker
  life,     \* per process: where the provider stands between start() and stop()
  worker,   \* per process: has it a worker on the queue?
  listener, \* per process: the connection of its QueueEvents
  stream,   \* per process: announcements of finished jobs on their way
  request,  \* per request: the stage of its enqueue task, the job, what its subscription was
            \* told ("failed" is any rejection but a timeout), and the tracker's two entries
  stops     \* how often a process was stopped or crashed

vars == <<job, life, worker, listener, stream, request, stops>>

NoJob == [state |-> "none", tries |-> 0, by |-> None]
Unsent == [stage |-> "unsent", proc |-> None, key |-> None, outcome |-> "none",
           pending |-> FALSE, mapped |-> FALSE]

Init ==
  /\ job = [k \in Jobs |-> NoJob]
  /\ life = [p \in Procs |-> "running"]
  /\ worker = [p \in Procs |-> FALSE]
  /\ listener = [p \in Procs |-> "none"]
  /\ stream = [p \in Procs |-> {}]
  /\ request = [r \in Requests |-> Unsent]
  /\ stops = 0

Finished == {"completed", "failed"}

-----------------------------------------------------------------------------
(* The completion tracker. *)

\* complete() or fail() of one registration: without an entry in pending it does nothing,
\* and the job id stays mapped.
Settle(q, outcome) ==
  IF q.pending THEN [q EXCEPT !.outcome = outcome, !.pending = FALSE, !.mapped = FALSE] ELSE q

\* completeJob() or failJob(): every registration of the process attached to the job.
SettleJob(p, k, outcome) ==
  [r \in Requests |->
     IF request[r].proc = p /\ request[r].key = k /\ request[r].mapped
     THEN Settle(request[r], outcome)
     ELSE request[r]]

Timeout(r) ==
  /\ r \in Timed /\ request[r].pending
  /\ request' = [request EXCEPT ![r] = Settle(@, "timeout")]
  /\ UNCHANGED <<job, life, worker, listener, stream, stops>>

\* The "completed" or "failed" event of QueueEvents, or the worker's own "completed".
Hear(p, k, outcome) ==
  /\ <<k, outcome>> \in stream[p]
  /\ stream' = [stream EXCEPT ![p] = @ \ {<<k, outcome>>}]
  /\ request' = SettleJob(p, k, outcome)
  /\ UNCHANGED <<job, life, worker, listener, stops>>

Connect(p) ==
  /\ listener[p] = "connecting"
  /\ listener' = [listener EXCEPT ![p] = "ready"]
  /\ UNCHANGED <<job, life, worker, stream, request, stops>>

-----------------------------------------------------------------------------
(* emit(): registration and the enqueue task. *)

IsNext(r) ==
  request[r].stage = "unsent" /\ \A q \in 1 .. r - 1 : request[q].stage # "unsent"

\* register(): an entry in pending, with a timeout or without.
Registered(p, k) ==
  [stage |-> "connecting", proc |-> p, key |-> k, outcome |-> "pending",
   pending |-> TRUE, mapped |-> FALSE]

\* mapJobId(): several requests may wait for one job.
MapJobId(q) == [q EXCEPT !.mapped = TRUE]

\* The registration and the start of the task; a provider that stops, or has stopped,
\* fails it.
Emit(r, p, k) ==
  /\ IsNext(r) /\ life[p] # "crashed"
  /\ listener' = [listener EXCEPT ![p] = IF @ = "none" THEN "connecting" ELSE @]
  /\ request' = [request EXCEPT ![r] =
                   IF life[p] = "running" THEN Registered(p, k)
                   ELSE [Settle(Registered(p, k), "failed") EXCEPT !.stage = "done"]]
  /\ UNCHANGED <<job, life, worker, stream, stops>>

\* waitForCompletionOwnership() returns and the job id is mapped, timed out or not.
OwnsCompletions(r) ==
  /\ request[r].stage = "connecting" /\ listener[request[r].proc] = "ready"
  /\ request' = [request EXCEPT ![r] = MapJobId([@ EXCEPT !.stage = "adding"])]
  /\ UNCHANGED <<job, life, worker, listener, stream, stops>>

AddJob(r) ==
  LET k == request[r].key IN
  /\ request[r].stage = "adding"
  /\ job' = [job EXCEPT ![k] = IF @.state = "none" THEN [NoJob EXCEPT !.state = "waiting"] ELSE @]
  /\ request' = [request EXCEPT ![r].stage = "checking"]
  /\ UNCHANGED <<life, worker, listener, stream, stops>>

\* Mutant: the state of the job is not looked at after it was added.
SkipState(r) ==
  /\ request[r].stage = "checking"
  /\ request' = [request EXCEPT ![r].stage = "done"]
  /\ UNCHANGED <<job, life, worker, listener, stream, stops>>

\* job.getState()
ReadState(r) ==
  /\ request[r].stage = "checking"
  /\ LET state == job[request[r].key].state IN
       request' = [request EXCEPT ![r].stage = IF state \in Finished THEN state ELSE "done"]
  /\ UNCHANGED <<job, life, worker, listener, stream, stops>>

\* What was read is acted upon after another await: the job may be a new one by then.
ApplyState(r) ==
  LET q == request[r] IN
  /\ q.stage \in Finished
  /\ request' = [SettleJob(q.proc, q.key, q.stage) EXCEPT ![r].stage = "done"]
  /\ UNCHANGED <<job, life, worker, listener, stream, stops>>

\* Redis rejects one of the calls of the task.
EnqueueFails(r) ==
  /\ request[r].stage \in {"adding", "checking", "completed"}
  /\ request' = [request EXCEPT ![r] = [Settle(@, "failed") EXCEPT !.stage = "done"]]
  /\ UNCHANGED <<job, life, worker, listener, stream, stops>>

EnqueueStep(r) ==
  OwnsCompletions(r) \/ AddJob(r) \/ ReadState(r) \/ ApplyState(r) \/ EnqueueFails(r)

-----------------------------------------------------------------------------
(* Workers. *)

Subscribe(p) ==
  /\ life[p] = "running" /\ ~worker[p]
  /\ worker' = [worker EXCEPT ![p] = TRUE]
  /\ UNCHANGED <<job, life, listener, stream, request, stops>>

Take(p, k) ==
  /\ worker[p] /\ life[p] \in {"running", "stopping"}
  /\ job[k].state = "waiting"
  /\ job' = [job EXCEPT ![k].state = "active", ![k].by = p]
  /\ UNCHANGED <<life, worker, listener, stream, request, stops>>

\* A finished job is announced to the connected listeners; its own worker tells its
\* process of a completion directly (onCompleted).
Announce(k, outcome, by) ==
  stream' = [p \in Procs |->
               IF listener[p] = "ready" \/ (outcome = "completed" /\ p = by)
               THEN stream[p] \union {<<k, outcome>>}
               ELSE stream[p]]

HandlerReturns(p, k) ==
  /\ job[k].state = "active" /\ job[k].by = p
  /\ job' = [job EXCEPT ![k] = [NoJob EXCEPT !.state = "completed"]]
  /\ Announce(k, "completed", p)
  /\ UNCHANGED <<life, worker, listener, request, stops>>

HandlerThrows(p, k) ==
  LET final == job[k].tries + 1 >= Attempts IN
  /\ job[k].state = "active" /\ job[k].by = p
  /\ job' = [job EXCEPT ![k] = IF final THEN [NoJob EXCEPT !.state = "failed"]
                               ELSE [state |-> "waiting", tries |-> @.tries + 1, by |-> None]]
  /\ IF final THEN Announce(k, "failed", p) ELSE UNCHANGED stream
  /\ UNCHANGED <<life, worker, listener, request, stops>>

\* cancel(), and the sweep of stale waiting and failed jobs; an active job is locked.
RemoveJob(k) ==
  /\ job[k].state \notin {"none", "active"}
  /\ job' = [job EXCEPT ![k] = NoJob]
  /\ UNCHANGED <<life, worker, listener, stream, request, stops>>

-----------------------------------------------------------------------------
(* start(), stop() and crashes. *)

RequestsOf(p) == {r \in Requests : request[r].proc = p}

\* Mutant: the tasks that wait for the completion stream are not aborted.
StopBeginsPatiently(p) ==
  /\ life[p] = "running" /\ stops < MaxStops
  /\ stops' = stops + 1
  /\ life' = [life EXCEPT ![p] = "stopping"]
  /\ UNCHANGED <<job, worker, listener, stream, request>>

\* stop() raises its flag and aborts the tasks that wait for the completion stream.
StopBegins(p) ==
  /\ life[p] = "running" /\ stops < MaxStops
  /\ stops' = stops + 1
  /\ life' = [life EXCEPT ![p] = "stopping"]
  /\ request' = [r \in Requests |->
                   IF request[r].proc = p /\ request[r].stage = "connecting"
                   THEN [Settle(request[r], "failed") EXCEPT !.stage = "done"]
                   ELSE request[r]]
  /\ UNCHANGED <<job, worker, listener, stream>>

\* The enqueue tasks have settled; the workers take no more jobs.
CloseWorkers(p) ==
  /\ life[p] = "stopping"
  /\ \A r \in RequestsOf(p) : request[r].stage = "done"
  /\ life' = [life EXCEPT ![p] = "closing"]
  /\ UNCHANGED <<job, worker, listener, stream, request, stops>>

\* The active jobs have ended: the tracker rejects what is pending and closes.
StopTracker(p) ==
  /\ life[p] = "closing"
  /\ \A k \in Jobs : job[k].by # p
  /\ life' = [life EXCEPT ![p] = "stopped"]
  /\ worker' = [worker EXCEPT ![p] = FALSE]
  /\ request' = [r \in Requests |->
                   IF request[r].proc = p
                   THEN [Settle(request[r], "failed") EXCEPT !.mapped = FALSE] ELSE request[r]]
  /\ listener' = [listener EXCEPT ![p] = "none"]
  /\ stream' = [stream EXCEPT ![p] = {}]
  /\ UNCHANGED <<job, stops>>

\* start() after stop() has resolved.
Start(p) ==
  /\ life[p] = "stopped"
  /\ life' = [life EXCEPT ![p] = "running"]
  /\ UNCHANGED <<job, worker, listener, stream, request, stops>>

\* A process dies with its callers; BullMQ hands its stalled jobs to other workers.
Crash(p) ==
  /\ life[p] # "crashed" /\ stops < MaxStops
  /\ stops' = stops + 1
  /\ life' = [life EXCEPT ![p] = "crashed"]
  /\ worker' = [worker EXCEPT ![p] = FALSE]
  /\ listener' = [listener EXCEPT ![p] = "none"]
  /\ stream' = [stream EXCEPT ![p] = {}]
  /\ request' = [r \in Requests |->
                   IF request[r].proc = p
                   THEN [Settle(request[r], "failed") EXCEPT !.stage = "done", !.mapped = FALSE]
                   ELSE request[r]]
  /\ job' = [k \in Jobs |-> IF job[k].by = p THEN [job[k] EXCEPT !.state = "waiting", !.by = None]
                            ELSE job[k]]

StopStep(p) == CloseWorkers(p) \/ StopTracker(p)
HandlerSettles(p, k) == HandlerReturns(p, k) \/ HandlerThrows(p, k)

Next ==
  \/ \E r \in Requests :
       \/ \E p \in Procs, k \in Jobs : Emit(r, p, k)
       \/ EnqueueStep(r)
       \/ Timeout(r)
  \/ \E p \in Procs :
       \/ Connect(p) \/ Subscribe(p)
       \/ StopBegins(p) \/ StopStep(p) \/ Start(p) \/ Crash(p)
       \/ \E k \in Jobs :
            \/ Take(p, k) \/ HandlerSettles(p, k)
            \/ \E outcome \in Finished : Hear(p, k, outcome)
  \/ \E k \in Jobs : RemoveJob(k)

Spec == Init /\ [][Next]_vars

\* Timers fire, calls of Redis end, stop() goes on and handlers settle (an assumption on
\* the application).  Nothing is assumed of connecting, nor of announcements.
Fairness ==
  /\ WF_vars(\E r \in Requests : Timeout(r))
  /\ WF_vars(\E r \in Requests : EnqueueStep(r))
  /\ WF_vars(\E p \in Procs : StopStep(p))
  /\ WF_vars(\E p \in Procs, k \in Jobs : HandlerSettles(p, k))

FairSpec == Spec /\ Fairness

-----------------------------------------------------------------------------
(* Properties. *)

Stages == {"unsent", "connecting", "adding", "checking", "done"} \union Finished
Outcomes == {"none", "pending", "timeout"} \union Finished
Lives == {"running", "stopping", "closing", "stopped", "crashed"}

JobRecords ==
  [state : {"none", "waiting", "active"} \union Finished, tries : Nat, by : Procs \union {None}]
RequestRecords ==
  [stage : Stages, proc : Procs \union {None}, key : Jobs \union {None}, outcome : Outcomes,
   pending : BOOLEAN, mapped : BOOLEAN]

\* Types: what the requests, the workers, stop() and crashes leave in the maps and in Redis.
TypeOK ==
  /\ job \in [Jobs -> JobRecords]
  /\ life \in [Procs -> Lives]
  /\ worker \in [Procs -> BOOLEAN]
  /\ listener \in [Procs -> {"none", "connecting", "ready"}]
  /\ stream \in [Procs -> SUBSET (Jobs \X Finished)]
  /\ request \in [Requests -> RequestRecords]
  /\ stops \in 0 .. MaxStops

\* The tracker knows a request exactly while its caller waits, through timeouts, stops and
\* failures of the enqueue task, and a job id is only left mapped by a request that timed
\* out before its task was done. (register, complete, fail, mapJobId, stop)
TrackerAgrees ==
  \A r \in Requests :
    /\ request[r].pending <=> request[r].outcome = "pending"
    /\ request[r].mapped => request[r].pending \/ request[r].outcome = "timeout"

\* A request whose job has finished is answered or has the answer on its way: there is no
\* gap between the completion stream and the look at the job's state in emit(), not for a
\* duplicate of a job that finishes meanwhile or finished long ago either.
NoLostAnswer ==
  \A r \in Requests :
    LET q == request[r] IN
    q.pending /\ q.stage = "done" /\ job[q.key].state \in Finished
      => \E outcome \in Finished : <<q.key, outcome>> \in stream[q.proc]

\* Again and again nobody waits in vain.  A request with a timeout is settled, although
\* Redis, the workers or the job itself may be gone, and a finished job that emit() has
\* seen answers the others (register, emit).  stop() ends: it does not wait for a
\* completion stream that never connects, and handlers and calls of Redis end (stop,
\* waitForCompletionOwnership).
Answered == []<>(
  /\ \A r \in Requests :
       request[r].pending => r \notin Timed /\ request[r].stage \notin Finished
  /\ \A p \in Procs : life[p] \notin {"stopping", "closing"})

\* No job runs for, and no caller waits on, a provider whose stop() has ended: in-flight
\* events are completed or rejected first. (the order of stop())
StopIsOrderly ==
  \A p \in Procs : life[p] = "stopped" =>
    /\ \A k \in Jobs : job[k].by # p
    /\ \A r \in RequestsOf(p) : ~request[r].pending /\ request[r].stage = "done"

\* The books, the stream and stop() together: nobody who waits is forgotten.
CallersAreKnown == TrackerAgrees /\ NoLostAnswer /\ StopIsOrderly
=============================================================================
