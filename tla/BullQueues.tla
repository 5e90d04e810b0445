------------------------------ MODULE BullQueues ------------------------------
(***************************************************************************)
(* The parts of the BullMQ event provider that BullEvents leaves out       *)
(* (packages/bullmq/src/events): fire-and-forget emissions with an         *)
(* idempotency key and the receipts of their completion, the retirement of *)
(* a key, cancel(), the replacement of a worker, stop(), and the recurring *)
(* schedules of scheduled-event-manager.ts.                                *)
(*                                                                         *)
(* One event, so one queue.  The calls of all processes meet in Redis: the *)
(* jobs, two keys per idempotency key (`receipt` and `retired`) and the    *)
(* schedulers.  A call is a record that an action takes from one command   *)
(* to the next; a command and the arrival of its answer are one action,    *)
(* because nothing else of the call can happen in between.  BullMQ is      *)
(* external: adding a job whose id exists changes nothing, a finished job  *)
(* may be retained or removed, and a job whose worker died waits again.    *)
(***************************************************************************)
EXTENDS Integers, FiniteSets

CONSTANTS
  Procs,
  Keys,      \* idempotency keys, which are the ids of the jobs
  Ids,       \* ids of schedules
  Options,   \* what a schedule can be: crons and intervals
  BadOptions,\* the options that schedule() refuses
  Attempts,  \* attempts of a job
  MaxWorkers,\* bound: the workers that registrations create
  Budgets,   \* bound: how many calls of each kind a behaviour has, and how much may fail
  None

Workers == 1 .. MaxWorkers

\* What a budget counts: the calls of each kind, and crashes, failures and sweeps.
Kinds == {"emit", "retire", "cancel", "register", "schedule", "unschedule",
          "stop", "crash", "fail", "sweep"}

ASSUME QueueAssumption ==
  /\ Procs # {}
  /\ Attempts \in Nat \ {0}
  /\ BadOptions \subseteq Options
  /\ MaxWorkers \in Nat
  /\ Budgets \subseteq [Kinds -> Nat]
  /\ None \notin Procs \union Keys \union Ids \union Options \union Workers

VARIABLES
  job,       \* Redis: per key the job, the worker that has it and how far its handler is
  receipt,   \* Redis: the keys whose completion was recorded
  retired,   \* Redis: per key the state of its retirement, "no", "1" or "2"
  scheduler, \* Redis: per schedule id its options
  life,      \* per process: where the provider stands in stop(), and the worker it waits for
  queue,     \* per process: its connection to the queue
  worker,    \* per worker: its process, its own state and that of its registration
  current,   \* per process: the worker that registerWorker() keeps
  book,      \* per process: the schedules the manager knows
  calls,     \* the calls of emit(), cancel(), schedule() ... under way
  left,      \* what is left of the budget
  cycle,     \* history, per key: recorded, retired and run again since it was last free
  astray     \* history: schedules whose calls overlapped, failed or lost their process
redis == <<job, receipt, retired, scheduler>>
kept == <<worker, current, book>>
vars == <<redis, life, queue, kept, calls, left, cycle, astray>>

NoJob == [state |-> "none", tries |-> 0, by |-> None, stage |-> "idle", late |-> FALSE]
NoWorker == [proc |-> None, state |-> "none", registration |-> "none", replaces |-> None]
Running == [stage |-> "running", waits |-> None]
NoBook == [i \in Ids |-> None]
Fresh == [recorded |-> FALSE, finalized |-> FALSE, rerun |-> FALSE]

Init ==
  /\ job = [k \in Keys |-> NoJob]
  /\ receipt = {}
  /\ retired = [k \in Keys |-> "no"]
  /\ scheduler = [i \in Ids |-> None]
  /\ life = [p \in Procs |-> Running]
  /\ queue = [p \in Procs |-> "none"]
  /\ worker = [w \in Workers |-> NoWorker]
  /\ current = [p \in Procs |-> None]
  /\ book = [p \in Procs |-> NoBook]
  /\ calls = {}
  /\ left \in Budgets
  /\ cycle = [k \in Keys |-> Fresh]
  /\ astray = {}

-----------------------------------------------------------------------------
(* Calls.                                                                  *)

\* A call of the given kind begins; getQueue() has made the queue's connection.
Begin(p, kind, stage, about, options) ==
  /\ left[kind] > 0
  /\ left' = [left EXCEPT ![kind] = @ - 1]
  /\ queue' = [queue EXCEPT ![p] = IF @ = "none" THEN "open" ELSE @]
  /\ calls' = calls \union {[kind |-> kind, nth |-> left[kind], proc |-> p, stage |-> stage,
                             about |-> about, options |-> options, late |-> FALSE]}

\* The call goes on to its next command; it asks getQueue() again.
Proceed(c, stage) ==
  /\ calls' = (calls \ {c}) \union {[c EXCEPT !.stage = stage]}
  /\ queue' = [queue EXCEPT ![c.proc] = IF @ = "none" THEN "open" ELSE @]

\* A call resolves or rejects.
Return(c) == calls' = calls \ {c} /\ UNCHANGED queue

\* A command reaches Redis over a queue that has not been closed.
Reaches(c) == c \in calls /\ queue[c.proc] = "open"

\* A command fails: its queue was closed, or Redis does not answer.
CallFails(c) ==
  /\ \/ queue[c.proc] # "open" /\ UNCHANGED left
     \/ left["fail"] > 0 /\ left' = [left EXCEPT !["fail"] = @ - 1]
  /\ astray' = IF c.kind \in {"schedule", "unschedule"} THEN astray \union {c.about} ELSE astray
  /\ Return(c)
  /\ UNCHANGED <<redis, life, kept, cycle>>

-----------------------------------------------------------------------------
(* emit() without an expected result, and the receipt of a completion.     *)

Emit(p, k) ==
  /\ Begin(p, "emit", "checking", k, None)
  /\ UNCHANGED <<redis, life, kept, cycle, astray>>

HasCompletionReceipt(k) == k \in receipt \/ retired[k] # "no"

\* The subscription of a key that has a receipt, or is being retired, resolves at once.
CheckReceipt(c) ==
  /\ Reaches(c) /\ c.kind = "emit" /\ c.stage = "checking"
  /\ IF HasCompletionReceipt(c.about) THEN Return(c) ELSE Proceed(c, "adding")
  /\ UNCHANGED <<redis, life, kept, left, cycle, astray>>

Complete(k) == cycle[k].recorded /\ cycle[k].finalized

\* A key begins a new cycle when neither of its two keys is in Redis any more.
CycleEnds(k) == Complete(k) /\ ~HasCompletionReceipt(k)

AddJob(c) ==
  /\ Reaches(c) /\ c.kind = "emit" /\ c.stage = "adding"
  /\ job' = IF job[c.about].state # "none" THEN job
            ELSE [job EXCEPT ![c.about] = [NoJob EXCEPT !.state = "waiting", !.late = c.late]]
  /\ cycle' = IF job[c.about].state = "none" /\ CycleEnds(c.about)
              THEN [cycle EXCEPT ![c.about] = Fresh] ELSE cycle
  /\ Return(c)
  /\ UNCHANGED <<receipt, retired, scheduler, life, kept, left, astray>>

\* A worker takes a job and runs its handler.
Take(w, k) ==
  /\ worker[w].state = "open" /\ job[k].state = "waiting"
  /\ \A x \in Keys : job[x].by # w
  /\ job' = [job EXCEPT ![k].state = "active", ![k].by = w, ![k].stage = "handling"]
  /\ cycle' = [cycle EXCEPT ![k].rerun = @ \/ cycle[k].recorded]
  /\ UNCHANGED <<receipt, retired, scheduler, life, queue, kept, calls, left, astray>>

\* The handler has ended: the command that records its receipt is next.
HandlerReturns(k) ==
  /\ job[k].state = "active" /\ job[k].stage = "handling"
  /\ job' = [job EXCEPT ![k].stage = "handled"]
  /\ queue' = [queue EXCEPT ![worker[job[k].by].proc] = IF @ = "none" THEN "open" ELSE @]
  /\ UNCHANGED <<receipt, retired, scheduler, life, kept, calls, left, cycle, astray>>

\* Mutant: the script does not look at the state of the retirement.
RecordReceiptAlways(k) ==
  /\ job[k].stage = "handled"
  /\ queue[worker[job[k].by].proc] = "open"
  /\ receipt' = receipt \union {k}
  /\ job' = [job EXCEPT ![k].stage = "recorded"]
  /\ cycle' = [cycle EXCEPT ![k].recorded = TRUE]
  /\ calls' = {IF c.kind = "emit" /\ c.stage = "adding" /\ c.about = k
               THEN [c EXCEPT !.late = TRUE] ELSE c : c \in calls}
  /\ UNCHANGED <<retired, scheduler, life, queue, kept, left, astray>>

\* recordCompletionReceipt(): one script, so one step.  A key whose retirement was finalized
\* before its completion gets no receipt and is free again.
RecordReceipt(k) ==
  /\ job[k].stage = "handled"
  /\ queue[worker[job[k].by].proc] = "open"
  /\ receipt' = IF retired[k] = "2" THEN receipt ELSE receipt \union {k}
  /\ retired' = IF retired[k] = "2" THEN [retired EXCEPT ![k] = "no"] ELSE retired
  /\ job' = [job EXCEPT ![k].stage = "recorded"]
  /\ cycle' = [cycle EXCEPT ![k].recorded = TRUE]
  /\ calls' = {IF c.kind = "emit" /\ c.stage = "adding" /\ c.about = k
               THEN [c EXCEPT !.late = TRUE] ELSE c : c \in calls}
  /\ UNCHANGED <<scheduler, life, queue, kept, left, astray>>

\* BullMQ finishes the job, and keeps it or removes it (removeOnComplete).
JobCompletes(k) ==
  /\ job[k].stage = "recorded"
  /\ \/ job' = [job EXCEPT ![k] = [NoJob EXCEPT !.state = "completed"]]
     \/ job' = [job EXCEPT ![k] = NoJob]
  /\ UNCHANGED <<receipt, retired, scheduler, life, queue, kept, calls, left, cycle, astray>>

\* The handler throws, or the command of the receipt fails: the job is tried again, or fails.
HandlerThrows(k) ==
  /\ \/ job[k].stage \in {"handling", "handled"} /\ left["fail"] > 0
        /\ left' = [left EXCEPT !["fail"] = @ - 1]
     \/ job[k].stage = "handled" /\ queue[worker[job[k].by].proc] # "open" /\ UNCHANGED left
  /\ job' = [job EXCEPT ![k] = [NoJob EXCEPT
               !.state = IF job[k].tries + 1 < Attempts THEN "waiting" ELSE "failed",
               !.tries = job[k].tries + 1, !.late = job[k].late]]
  /\ UNCHANGED <<receipt, retired, scheduler, life, queue, kept, calls, cycle, astray>>

\* The sweep of an event with a time to live removes jobs that wait or have failed.
SweepStaleJobs(k) ==
  /\ left["sweep"] > 0 /\ job[k].state \in {"waiting", "failed"}
  /\ left' = [left EXCEPT !["sweep"] = @ - 1]
  /\ job' = [job EXCEPT ![k] = NoJob]
  /\ UNCHANGED <<receipt, retired, scheduler, life, queue, kept, calls, cycle, astray>>

EmitStep ==
  \/ \E p \in Procs, k \in Keys : Emit(p, k)
  \/ \E c \in calls : CheckReceipt(c) \/ AddJob(c)
  \/ \E k \in Keys :
        \/ HandlerReturns(k)
        \/ RecordReceipt(k)
        \/ JobCompletes(k)
        \/ HandlerThrows(k)
        \/ SweepStaleJobs(k)
  \/ \E w \in Workers, k \in Keys : Take(w, k)

-----------------------------------------------------------------------------
(* Retirement and cancel().                                                *)

\* A key is retired in two calls, with the caller's own work between them.
Retire(p, k) ==
  /\ Begin(p, "retire", "preparing", k, None)
  /\ UNCHANGED <<redis, life, kept, cycle, astray>>

PrepareRetirement(c) ==
  /\ Reaches(c) /\ c.kind = "retire" /\ c.stage = "preparing"
  /\ retired' = [retired EXCEPT ![c.about] = "1"]
  /\ cycle' = [cycle EXCEPT ![c.about] =
                 IF CycleEnds(c.about) THEN Fresh ELSE [@ EXCEPT !.finalized = FALSE]]
  /\ Proceed(c, "finalizing")
  /\ UNCHANGED <<job, receipt, scheduler, life, kept, left, astray>>

\* finalizeCompletionReceiptRetirement(): a key with a receipt is free; without one its
\* retirement waits for the completion.
FinalizeRetirement(c) ==
  LET k == c.about IN
  /\ Reaches(c) /\ c.kind = "retire" /\ c.stage = "finalizing"
  /\ IF retired[k] = "no" THEN UNCHANGED <<receipt, retired, cycle>>
     ELSE /\ retired' = [retired EXCEPT ![k] = IF k \in receipt THEN "no" ELSE "2"]
          /\ receipt' = receipt \ {k}
          /\ cycle' = [cycle EXCEPT ![k].finalized = TRUE]
  /\ Return(c)
  /\ UNCHANGED <<job, scheduler, life, kept, left, astray>>

\* cancel(): look for the job, remove it, and drop both keys.
Cancel(p, k) ==
  /\ Begin(p, "cancel", "looking", k, None)
  /\ UNCHANGED <<redis, life, kept, cycle, astray>>

CancelFinds(c) ==
  /\ Reaches(c) /\ c.kind = "cancel" /\ c.stage = "looking"
  /\ Proceed(c, IF job[c.about].state = "none" THEN "discarding" ELSE "removing")
  /\ UNCHANGED <<redis, life, kept, left, cycle, astray>>

\* BullMQ refuses to remove a job that a worker has locked; the call then rejects.
CancelRemoves(c) ==
  /\ Reaches(c) /\ c.kind = "cancel" /\ c.stage = "removing"
  /\ IF job[c.about].state = "active" THEN Return(c) /\ UNCHANGED job
     ELSE Proceed(c, "discarding") /\ job' = [job EXCEPT ![c.about] = NoJob]
  /\ UNCHANGED <<receipt, retired, scheduler, life, kept, left, cycle, astray>>

CancelDiscards(c) ==
  /\ Reaches(c) /\ c.kind = "cancel" /\ c.stage = "discarding"
  /\ receipt' = receipt \ {c.about}
  /\ retired' = [retired EXCEPT ![c.about] = "no"]
  /\ cycle' = [cycle EXCEPT ![c.about] = Fresh]
  /\ Return(c)
  /\ UNCHANGED <<job, scheduler, life, kept, left, astray>>

KeyStep ==
  \/ \E p \in Procs, k \in Keys : Retire(p, k) \/ Cancel(p, k)
  \/ \E c \in calls :
        \/ PrepareRetirement(c)
        \/ FinalizeRetirement(c)
        \/ CancelFinds(c)
        \/ CancelRemoves(c)
        \/ CancelDiscards(c)

-----------------------------------------------------------------------------
(* Workers: registerWorker() replaces the one of the same event.           *)

Busy(w) == \E k \in Keys : job[k].by = w

\* A new worker takes jobs as soon as it is made; the call waits until it is ready.
RegisterWorker(p, w) ==
  /\ left["register"] > 0 /\ worker[w].state = "none"
  /\ \A x \in Workers : x < w => worker[x].state # "none"
  /\ left' = [left EXCEPT !["register"] = @ - 1]
  /\ worker' = [worker EXCEPT ![w] =
       [proc |-> p, state |-> "open", registration |-> "starting", replaces |-> None]]
  /\ UNCHANGED <<redis, life, queue, current, book, calls, cycle, astray>>

\* Mutant: the old worker is forgotten without being closed.
WorkerReadyForgetsOld(w) ==
  /\ worker[w].registration = "starting"
  /\ current' = [current EXCEPT ![worker[w].proc] = w]
  /\ worker' = [worker EXCEPT ![w].registration = "done"]
  /\ UNCHANGED <<redis, life, queue, book, calls, left, cycle, astray>>

\* The worker is ready: it takes the place of the old one, which is told to close.
WorkerReady(w) ==
  LET p == worker[w].proc  old == current[p] IN
  /\ worker[w].registration = "starting"
  /\ current' = [current EXCEPT ![p] = w]
  /\ worker' = IF old = None THEN [worker EXCEPT ![w].registration = "done"]
               ELSE [worker EXCEPT ![w].registration = "replacing", ![w].replaces = old,
                                   ![old].state = IF @ = "open" THEN "closing" ELSE @]
  /\ UNCHANGED <<redis, life, queue, book, calls, left, cycle, astray>>

\* waitUntilReady() rejects: the call fails, and the worker it made is not closed.
WorkerNeverReady(w) ==
  /\ worker[w].registration = "starting" /\ left["fail"] > 0
  /\ left' = [left EXCEPT !["fail"] = @ - 1]
  /\ worker' = [worker EXCEPT ![w].registration = "failed"]
  /\ UNCHANGED <<redis, life, queue, current, book, calls, cycle, astray>>

\* A worker told to close takes no more jobs, and is closed when its handler has ended.
WorkerCloses(w) ==
  /\ worker[w].state = "closing" /\ ~Busy(w)
  /\ worker' = [x \in Workers |->
       IF x = w THEN [worker[x] EXCEPT !.state = "closed"]
       ELSE IF worker[x].replaces = w
            THEN [worker[x] EXCEPT !.registration = IF @ = "replacing" THEN "done" ELSE @,
                                   !.replaces = None]
       ELSE worker[x]]
  /\ UNCHANGED <<redis, life, queue, current, book, calls, left, cycle, astray>>

WorkerStep ==
  \E w \in Workers :
     \/ \E p \in Procs : RegisterWorker(p, w)
     \/ WorkerReady(w)
     \/ WorkerNeverReady(w)
     \/ WorkerCloses(w)

-----------------------------------------------------------------------------
(* Schedules.                                                              *)

Calling(i) == \E c \in calls : c.kind \in {"schedule", "unschedule"} /\ c.about = i

\* schedule() validates its options, then upserts the scheduler.
Schedule(p, i, o) ==
  /\ o \notin BadOptions
  /\ Begin(p, "schedule", "upserting", i, o)
  /\ astray' = IF Calling(i) THEN astray \union {i} ELSE astray \ {i}
  /\ UNCHANGED <<redis, life, kept, cycle>>

ScheduleRefused(p, i, o) ==
  /\ o \in BadOptions /\ left["schedule"] > 0
  /\ left' = [left EXCEPT !["schedule"] = @ - 1]
  /\ UNCHANGED <<redis, life, queue, kept, calls, cycle, astray>>

\* Redis has the scheduler; the answer is on its way back.
UpsertJobScheduler(c) ==
  /\ Reaches(c) /\ c.kind = "schedule" /\ c.stage = "upserting"
  /\ scheduler' = [scheduler EXCEPT ![c.about] = c.options]
  /\ Proceed(c, "booking")
  /\ UNCHANGED <<job, receipt, retired, life, kept, left, cycle, astray>>

ScheduleIsBooked(c) ==
  /\ c \in calls /\ c.kind = "schedule" /\ c.stage = "booking"
  /\ book' = [book EXCEPT ![c.proc][c.about] = c.options]
  /\ Return(c)
  /\ UNCHANGED <<redis, life, worker, current, left, cycle, astray>>

\* unschedule() of a schedule that the process does not know does nothing.
Unschedule(p, i) ==
  /\ IF book[p][i] = None
     THEN /\ left["unschedule"] > 0
          /\ left' = [left EXCEPT !["unschedule"] = @ - 1]
          /\ UNCHANGED <<calls, queue, astray>>
     ELSE /\ Begin(p, "unschedule", "removing", i, None)
          /\ astray' = IF Calling(i) THEN astray \union {i} ELSE astray
  /\ UNCHANGED <<redis, life, kept, cycle>>

RemoveJobScheduler(c) ==
  /\ Reaches(c) /\ c.kind = "unschedule" /\ c.stage = "removing"
  /\ scheduler' = [scheduler EXCEPT ![c.about] = None]
  /\ Proceed(c, "forgetting")
  /\ UNCHANGED <<job, receipt, retired, life, kept, left, cycle, astray>>

\* Mutant: the process goes on believing that the schedule is there.
ScheduleIsRemembered(c) ==
  /\ c \in calls /\ c.kind = "unschedule" /\ c.stage = "forgetting"
  /\ Return(c)
  /\ UNCHANGED <<redis, life, kept, left, cycle, astray>>

ScheduleIsForgotten(c) ==
  /\ c \in calls /\ c.kind = "unschedule" /\ c.stage = "forgetting"
  /\ book' = [book EXCEPT ![c.proc][c.about] = None]
  /\ Return(c)
  /\ UNCHANGED <<redis, life, worker, current, left, cycle, astray>>

ScheduleStep ==
  \/ \E p \in Procs, i \in Ids :
        \/ \E o \in Options : Schedule(p, i, o) \/ ScheduleRefused(p, i, o)
        \/ Unschedule(p, i)
  \/ \E c \in calls :
        \/ UpsertJobScheduler(c)
        \/ ScheduleIsBooked(c)
        \/ RemoveJobScheduler(c)
        \/ ScheduleIsForgotten(c)

-----------------------------------------------------------------------------
(* stop(), start() and crashes.                                            *)

\* The worker of the map is told to close; without one stop() is at the queues at once.
StopBegins(p) ==
  LET w == current[p] IN
  /\ left["stop"] > 0 /\ life[p].stage = "running"
  /\ left' = [left EXCEPT !["stop"] = @ - 1]
  /\ IF w = None
     THEN /\ life' = [life EXCEPT ![p].stage = "queues"]
          /\ queue' = [queue EXCEPT ![p] = IF @ = "open" THEN "closed" ELSE @]
          /\ UNCHANGED worker
     ELSE /\ life' = [life EXCEPT ![p] = [stage |-> "workers", waits |-> w]]
          /\ worker' = [worker EXCEPT ![w].state = IF @ = "open" THEN "closing" ELSE @]
          /\ UNCHANGED queue
  /\ UNCHANGED <<redis, current, book, calls, cycle, astray>>

\* It is closed: the map is cleared, with a worker that came into it meanwhile, and the
\* queue's connection is closed.
WorkersStopped(p) ==
  LET w == current[p] IN
  /\ life[p].stage = "workers" /\ worker[life[p].waits].state = "closed"
  /\ life' = [life EXCEPT ![p] = [stage |-> "queues", waits |-> None]]
  /\ current' = [current EXCEPT ![p] = None]
  /\ worker' = IF w = life[p].waits THEN worker ELSE [worker EXCEPT ![w].registration = "overtaken"]
  /\ queue' = [queue EXCEPT ![p] = IF @ = "open" THEN "closed" ELSE @]
  /\ UNCHANGED <<redis, book, calls, left, cycle, astray>>

\* The maps of the queues and of the schedules are cleared; the schedulers stay in Redis.
Stopped(p) ==
  /\ life[p].stage = "queues"
  /\ life' = [life EXCEPT ![p].stage = "stopped"]
  /\ queue' = [queue EXCEPT ![p] = "none"]
  /\ book' = [book EXCEPT ![p] = NoBook]
  /\ astray' = Ids
  /\ UNCHANGED <<redis, worker, current, calls, left, cycle>>

Start(p) ==
  /\ life[p].stage = "stopped"
  /\ life' = [life EXCEPT ![p] = Running]
  /\ UNCHANGED <<redis, queue, kept, calls, left, cycle, astray>>

\* A process dies and comes back with nothing; its jobs wait again, or fail as stalled.
Crash(p) ==
  /\ left["crash"] > 0
  /\ left' = [left EXCEPT !["crash"] = @ - 1]
  /\ \E again \in {"waiting", "failed"} :
        job' = [k \in Keys |->
          IF job[k].by # None /\ worker[job[k].by].proc = p
          THEN [NoJob EXCEPT !.state = again, !.tries = job[k].tries,
                             !.late = job[k].late \/ job[k].stage = "recorded"]
          ELSE job[k]]
  /\ worker' = [w \in Workers |-> IF worker[w].proc # p THEN worker[w]
       ELSE [worker[w] EXCEPT !.state = "closed", !.registration = "done", !.replaces = None]]
  /\ life' = [life EXCEPT ![p] = Running]
  /\ current' = [current EXCEPT ![p] = None]
  /\ queue' = [queue EXCEPT ![p] = "none"]
  /\ book' = [book EXCEPT ![p] = NoBook]
  /\ calls' = {c \in calls : c.proc # p}
  /\ astray' = Ids
  /\ UNCHANGED <<receipt, retired, scheduler, cycle>>

StopStep ==
  \E p \in Procs : StopBegins(p) \/ WorkersStopped(p) \/ Stopped(p) \/ Start(p) \/ Crash(p)

Next ==
  \/ EmitStep
  \/ KeyStep
  \/ WorkerStep
  \/ ScheduleStep
  \/ StopStep
  \/ \E c \in calls : CallFails(c)

Spec == Init /\ [][Next]_vars

-----------------------------------------------------------------------------
(* Properties.                                                             *)

JobRecords ==
  [state : {"none", "waiting", "active", "completed", "failed"}, tries : Nat,
   by : Workers \union {None}, stage : {"idle", "handling", "handled", "recorded"},
   late : BOOLEAN]
WorkerRecords ==
  [proc : Procs \union {None}, state : {"none", "open", "closing", "closed"},
   registration : {"none", "starting", "replacing", "done", "failed", "overtaken"},
   replaces : Workers \union {None}]
Lives ==
  [stage : {"running", "workers", "queues", "stopped"}, waits : Workers \union {None}]

KeyCalls ==
  [kind : {"emit", "retire", "cancel"}, nth : Nat, proc : Procs,
   stage : {"checking", "adding", "preparing", "finalizing", "looking", "removing", "discarding"},
   about : Keys, options : {None}, late : BOOLEAN]
ScheduleCalls ==
  [kind : {"schedule", "unschedule"}, nth : Nat, proc : Procs,
   stage : {"upserting", "booking", "removing", "forgetting"},
   about : Ids, options : Options \union {None}, late : BOOLEAN]

\* Types: what the calls of all processes, their stops and crashes leave in Redis and in
\* the tables.
TypeOK ==
  /\ job \in [Keys -> JobRecords]
  /\ receipt \in SUBSET Keys
  /\ retired \in [Keys -> {"no", "1", "2"}]
  /\ scheduler \in [Ids -> Options \union {None}]
  /\ life \in [Procs -> Lives]
  /\ queue \in [Procs -> {"none", "open", "closed"}]
  /\ worker \in [Workers -> WorkerRecords]
  /\ current \in [Procs -> Workers \union {None}]
  /\ book \in [Procs -> [Ids -> Options \union {None}]]
  /\ calls \in SUBSET (KeyCalls \union ScheduleCalls)
  /\ left \in [Kinds -> Nat]
  /\ cycle \in [Keys -> [recorded : BOOLEAN, finalized : BOOLEAN, rerun : BOOLEAN]]
  /\ astray \in SUBSET Ids

\* Work is not done again behind a receipt: while a key's completion stands recorded and was
\* neither retired nor cancelled, a worker runs its handler only for an emission that had
\* looked for the receipt before it was recorded, or because its process died between the
\* receipt and the end of the job (hasCompletionReceipt and recordCompletionReceipt).
HandledOnce ==
  \A k \in Keys :
     /\ cycle[k].recorded /\ ~cycle[k].finalized
     /\ job[k].stage \in {"handling", "handled"}
     => job[k].late

\* A retired key is free again: whichever of its retirement and its completion comes last,
\* and however cancel() and other retirements fall between them, neither of its two keys is
\* left in Redis to refuse its next emission for ever, unless its handler was run a second
\* time or another retirement of it is unfinished (the scripts of the queue manager).
KeysAreFreed ==
  \A k \in Keys :
     Complete(k) /\ ~cycle[k].rerun => ~HasCompletionReceipt(k)

\* The receipt of a completion stops what it should and nothing else.
ReceiptsAreSound == HandledOnce /\ KeysAreFreed

\* No worker is lost: one that takes jobs is the one its process would close in stop(), or
\* its registration is under way, or it never became ready, or its registration overlapped a
\* stop() that had passed its event (registerWorker and stop).
WorkersAreOwned ==
  \A w \in Workers : worker[w].state = "open" =>
     \/ current[worker[w].proc] = w
     \/ worker[w].registration \in {"starting", "failed", "overtaken"}

\* A process knows its schedules: when no call about one is under way, and its calls have
\* neither overlapped nor failed nor outlived a stop() or a crash, the scheduler in Redis is
\* the one in the book, so that unschedule() can remove it (schedule and unschedule).
BookIsTrue ==
  \A i \in Ids \ astray : Calling(i) \/ \E p \in Procs : book[p][i] = scheduler[i]
=============================================================================
