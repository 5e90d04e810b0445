-------------------------- MODULE BullQueuesProofs --------------------------
(***************************************************************************)
(* Proofs about the queues, receipts, workers and schedules of the BullMQ  *)
(* event provider, for any number of processes, keys, schedules and        *)
(* workers, and for any budget of calls, failures, stops and crashes.      *)
(*                                                                         *)
(* The receipts.  That no work is done behind a receipt and that a retired *)
(* key is free depend on each other through the two keys in Redis: CycleOK *)
(* says, for a key whose completion was recorded, retired, or both, which  *)
(* of the two keys is there, and that a handler which runs after the       *)
(* completion was recorded has marked the cycle as run again.  LateOK is   *)
(* about what got past the receipt before it was there: an emission that   *)
(* has looked and not yet added its job, and a job that waits or is        *)
(* handled, are late.                                                      *)
(*                                                                         *)
(* The workers.  A new worker takes the place of the one its process kept, *)
(* which is told to close: that this is the only one it has to close needs *)
(* that the worker a process keeps is its own and no longer registering    *)
(* (CurrentOK).                                                            *)
(*                                                                         *)
(* The schedules.  A schedule that has not gone astray has one call at a   *)
(* time, and between its command and its answer the call knows what is in  *)
(* Redis (ScheduleOK).                                                     *)
(***************************************************************************)
EXTENDS BullQueues, TLAPS

JobShape(k) ==
  /\ job[k].stage # "idle" <=> job[k].state = "active"
  /\ job[k].by # None <=> job[k].state = "active"

CycleRecords == [recorded : BOOLEAN, finalized : BOOLEAN, rerun : BOOLEAN]

(* The cycle of a key and its two keys in Redis. *)
CycleOK(k) ==
  LET y == cycle[k] IN
  /\ retired[k] = "2" => y.finalized
  /\ ~y.recorded => k \notin receipt
  /\ y.finalized /\ ~y.recorded => retired[k] = "2"
  /\ y.recorded /\ ~y.rerun /\ y.finalized => ~HasCompletionReceipt(k)
  /\ y.recorded /\ ~y.rerun /\ ~y.finalized => k \in receipt
  /\ y.recorded /\ job[k].stage \in {"handling", "handled"} => y.rerun
  /\ y.recorded /\ ~y.finalized => HasCompletionReceipt(k)

Adding(c) == c.kind = "emit" /\ c.stage = "adding"

(* What may still be handled behind a receipt was late. *)
LateOK(k) ==
  cycle[k].recorded /\ HasCompletionReceipt(k) =>
    /\ \A c \in calls : Adding(c) /\ c.about = k => c.late
    /\ job[k].state = "waiting" \/ job[k].stage \in {"handling", "handled"} => job[k].late

KeyOK(k) == JobShape(k) /\ CycleOK(k) /\ LateOK(k)

CurrentOK(p) ==
  current[p] # None =>
    /\ worker[current[p]].proc = p /\ worker[current[p]].state # "none"
    /\ worker[current[p]].registration # "starting"

WorkerOK(w) ==
  /\ worker[w].state # "none" => worker[w].proc \in Procs
  /\ worker[w].registration = "starting" => worker[w].state # "none"
  /\ worker[w].state = "open" =>
       \/ current[worker[w].proc] = w
       \/ worker[w].registration \in {"starting", "failed", "overtaken"}

ScheduleKinds == {"schedule", "unschedule"}
About(c, i) == c.kind \in ScheduleKinds /\ c.about = i

(* A schedule has one call at a time, which knows what is in Redis. *)
ScheduleOK(i) ==
  i \notin astray =>
    /\ \A c, d \in calls : About(c, i) /\ About(d, i) => c = d
    /\ \A c \in calls : About(c, i) =>
         /\ c.kind = "schedule" /\ c.stage = "booking" => scheduler[i] = c.options
         /\ c.kind = "unschedule" /\ c.stage = "forgetting" => scheduler[i] = None
    /\ \/ \E c \in calls : About(c, i)
       \/ \E p \in Procs : book[p][i] = scheduler[i]

KeyInv == \A k \in Keys : KeyOK(k)
WorkerInv == (\A p \in Procs : CurrentOK(p)) /\ (\A w \in Workers : WorkerOK(w))
ScheduleInv == \A i \in Ids : ScheduleOK(i)

IInv == TypeOK /\ KeyInv /\ WorkerInv /\ ScheduleInv

-----------------------------------------------------------------------------
(* What a step leaves alone. *)

NoNewAdding == \A c \in calls' : Adding(c) => c \in calls

SameSchedules ==
  /\ \A c \in calls' : c.kind \in ScheduleKinds => c \in calls
  /\ \A c \in calls : c.kind \in ScheduleKinds => c \in calls'

LEMMA KeysStay ==
  ASSUME KeyInv, UNCHANGED <<job, receipt, retired, cycle>>, NoNewAdding
  PROVE  KeyInv'
BY DEF KeyInv, KeyOK, JobShape, CycleOK, LateOK, HasCompletionReceipt, NoNewAdding

LEMMA WorkersStay ==
  ASSUME WorkerInv, UNCHANGED <<worker, current>>
  PROVE  WorkerInv'
BY DEF WorkerInv, CurrentOK, WorkerOK

LEMMA SchedulesStay ==
  ASSUME ScheduleInv, UNCHANGED <<scheduler, book, astray>>, SameSchedules
  PROVE  ScheduleInv'
BY DEF ScheduleInv, ScheduleOK, About, SameSchedules

(* A step that is about one key. *)
LEMMA KeyStepOK ==
  ASSUME KeyInv, NEW k \in Keys, KeyOK(k)',
         \A i \in Keys \ {k} : /\ job'[i] = job[i] /\ cycle'[i] = cycle[i]
                               /\ retired'[i] = retired[i] /\ (i \in receipt' <=> i \in receipt),
         \A c \in calls' : Adding(c) /\ c.about # k => c \in calls
  PROVE  KeyInv'
BY DEF KeyInv, KeyOK, JobShape, CycleOK, LateOK, HasCompletionReceipt

-----------------------------------------------------------------------------
(* Calls. *)

KeyStages == {"checking", "adding", "preparing", "finalizing", "looking", "removing", "discarding"}

LEMMA OpensOK ==
  ASSUME TypeOK, NEW p, queue' = [queue EXCEPT ![p] = IF @ = "none" THEN "open" ELSE @]
  PROVE  queue' \in [Procs -> {"none", "open", "closed"}]
BY DEF TypeOK

LEMMA SpendsOK ==
  ASSUME TypeOK, NEW kind \in Kinds, left[kind] > 0, left' = [left EXCEPT ![kind] = @ - 1]
  PROVE  left' \in [Kinds -> Nat]
BY DEF TypeOK

LEMMA KindOK ==
  ASSUME TypeOK, NEW c \in calls
  PROVE  /\ c.kind \in ScheduleKinds => c \in ScheduleCalls
         /\ c.kind \notin ScheduleKinds => c \in KeyCalls
BY DEF TypeOK, KeyCalls, ScheduleCalls, ScheduleKinds

LEMMA KeyBeginOK ==
  ASSUME TypeOK, NEW p \in Procs, NEW kind \in {"emit", "retire", "cancel"},
         NEW stage \in KeyStages \ {"adding"}, NEW k \in Keys, Begin(p, kind, stage, k, None)
  PROVE  /\ calls' \in SUBSET (KeyCalls \union ScheduleCalls)
         /\ queue' \in [Procs -> {"none", "open", "closed"}] /\ left' \in [Kinds -> Nat]
         /\ NoNewAdding /\ SameSchedules
<1> DEFINE c == [kind |-> kind, nth |-> left[kind], proc |-> p, stage |-> stage, about |-> k,
                 options |-> None, late |-> FALSE]
<1>1. kind \in Kinds
  BY DEF Kinds
<1>2. left[kind] \in Nat
  BY <1>1 DEF TypeOK
<1>3. c \in KeyCalls /\ c.kind = kind /\ c.stage = stage
  BY <1>2 DEF KeyCalls, KeyStages
<1>4. /\ calls' = calls \union {c} /\ left[kind] > 0 /\ left' = [left EXCEPT ![kind] = @ - 1]
      /\ queue' = [queue EXCEPT ![p] = IF @ = "none" THEN "open" ELSE @]
  BY DEF Begin
<1> HIDE DEF c
<1>5. calls' \in SUBSET (KeyCalls \union ScheduleCalls)
  BY <1>3, <1>4 DEF TypeOK
<1>6. NoNewAdding
  BY <1>3, <1>4 DEF NoNewAdding, Adding
<1>7. SameSchedules
  BY <1>3, <1>4 DEF SameSchedules, ScheduleKinds
<1> QED BY <1>1, <1>4, <1>5, <1>6, <1>7, OpensOK, SpendsOK

LEMMA KeyProceedOK ==
  ASSUME TypeOK, NEW c \in calls, c.kind \notin ScheduleKinds, NEW stage \in KeyStages,
         Proceed(c, stage)
  PROVE  /\ calls' \in SUBSET (KeyCalls \union ScheduleCalls)
         /\ queue' \in [Procs -> {"none", "open", "closed"}]
         /\ stage # "adding" => NoNewAdding
         /\ \A d \in calls' : Adding(d) => d \in calls \/ (d.about = c.about /\ d.late = c.late)
         /\ SameSchedules
<1> DEFINE e == [c EXCEPT !.stage = stage]
<1>1. c \in KeyCalls
  BY KindOK
<1>2. /\ e \in KeyCalls /\ e.kind = c.kind /\ e.stage = stage /\ e.about = c.about
      /\ e.late = c.late
  BY <1>1 DEF KeyCalls, KeyStages
<1>3. /\ calls' = (calls \ {c}) \union {e}
      /\ queue' = [queue EXCEPT ![c.proc] = IF @ = "none" THEN "open" ELSE @]
  BY DEF Proceed
<1> HIDE DEF e
<1>4. calls' \in SUBSET (KeyCalls \union ScheduleCalls)
  BY <1>2, <1>3 DEF TypeOK
<1>5. stage # "adding" => NoNewAdding
  BY <1>2, <1>3 DEF NoNewAdding, Adding
<1>6. \A d \in calls' : Adding(d) => d \in calls \/ (d.about = c.about /\ d.late = c.late)
  BY <1>2, <1>3
<1>7. SameSchedules
  BY <1>2, <1>3 DEF SameSchedules
<1> QED BY <1>3, <1>4, <1>5, <1>6, <1>7, OpensOK

LEMMA ReturnOK ==
  ASSUME TypeOK, NEW c \in calls, Return(c)
  PROVE  /\ calls' \in SUBSET (KeyCalls \union ScheduleCalls) /\ UNCHANGED queue
         /\ NoNewAdding
         /\ c.kind \notin ScheduleKinds => SameSchedules
BY DEF TypeOK, Return, NoNewAdding, SameSchedules

-----------------------------------------------------------------------------
(* Emissions, jobs and receipts. *)

(* emit(), retire and cancel() begin. *)
LEMMA KeyCallBegins ==
  ASSUME IInv, NEW p \in Procs, NEW kind \in {"emit", "retire", "cancel"},
         NEW stage \in KeyStages \ {"adding"}, NEW k \in Keys, Begin(p, kind, stage, k, None),
         UNCHANGED <<redis, life, kept, cycle, astray>>
  PROVE  IInv'
<1>1. /\ calls' \in SUBSET (KeyCalls \union ScheduleCalls)
      /\ queue' \in [Procs -> {"none", "open", "closed"}] /\ left' \in [Kinds -> Nat]
      /\ NoNewAdding /\ SameSchedules
  BY KeyBeginOK DEF IInv
<1>2. TypeOK'
  BY <1>1 DEF IInv, TypeOK, redis, kept
<1>3. KeyInv'
  BY <1>1, KeysStay DEF IInv, redis
<1>4. WorkerInv'
  BY WorkersStay DEF IInv, kept
<1>5. ScheduleInv'
  BY <1>1, SchedulesStay DEF IInv, redis, kept
<1> QED BY <1>2, <1>3, <1>4, <1>5 DEF IInv

LEMMA KeyCallBeginsInv ==
  ASSUME IInv, NEW p \in Procs, NEW k \in Keys, Emit(p, k) \/ Retire(p, k) \/ Cancel(p, k)
  PROVE  IInv'
<1>1. CASE Emit(p, k)
  <2> PICK kind \in {"emit", "retire", "cancel"} : kind = "emit"
    OBVIOUS
  <2> PICK stage \in KeyStages \ {"adding"} : stage = "checking"
    BY DEF KeyStages
  <2> QED BY <1>1, KeyCallBegins DEF Emit
<1>2. CASE Retire(p, k)
  <2> PICK kind \in {"emit", "retire", "cancel"} : kind = "retire"
    OBVIOUS
  <2> PICK stage \in KeyStages \ {"adding"} : stage = "preparing"
    BY DEF KeyStages
  <2> QED BY <1>2, KeyCallBegins DEF Retire
<1>3. CASE Cancel(p, k)
  <2> PICK kind \in {"emit", "retire", "cancel"} : kind = "cancel"
    OBVIOUS
  <2> PICK stage \in KeyStages \ {"adding"} : stage = "looking"
    BY DEF KeyStages
  <2> QED BY <1>3, KeyCallBegins DEF Cancel
<1> QED BY <1>1, <1>2, <1>3

LEMMA CheckReceiptInv ==
  ASSUME IInv, NEW c \in calls, CheckReceipt(c)
  PROVE  IInv'
<1>0. TypeOK /\ KeyInv /\ WorkerInv /\ ScheduleInv
  BY DEF IInv
<1>1. c.kind = "emit" /\ UNCHANGED <<redis, life, kept, left, cycle, astray>>
  BY DEF CheckReceipt
<1>2. c.kind \notin ScheduleKinds /\ c \in KeyCalls /\ c.about \in Keys
  BY <1>0, <1>1, KindOK DEF ScheduleKinds, KeyCalls
<1>3. WorkerInv'
  BY <1>0, <1>1, WorkersStay DEF kept
<1>4. CASE HasCompletionReceipt(c.about)
  <2>1. Return(c)
    BY <1>4 DEF CheckReceipt
  <2>2. /\ calls' \in SUBSET (KeyCalls \union ScheduleCalls) /\ UNCHANGED queue
        /\ NoNewAdding /\ SameSchedules
    BY <1>0, <1>2, <2>1, ReturnOK
  <2>3. TypeOK'
    BY <1>0, <1>1, <2>2 DEF TypeOK, redis, kept
  <2>4. KeyInv'
    BY <1>0, <1>1, <2>2, KeysStay DEF redis
  <2>5. ScheduleInv'
    BY <1>0, <1>1, <2>2, SchedulesStay DEF redis, kept
  <2> QED BY <1>3, <2>3, <2>4, <2>5 DEF IInv
<1>5. CASE ~HasCompletionReceipt(c.about)
  <2> PICK stage \in KeyStages : stage = "adding"
    BY DEF KeyStages
  <2>1. Proceed(c, stage)
    BY <1>5 DEF CheckReceipt
  <2>2. /\ calls' \in SUBSET (KeyCalls \union ScheduleCalls)
        /\ queue' \in [Procs -> {"none", "open", "closed"}]
        /\ \A d \in calls' : Adding(d) => d \in calls \/ (d.about = c.about /\ d.late = c.late)
        /\ SameSchedules
    BY <1>0, <1>2, <2>1, KeyProceedOK
  <2>3. TypeOK'
    BY <1>0, <1>1, <2>2 DEF TypeOK, redis, kept
  <2>4. KeyOK(c.about)
    BY <1>0, <1>2 DEF KeyInv
  <2>5. KeyInv'
    <3> PICK k \in Keys : k = c.about
      BY <1>2
    <3>1. KeyOK(k)'
      BY <1>1, <1>5, <2>4 DEF KeyOK, JobShape, CycleOK, LateOK, HasCompletionReceipt, redis
    <3>2. \A d \in calls' : Adding(d) /\ d.about # k => d \in calls
      BY <2>2
    <3> QED BY <1>0, <1>1, <3>1, <3>2, KeyStepOK DEF redis
  <2>6. ScheduleInv'
    BY <1>0, <1>1, <2>2, SchedulesStay DEF redis, kept
  <2> QED BY <1>3, <2>3, <2>5, <2>6 DEF IInv
<1> QED BY <1>4, <1>5

LEMMA AddJobInv ==
  ASSUME IInv, NEW c \in calls, AddJob(c)
  PROVE  IInv'
<1>0. TypeOK /\ KeyInv /\ WorkerInv /\ ScheduleInv
  BY DEF IInv
<1>1. /\ c.kind = "emit" /\ c.stage = "adding" /\ Return(c)
      /\ UNCHANGED <<receipt, retired, scheduler, life, kept, left, astray>>
  BY DEF AddJob
<1>2. c.kind \notin ScheduleKinds /\ c \in KeyCalls /\ c.about \in Keys /\ c.late \in BOOLEAN
  BY <1>0, <1>1, KindOK DEF ScheduleKinds, KeyCalls
<1>3. /\ calls' \in SUBSET (KeyCalls \union ScheduleCalls) /\ UNCHANGED queue
      /\ NoNewAdding /\ SameSchedules
  BY <1>0, <1>1, <1>2, ReturnOK
<1> PICK k \in Keys : k = c.about
  BY <1>2
<1> PICK b \in BOOLEAN : b = c.late
  BY <1>2
<1> PICK r : r = [NoJob EXCEPT !.state = "waiting", !.late = b]
  OBVIOUS
<1>4. /\ r \in JobRecords /\ r.state = "waiting" /\ r.stage = "idle" /\ r.by = None /\ r.late = b
  BY DEF NoJob, JobRecords
<1>5. job' = IF job[k].state # "none" THEN job ELSE [job EXCEPT ![k] = r]
  BY DEF AddJob
<1>6. cycle' = IF job[k].state = "none" /\ CycleEnds(k) THEN [cycle EXCEPT ![k] = Fresh] ELSE cycle
  BY DEF AddJob
<1>7. TypeOK'
  <2>1. job' \in [Keys -> JobRecords]
    BY <1>0, <1>4, <1>5 DEF TypeOK
  <2>2. cycle' \in [Keys -> [recorded : BOOLEAN, finalized : BOOLEAN, rerun : BOOLEAN]]
    BY <1>0, <1>6 DEF TypeOK, Fresh
  <2> QED BY <1>0, <1>1, <1>3, <2>1, <2>2 DEF TypeOK, kept
<1>8. KeyOK(k)'
  <2>1. JobShape(k) /\ CycleOK(k) /\ LateOK(k)
    BY <1>0 DEF KeyInv, KeyOK
  <2>2. cycle[k].recorded /\ HasCompletionReceipt(k) => b
    BY <1>1, <2>1 DEF LateOK, Adding
  <2>3. /\ job'[k] = IF job[k].state # "none" THEN job[k] ELSE r
        /\ cycle'[k] = IF job[k].state = "none" /\ CycleEnds(k) THEN Fresh ELSE cycle[k]
    BY <1>0, <1>5, <1>6 DEF TypeOK
  <2>4. JobShape(k)'
    BY <1>4, <2>1, <2>3 DEF JobShape
  <2>5. CycleOK(k)'
    BY <1>1, <1>4, <2>1, <2>3 DEF CycleOK, CycleEnds, Complete, HasCompletionReceipt, Fresh
  <2>6. LateOK(k)'
    BY <1>1, <1>3, <1>4, <2>1, <2>2, <2>3
       DEF LateOK, CycleEnds, Complete, HasCompletionReceipt, Fresh, NoNewAdding
  <2> QED BY <2>4, <2>5, <2>6 DEF KeyOK
<1>9. KeyInv'
  BY <1>0, <1>1, <1>3, <1>5, <1>6, <1>8, KeyStepOK DEF NoNewAdding
<1>10. WorkerInv'
  BY <1>0, <1>1, WorkersStay DEF kept
<1>11. ScheduleInv'
  BY <1>0, <1>1, <1>3, SchedulesStay DEF kept
<1> QED BY <1>7, <1>9, <1>10, <1>11 DEF IInv

(* A step of one job. *)
LEMMA JobStepOK ==
  ASSUME IInv, NEW k \in Keys, NEW r \in JobRecords, NEW y \in CycleRecords,
         job' = [job EXCEPT ![k] = r], cycle' = [cycle EXCEPT ![k] = y],
         UNCHANGED <<receipt, retired, scheduler, life, kept, calls, astray>>,
         queue' \in [Procs -> {"none", "open", "closed"}], left' \in [Kinds -> Nat],
         r.stage # "idle" <=> r.state = "active", r.by # None <=> r.state = "active",
         CycleOK(k)', LateOK(k)'
  PROVE  IInv'
<1>0. TypeOK /\ KeyInv /\ WorkerInv /\ ScheduleInv
  BY DEF IInv
<1>1. job' \in [Keys -> JobRecords] /\ cycle' \in [Keys -> CycleRecords]
  BY <1>0 DEF TypeOK, CycleRecords
<1>2. TypeOK'
  BY <1>0, <1>1 DEF TypeOK, CycleRecords, kept
<1>3. KeyOK(k)'
  BY <1>0 DEF KeyOK, JobShape, TypeOK
<1>4. \A i \in Keys \ {k} : /\ job'[i] = job[i] /\ cycle'[i] = cycle[i]
                            /\ retired'[i] = retired[i] /\ (i \in receipt' <=> i \in receipt)
  BY <1>0 DEF TypeOK
<1>5. KeyInv'
  BY <1>0, <1>3, <1>4, KeyStepOK
<1>6. WorkerInv'
  BY <1>0, WorkersStay DEF kept
<1>7. ScheduleInv'
  BY <1>0, SchedulesStay DEF kept, SameSchedules
<1> QED BY <1>2, <1>5, <1>6, <1>7 DEF IInv

LEMMA TakeInv ==
  ASSUME IInv, NEW w \in Workers, NEW k \in Keys, Take(w, k)
  PROVE  IInv'
<1>0. TypeOK /\ KeyOK(k)
  BY DEF IInv, KeyInv
<1>1. job[k] \in JobRecords /\ cycle[k] \in CycleRecords /\ job[k].state = "waiting"
  BY <1>0 DEF TypeOK, CycleRecords, Take
<1> PICK r : r = [job[k] EXCEPT !.state = "active", !.by = w, !.stage = "handling"]
  OBVIOUS
<1> PICK y : y = [cycle[k] EXCEPT !.rerun = @ \/ cycle[k].recorded]
  OBVIOUS
<1>2. /\ r \in JobRecords /\ r.state = "active" /\ r.by = w /\ r.stage = "handling"
      /\ r.late = job[k].late
  BY <1>1 DEF JobRecords
<1>3. /\ y \in CycleRecords /\ y.recorded = cycle[k].recorded
      /\ y.finalized = cycle[k].finalized /\ y.rerun = (cycle[k].rerun \/ cycle[k].recorded)
  BY <1>1 DEF CycleRecords
<1>4. job' = [job EXCEPT ![k] = r] /\ cycle' = [cycle EXCEPT ![k] = y]
  BY <1>0 DEF Take, TypeOK
<1>5. /\ UNCHANGED <<receipt, retired, scheduler, life, kept, calls, astray>>
      /\ UNCHANGED <<queue, left>>
  BY DEF Take
<1>6. job'[k] = r /\ cycle'[k] = y
  BY <1>0, <1>4 DEF TypeOK
<1>7. w # None
  BY QueueAssumption
<1>8. CycleOK(k)' /\ LateOK(k)'
  BY <1>0, <1>1, <1>2, <1>3, <1>5, <1>6 DEF KeyOK, CycleOK, LateOK, HasCompletionReceipt
<1> QED BY <1>0, <1>2, <1>3, <1>4, <1>5, <1>7, <1>8, JobStepOK DEF TypeOK

LEMMA HandlerReturnsInv ==
  ASSUME IInv, NEW k \in Keys, HandlerReturns(k)
  PROVE  IInv'
<1>0. TypeOK /\ KeyOK(k)
  BY DEF IInv, KeyInv
<1>1. /\ job[k] \in JobRecords /\ job[k].state = "active" /\ job[k].stage = "handling"
      /\ job[k].by # None
  BY <1>0 DEF TypeOK, HandlerReturns, KeyOK, JobShape
<1> PICK r : r = [job[k] EXCEPT !.stage = "handled"]
  OBVIOUS
<1> PICK y \in CycleRecords : y = cycle[k]
  BY <1>0 DEF TypeOK, CycleRecords
<1>2. /\ r \in JobRecords /\ r.state = "active" /\ r.by = job[k].by /\ r.stage = "handled"
      /\ r.late = job[k].late
  BY <1>1 DEF JobRecords
<1>3. job' = [job EXCEPT ![k] = r] /\ cycle' = [cycle EXCEPT ![k] = y]
  BY <1>0 DEF HandlerReturns, TypeOK
<1>4. /\ UNCHANGED <<receipt, retired, scheduler, life, kept, calls, astray>>
      /\ UNCHANGED <<left, cycle>>
  BY DEF HandlerReturns
<1>5. queue' \in [Procs -> {"none", "open", "closed"}]
  BY <1>0, OpensOK DEF HandlerReturns
<1>6. job'[k] = r
  BY <1>0, <1>3 DEF TypeOK
<1>7. CycleOK(k)' /\ LateOK(k)'
  BY <1>0, <1>1, <1>2, <1>4, <1>6 DEF KeyOK, CycleOK, LateOK, HasCompletionReceipt
<1> QED BY <1>0, <1>1, <1>2, <1>3, <1>4, <1>5, <1>7, JobStepOK DEF TypeOK

LEMMA JobCompletesInv ==
  ASSUME IInv, NEW k \in Keys, JobCompletes(k)
  PROVE  IInv'
<1>0. TypeOK /\ KeyOK(k)
  BY DEF IInv, KeyInv
<1>1. PICK s \in {"none", "completed"} : job' = [job EXCEPT ![k] = [NoJob EXCEPT !.state = s]]
  BY DEF JobCompletes, NoJob
<1> PICK r : r = [NoJob EXCEPT !.state = s]
  OBVIOUS
<1> PICK y \in CycleRecords : y = cycle[k]
  BY <1>0 DEF TypeOK, CycleRecords
<1>2. /\ r \in JobRecords /\ r.state \in {"none", "completed"} /\ r.by = None /\ r.stage = "idle"
  BY <1>1 DEF JobRecords, NoJob
<1>3. /\ UNCHANGED <<receipt, retired, scheduler, life, kept, calls, astray>>
      /\ UNCHANGED <<queue, left, cycle>>
  BY DEF JobCompletes
<1>4. cycle' = [cycle EXCEPT ![k] = y]
  BY <1>0, <1>3 DEF TypeOK
<1>5. job'[k] = r
  BY <1>0, <1>1 DEF TypeOK
<1>6. CycleOK(k)' /\ LateOK(k)'
  BY <1>0, <1>2, <1>3, <1>5 DEF KeyOK, CycleOK, LateOK, HasCompletionReceipt
<1> QED BY <1>0, <1>1, <1>2, <1>3, <1>4, <1>6, JobStepOK DEF TypeOK

LEMMA HandlerThrowsInv ==
  ASSUME IInv, NEW k \in Keys, HandlerThrows(k)
  PROVE  IInv'
<1>0. TypeOK /\ KeyOK(k)
  BY DEF IInv, KeyInv
<1>1. job[k] \in JobRecords /\ job[k].stage \in {"handling", "handled"}
  BY <1>0 DEF TypeOK, HandlerThrows
<1> PICK s \in {"waiting", "failed"} : s = IF job[k].tries + 1 < Attempts THEN "waiting" ELSE "failed"
  OBVIOUS
<1> PICK n \in Nat : n = job[k].tries + 1
  BY <1>1 DEF JobRecords
<1> PICK b \in BOOLEAN : b = job[k].late
  BY <1>1 DEF JobRecords
<1> PICK r : r = [NoJob EXCEPT !.state = s, !.tries = n, !.late = b]
  OBVIOUS
<1> PICK y \in CycleRecords : y = cycle[k]
  BY <1>0 DEF TypeOK, CycleRecords
<1>2. /\ r \in JobRecords /\ r.state \in {"waiting", "failed"} /\ r.by = None /\ r.stage = "idle"
      /\ r.late = b
  BY DEF JobRecords, NoJob
<1>3. job' = [job EXCEPT ![k] = r]
  BY DEF HandlerThrows
<1>4. /\ UNCHANGED <<receipt, retired, scheduler, life, kept, calls, astray>>
      /\ UNCHANGED <<queue, cycle>>
  BY DEF HandlerThrows
<1>5. left' \in [Kinds -> Nat]
  <2>1. UNCHANGED left \/ (left["fail"] > 0 /\ left' = [left EXCEPT !["fail"] = @ - 1])
    BY DEF HandlerThrows
  <2> PICK kind \in Kinds : kind = "fail"
    BY DEF Kinds
  <2> QED BY <1>0, <2>1, SpendsOK DEF TypeOK
<1>6. job'[k] = r /\ cycle' = [cycle EXCEPT ![k] = y]
  BY <1>0, <1>3, <1>4 DEF TypeOK
<1>7. CycleOK(k)' /\ LateOK(k)'
  BY <1>0, <1>1, <1>2, <1>4, <1>6 DEF KeyOK, CycleOK, LateOK, HasCompletionReceipt
<1> QED BY <1>0, <1>2, <1>3, <1>4, <1>5, <1>6, <1>7, JobStepOK DEF TypeOK

LEMMA SweepStaleJobsInv ==
  ASSUME IInv, NEW k \in Keys, SweepStaleJobs(k)
  PROVE  IInv'
<1>0. TypeOK /\ KeyOK(k)
  BY DEF IInv, KeyInv
<1> PICK r : r = NoJob
  OBVIOUS
<1> PICK y \in CycleRecords : y = cycle[k]
  BY <1>0 DEF TypeOK, CycleRecords
<1>1. r \in JobRecords /\ r.state = "none" /\ r.by = None /\ r.stage = "idle"
  BY DEF JobRecords, NoJob
<1>2. /\ job' = [job EXCEPT ![k] = r]
      /\ UNCHANGED <<receipt, retired, scheduler, life, kept, calls, astray>>
      /\ UNCHANGED <<queue, cycle>>
  BY DEF SweepStaleJobs
<1>3. left' \in [Kinds -> Nat]
  <2> PICK kind \in Kinds : kind = "sweep"
    BY DEF Kinds
  <2> QED BY <1>0, SpendsOK DEF SweepStaleJobs
<1>4. job'[k] = r /\ cycle' = [cycle EXCEPT ![k] = y]
  BY <1>0, <1>2 DEF TypeOK
<1>5. CycleOK(k)' /\ LateOK(k)'
  BY <1>0, <1>1, <1>2, <1>4 DEF KeyOK, CycleOK, LateOK, HasCompletionReceipt
<1> QED BY <1>0, <1>1, <1>2, <1>3, <1>4, <1>5, JobStepOK DEF TypeOK

LEMMA RecordReceiptInv ==
  ASSUME IInv, NEW k \in Keys, RecordReceipt(k)
  PROVE  IInv'
<1>0. TypeOK /\ KeyInv /\ WorkerInv /\ ScheduleInv /\ KeyOK(k)
  BY DEF IInv, KeyInv
<1>1. /\ UNCHANGED <<scheduler, life, queue, kept, left, astray>>
      /\ receipt' = IF retired[k] = "2" THEN receipt ELSE receipt \union {k}
      /\ retired' = IF retired[k] = "2" THEN [retired EXCEPT ![k] = "no"] ELSE retired
  BY DEF RecordReceipt
<1>2. job[k] \in JobRecords /\ cycle[k] \in CycleRecords /\ job[k].stage = "handled"
  BY <1>0 DEF TypeOK, CycleRecords, RecordReceipt
<1> PICK r : r = [job[k] EXCEPT !.stage = "recorded"]
  OBVIOUS
<1> PICK y : y = [cycle[k] EXCEPT !.recorded = TRUE]
  OBVIOUS
<1>3. /\ r \in JobRecords /\ r.state = job[k].state /\ r.by = job[k].by /\ r.stage = "recorded"
  BY <1>2 DEF JobRecords
<1>4. /\ y \in CycleRecords /\ y.recorded /\ y.finalized = cycle[k].finalized
      /\ y.rerun = cycle[k].rerun
  BY <1>2 DEF CycleRecords
<1>5. job' = [job EXCEPT ![k] = r] /\ cycle' = [cycle EXCEPT ![k] = y]
  BY <1>0 DEF RecordReceipt, TypeOK
<1> DEFINE Marked(c) == Adding(c) /\ c.about = k
<1>6. calls' = {IF Marked(c) THEN [c EXCEPT !.late = TRUE] ELSE c : c \in calls}
  BY DEF RecordReceipt, Adding
<1>7. \A d \in calls' : \/ d \in calls /\ ~Marked(d)
                        \/ d \in KeyCalls /\ Adding(d) /\ d.about = k /\ d.late
  <2> TAKE d \in calls'
  <2>1. PICK c \in calls : d = IF Marked(c) THEN [c EXCEPT !.late = TRUE] ELSE c
    BY <1>6
  <2>2. CASE Marked(c)
    <3>1. c \in KeyCalls /\ c.kind = "emit" /\ c.stage = "adding" /\ c.about = k
      BY <1>0, <2>2, KindOK DEF Adding, ScheduleKinds
    <3>2. d = [c EXCEPT !.late = TRUE]
      BY <2>1, <2>2
    <3> QED BY <3>1, <3>2 DEF KeyCalls, Adding
  <2> QED BY <2>1, <2>2
<1>8. \A c \in calls : ~Marked(c) => c \in calls'
  BY <1>6
<1>9. calls' \in SUBSET (KeyCalls \union ScheduleCalls)
  BY <1>0, <1>7 DEF TypeOK
<1>10. SameSchedules
  BY <1>7, <1>8 DEF SameSchedules, ScheduleKinds, Adding
<1> HIDE DEF Marked
<1>11. TypeOK'
  <2>1. job' \in [Keys -> JobRecords] /\ cycle' \in [Keys -> CycleRecords]
    BY <1>0, <1>3, <1>4, <1>5 DEF TypeOK, CycleRecords
  <2>2. receipt' \in SUBSET Keys /\ retired' \in [Keys -> {"no", "1", "2"}]
    BY <1>0, <1>1 DEF TypeOK
  <2> QED BY <1>0, <1>1, <1>9, <2>1, <2>2 DEF TypeOK, CycleRecords, kept
<1>12. KeyOK(k)'
  <2>1. JobShape(k) /\ CycleOK(k)
    BY <1>0 DEF KeyOK
  <2>2. job'[k] = r /\ cycle'[k] = y
    BY <1>0, <1>5 DEF TypeOK
  <2>3. /\ retired[k] = "2" => retired'[k] = "no" /\ receipt' = receipt
        /\ retired[k] # "2" => retired' = retired /\ k \in receipt'
    BY <1>0, <1>1 DEF TypeOK
  <2>4. JobShape(k)'
    BY <1>2, <1>3, <2>1, <2>2 DEF JobShape
  <2>5. CycleOK(k)'
    BY <1>2, <1>3, <1>4, <2>1, <2>2, <2>3 DEF CycleOK, HasCompletionReceipt
  <2>6. LateOK(k)'
    <3>1. job'[k].state # "waiting" /\ job'[k].stage \notin {"handling", "handled"}
      BY <1>2, <1>3, <2>1, <2>2 DEF JobShape
    <3>2. \A d \in calls' : Adding(d) /\ d.about = k => d.late
      BY <1>7 DEF Marked
    <3> QED BY <3>1, <3>2 DEF LateOK
  <2> QED BY <2>4, <2>5, <2>6 DEF KeyOK
<1>13. KeyInv'
  <2>1. \A i \in Keys \ {k} : /\ job'[i] = job[i] /\ cycle'[i] = cycle[i]
                              /\ retired'[i] = retired[i] /\ (i \in receipt' <=> i \in receipt)
    BY <1>0, <1>1, <1>5 DEF TypeOK
  <2>2. \A c \in calls' : Adding(c) /\ c.about # k => c \in calls
    BY <1>7
  <2> QED BY <1>0, <1>12, <2>1, <2>2, KeyStepOK
<1>14. WorkerInv'
  BY <1>0, <1>1, WorkersStay DEF kept
<1>15. ScheduleInv'
  BY <1>0, <1>1, <1>10, SchedulesStay DEF kept
<1> QED BY <1>11, <1>13, <1>14, <1>15 DEF IInv

-----------------------------------------------------------------------------
(* Retirement and cancel(). *)

(* A command of a call about one key. *)
LEMMA CommandOK ==
  ASSUME IInv, NEW k \in Keys, job' \in [Keys -> JobRecords], receipt' \in SUBSET Keys,
         retired' \in [Keys -> {"no", "1", "2"}], cycle' \in [Keys -> CycleRecords],
         \A i \in Keys \ {k} : /\ job'[i] = job[i] /\ cycle'[i] = cycle[i]
                               /\ retired'[i] = retired[i] /\ (i \in receipt' <=> i \in receipt),
         UNCHANGED <<scheduler, life, kept, left, astray>>,
         calls' \in SUBSET (KeyCalls \union ScheduleCalls),
         queue' \in [Procs -> {"none", "open", "closed"}],
         NoNewAdding, SameSchedules, KeyOK(k)'
  PROVE  IInv'
<1>0. TypeOK /\ KeyInv /\ WorkerInv /\ ScheduleInv
  BY DEF IInv
<1>1. TypeOK'
  BY <1>0 DEF TypeOK, CycleRecords, kept
<1>2. KeyInv'
  BY <1>0, KeyStepOK DEF NoNewAdding
<1>3. WorkerInv'
  BY <1>0, WorkersStay DEF kept
<1>4. ScheduleInv'
  BY <1>0, SchedulesStay DEF kept
<1> QED BY <1>1, <1>2, <1>3, <1>4 DEF IInv

LEMMA PrepareRetirementInv ==
  ASSUME IInv, NEW c \in calls, PrepareRetirement(c)
  PROVE  IInv'
<1>0. TypeOK
  BY DEF IInv
<1>1. /\ c.kind = "retire" /\ Proceed(c, "finalizing")
      /\ UNCHANGED <<job, receipt, scheduler, life, kept, left, astray>>
  BY DEF PrepareRetirement
<1>2. c.kind \notin ScheduleKinds /\ c.about \in Keys
  BY <1>0, <1>1, KindOK DEF ScheduleKinds, KeyCalls
<1> PICK k \in Keys : k = c.about
  BY <1>2
<1>3. KeyOK(k) /\ cycle[k] \in CycleRecords
  BY <1>0 DEF IInv, KeyInv, TypeOK, CycleRecords
<1> PICK y : y = IF CycleEnds(k) THEN Fresh ELSE [cycle[k] EXCEPT !.finalized = FALSE]
  OBVIOUS
<1>4. retired' = [retired EXCEPT ![k] = "1"] /\ cycle' = [cycle EXCEPT ![k] = y]
  BY <1>0 DEF PrepareRetirement, TypeOK
<1>5. /\ y \in CycleRecords /\ ~y.finalized
      /\ CycleEnds(k) => ~y.recorded
      /\ ~CycleEnds(k) => y.recorded = cycle[k].recorded /\ y.rerun = cycle[k].rerun
  BY <1>3 DEF CycleRecords, Fresh
<1>6. /\ calls' \in SUBSET (KeyCalls \union ScheduleCalls) /\ NoNewAdding /\ SameSchedules
      /\ queue' \in [Procs -> {"none", "open", "closed"}]
  <2> PICK stage \in KeyStages : stage = "finalizing"
    BY DEF KeyStages
  <2> QED BY <1>0, <1>1, <1>2, KeyProceedOK
<1>7. retired' \in [Keys -> {"no", "1", "2"}] /\ cycle' \in [Keys -> CycleRecords]
  BY <1>0, <1>4, <1>5 DEF TypeOK, CycleRecords
<1>8. KeyOK(k)'
  <2>1. JobShape(k) /\ CycleOK(k) /\ LateOK(k)
    BY <1>3 DEF KeyOK
  <2>2. cycle'[k] = y /\ retired'[k] = "1" /\ job' = job /\ receipt' = receipt
    BY <1>0, <1>1, <1>4 DEF TypeOK
  <2>3. JobShape(k)'
    BY <2>1, <2>2 DEF JobShape
  <2>4. CycleOK(k)'
    BY <1>5, <2>1, <2>2 DEF CycleOK, CycleEnds, Complete, HasCompletionReceipt
  <2>5. LateOK(k)'
    BY <1>5, <1>6, <2>1, <2>2
       DEF LateOK, CycleOK, CycleEnds, Complete, HasCompletionReceipt, NoNewAdding
  <2> QED BY <2>3, <2>4, <2>5 DEF KeyOK
<1>9. \A i \in Keys \ {k} : /\ job'[i] = job[i] /\ cycle'[i] = cycle[i]
                            /\ retired'[i] = retired[i] /\ (i \in receipt' <=> i \in receipt)
  BY <1>0, <1>1, <1>4 DEF TypeOK
<1>10. job' \in [Keys -> JobRecords] /\ receipt' \in SUBSET Keys
  BY <1>0, <1>1 DEF TypeOK
<1> QED BY <1>1, <1>6, <1>7, <1>8, <1>9, <1>10, CommandOK

LEMMA FinalizeRetirementInv ==
  ASSUME IInv, NEW c \in calls, FinalizeRetirement(c)
  PROVE  IInv'
<1>0. TypeOK
  BY DEF IInv
<1>1. /\ c.kind = "retire" /\ Return(c) /\ UNCHANGED <<job, scheduler, life, kept, left, astray>>
  BY DEF FinalizeRetirement
<1>2. c.kind \notin ScheduleKinds /\ c.about \in Keys
  BY <1>0, <1>1, KindOK DEF ScheduleKinds, KeyCalls
<1> PICK k \in Keys : k = c.about
  BY <1>2
<1>3. KeyOK(k) /\ cycle[k] \in CycleRecords
  BY <1>0 DEF IInv, KeyInv, TypeOK, CycleRecords
<1>4. calls' \in SUBSET (KeyCalls \union ScheduleCalls) /\ NoNewAdding /\ SameSchedules
  BY <1>0, <1>1, <1>2, ReturnOK
<1>5. queue' \in [Procs -> {"none", "open", "closed"}]
  BY <1>0, <1>1 DEF Return, TypeOK
<1>6. job' \in [Keys -> JobRecords]
  BY <1>0, <1>1 DEF TypeOK
<1>7. CASE retired[k] = "no"
  <2>1. UNCHANGED <<receipt, retired, cycle>>
    BY <1>7 DEF FinalizeRetirement
  <2>2. KeyOK(k)'
    BY <1>1, <1>3, <1>4, <2>1 DEF KeyOK, JobShape, CycleOK, LateOK, HasCompletionReceipt, NoNewAdding
  <2>3. \A i \in Keys \ {k} : /\ job'[i] = job[i] /\ cycle'[i] = cycle[i]
                              /\ retired'[i] = retired[i] /\ (i \in receipt' <=> i \in receipt)
    BY <1>1, <2>1
  <2>4. /\ receipt' \in SUBSET Keys /\ retired' \in [Keys -> {"no", "1", "2"}]
        /\ cycle' \in [Keys -> CycleRecords]
    BY <1>0, <2>1 DEF TypeOK, CycleRecords
  <2> QED BY <1>1, <1>4, <1>5, <1>6, <2>2, <2>3, <2>4, CommandOK
<1>8. CASE retired[k] # "no"
  <2> PICK y : y = [cycle[k] EXCEPT !.finalized = TRUE]
    OBVIOUS
  <2>1. /\ retired' = [retired EXCEPT ![k] = IF k \in receipt THEN "no" ELSE "2"]
        /\ receipt' = receipt \ {k} /\ cycle' = [cycle EXCEPT ![k] = y]
    BY <1>0, <1>8 DEF FinalizeRetirement, TypeOK
  <2>2. /\ y \in CycleRecords /\ y.finalized /\ y.recorded = cycle[k].recorded
        /\ y.rerun = cycle[k].rerun
    BY <1>3 DEF CycleRecords
  <2>3. /\ receipt' \in SUBSET Keys /\ retired' \in [Keys -> {"no", "1", "2"}]
        /\ cycle' \in [Keys -> CycleRecords]
    BY <1>0, <2>1, <2>2 DEF TypeOK, CycleRecords
  <2>4. \A i \in Keys \ {k} : /\ job'[i] = job[i] /\ cycle'[i] = cycle[i]
                              /\ retired'[i] = retired[i] /\ (i \in receipt' <=> i \in receipt)
    BY <1>0, <1>1, <2>1 DEF TypeOK
  <2>5. KeyOK(k)'
    <3>1. JobShape(k) /\ CycleOK(k) /\ LateOK(k)
      BY <1>3 DEF KeyOK
    <3>2. /\ cycle'[k] = y /\ job' = job /\ k \notin receipt'
          /\ retired'[k] = IF k \in receipt THEN "no" ELSE "2"
      BY <1>0, <1>1, <2>1 DEF TypeOK
    <3>3. JobShape(k)'
      BY <3>1, <3>2 DEF JobShape
    <3>4. CycleOK(k)'
      BY <1>8, <2>2, <3>1, <3>2 DEF CycleOK, HasCompletionReceipt
    <3>5. LateOK(k)'
      BY <1>4, <1>8, <2>2, <3>1, <3>2 DEF LateOK, HasCompletionReceipt, NoNewAdding
    <3> QED BY <3>3, <3>4, <3>5 DEF KeyOK
  <2> QED BY <1>1, <1>4, <1>5, <1>6, <2>3, <2>4, <2>5, CommandOK
<1> QED BY <1>7, <1>8

LEMMA CancelFindsInv ==
  ASSUME IInv, NEW c \in calls, CancelFinds(c)
  PROVE  IInv'
<1>0. TypeOK
  BY DEF IInv
<1>1. c.kind = "cancel" /\ UNCHANGED <<redis, life, kept, left, cycle, astray>>
  BY DEF CancelFinds
<1>2. c.kind \notin ScheduleKinds /\ c.about \in Keys
  BY <1>0, <1>1, KindOK DEF ScheduleKinds, KeyCalls
<1> PICK k \in Keys : k = c.about
  BY <1>2
<1>3. /\ calls' \in SUBSET (KeyCalls \union ScheduleCalls) /\ NoNewAdding /\ SameSchedules
      /\ queue' \in [Procs -> {"none", "open", "closed"}]
  <2> PICK stage \in KeyStages \ {"adding"} :
        stage = IF job[k].state = "none" THEN "discarding" ELSE "removing"
    BY DEF KeyStages
  <2>1. Proceed(c, stage)
    BY DEF CancelFinds
  <2> QED BY <1>0, <1>2, <2>1, KeyProceedOK
<1>4. KeyOK(k)
  BY DEF IInv, KeyInv
<1>5. KeyOK(k)'
  BY <1>1, <1>3, <1>4
     DEF KeyOK, JobShape, CycleOK, LateOK, HasCompletionReceipt, NoNewAdding, redis
<1>6. /\ job' \in [Keys -> JobRecords] /\ receipt' \in SUBSET Keys
      /\ retired' \in [Keys -> {"no", "1", "2"}] /\ cycle' \in [Keys -> CycleRecords]
  BY <1>0, <1>1 DEF TypeOK, CycleRecords, redis
<1> QED BY <1>1, <1>3, <1>5, <1>6, CommandOK DEF redis

LEMMA CancelRemovesInv ==
  ASSUME IInv, NEW c \in calls, CancelRemoves(c)
  PROVE  IInv'
<1>0. TypeOK
  BY DEF IInv
<1>1. /\ c.kind = "cancel"
      /\ UNCHANGED <<receipt, retired, scheduler, life, kept, left, cycle, astray>>
  BY DEF CancelRemoves
<1>2. c.kind \notin ScheduleKinds /\ c.about \in Keys
  BY <1>0, <1>1, KindOK DEF ScheduleKinds, KeyCalls
<1> PICK k \in Keys : k = c.about
  BY <1>2
<1> PICK r : r = NoJob
  OBVIOUS
<1>3. r \in JobRecords /\ r.state = "none" /\ r.by = None /\ r.stage = "idle"
  BY DEF JobRecords, NoJob
<1>4. /\ calls' \in SUBSET (KeyCalls \union ScheduleCalls) /\ NoNewAdding /\ SameSchedules
      /\ queue' \in [Procs -> {"none", "open", "closed"}]
      /\ UNCHANGED job \/ job' = [job EXCEPT ![k] = r]
  <2>1. CASE job[k].state = "active"
    <3>1. Return(c) /\ UNCHANGED job
      BY <2>1 DEF CancelRemoves
    <3>2. queue' \in [Procs -> {"none", "open", "closed"}]
      BY <1>0, <3>1 DEF TypeOK, Return
    <3> QED BY <1>0, <1>2, <3>1, <3>2, ReturnOK
  <2>2. CASE job[k].state # "active"
    <3> PICK stage \in KeyStages \ {"adding"} : stage = "discarding"
      BY DEF KeyStages
    <3>1. Proceed(c, stage) /\ job' = [job EXCEPT ![k] = r]
      BY <2>2 DEF CancelRemoves
    <3> QED BY <1>0, <1>2, <3>1, KeyProceedOK
  <2> QED BY <2>1, <2>2
<1>5. KeyOK(k)
  BY DEF IInv, KeyInv
<1>6. job'[k] = job[k] \/ job'[k] = r
  BY <1>0, <1>4 DEF TypeOK
<1>7. JobShape(k)' /\ CycleOK(k)'
  BY <1>1, <1>3, <1>5, <1>6 DEF KeyOK, JobShape, CycleOK, HasCompletionReceipt
<1>8. LateOK(k)'
  BY <1>1, <1>3, <1>4, <1>5, <1>6 DEF KeyOK, LateOK, HasCompletionReceipt, NoNewAdding
<1>9. \A i \in Keys \ {k} : job'[i] = job[i]
  BY <1>0, <1>4 DEF TypeOK
<1>10. /\ job' \in [Keys -> JobRecords] /\ receipt' \in SUBSET Keys
       /\ retired' \in [Keys -> {"no", "1", "2"}] /\ cycle' \in [Keys -> CycleRecords]
  BY <1>0, <1>1, <1>3, <1>4 DEF TypeOK, CycleRecords
<1> QED BY <1>1, <1>4, <1>7, <1>8, <1>9, <1>10, CommandOK DEF KeyOK

LEMMA CancelDiscardsInv ==
  ASSUME IInv, NEW c \in calls, CancelDiscards(c)
  PROVE  IInv'
<1>0. TypeOK
  BY DEF IInv
<1>1. /\ c.kind = "cancel" /\ Return(c) /\ UNCHANGED <<job, scheduler, life, kept, left, astray>>
  BY DEF CancelDiscards
<1>2. c.kind \notin ScheduleKinds /\ c.about \in Keys
  BY <1>0, <1>1, KindOK DEF ScheduleKinds, KeyCalls
<1> PICK k \in Keys : k = c.about
  BY <1>2
<1>3. /\ receipt' = receipt \ {k} /\ retired' = [retired EXCEPT ![k] = "no"]
      /\ cycle' = [cycle EXCEPT ![k] = Fresh]
  BY DEF CancelDiscards
<1>4. calls' \in SUBSET (KeyCalls \union ScheduleCalls) /\ NoNewAdding /\ SameSchedules
  BY <1>0, <1>1, <1>2, ReturnOK
<1>5. queue' \in [Procs -> {"none", "open", "closed"}]
  BY <1>0, <1>1 DEF Return, TypeOK
<1>6. KeyOK(k)'
  <2>1. JobShape(k)
    BY DEF IInv, KeyInv, KeyOK
  <2>2. /\ ~cycle'[k].recorded /\ ~cycle'[k].finalized /\ retired'[k] = "no"
        /\ k \notin receipt' /\ job' = job
    BY <1>0, <1>1, <1>3 DEF TypeOK, Fresh
  <2> QED BY <2>1, <2>2 DEF KeyOK, JobShape, CycleOK, LateOK
<1>7. \A i \in Keys \ {k} : /\ job'[i] = job[i] /\ cycle'[i] = cycle[i]
                            /\ retired'[i] = retired[i] /\ (i \in receipt' <=> i \in receipt)
  BY <1>0, <1>1, <1>3 DEF TypeOK
<1>8. /\ job' \in [Keys -> JobRecords] /\ receipt' \in SUBSET Keys
      /\ retired' \in [Keys -> {"no", "1", "2"}] /\ cycle' \in [Keys -> CycleRecords]
  BY <1>0, <1>1, <1>3 DEF TypeOK, CycleRecords, Fresh
<1> QED BY <1>1, <1>4, <1>5, <1>6, <1>7, <1>8, CommandOK

-----------------------------------------------------------------------------
(* Workers. *)

(* A step of the workers and of the processes. *)
LEMMA WorkerStepOK ==
  ASSUME IInv, UNCHANGED <<redis, book, calls, cycle, astray>>,
         worker' \in [Workers -> WorkerRecords], current' \in [Procs -> Workers \union {None}],
         life' \in [Procs -> Lives], queue' \in [Procs -> {"none", "open", "closed"}],
         left' \in [Kinds -> Nat], WorkerInv'
  PROVE  IInv'
<1>0. TypeOK /\ KeyInv /\ ScheduleInv
  BY DEF IInv
<1>1. TypeOK'
  BY <1>0 DEF TypeOK, redis
<1>2. KeyInv'
  BY <1>0, KeysStay DEF redis, NoNewAdding
<1>3. ScheduleInv'
  BY <1>0, SchedulesStay DEF redis, SameSchedules
<1> QED BY <1>1, <1>2, <1>3 DEF IInv

LEMMA RegisterWorkerInv ==
  ASSUME IInv, NEW p \in Procs, NEW w \in Workers, RegisterWorker(p, w)
  PROVE  IInv'
<1>0. TypeOK /\ WorkerInv
  BY DEF IInv
<1>1. /\ worker[w].state = "none" /\ UNCHANGED <<redis, life, queue, current, book, calls, cycle, astray>>
  BY DEF RegisterWorker
<1> PICK r : r = [proc |-> p, state |-> "open", registration |-> "starting", replaces |-> None]
  OBVIOUS
<1>2. /\ worker' = [worker EXCEPT ![w] = r] /\ r \in WorkerRecords
      /\ r.proc = p /\ r.state = "open" /\ r.registration = "starting"
  BY DEF RegisterWorker, WorkerRecords
<1>3. worker' \in [Workers -> WorkerRecords]
  BY <1>0, <1>2 DEF TypeOK
<1>4. left' \in [Kinds -> Nat]
  <2> PICK kind \in Kinds : kind = "register"
    BY DEF Kinds
  <2> QED BY <1>0, SpendsOK DEF RegisterWorker
<1>5. worker'[w] = r /\ \A x \in Workers : x # w => worker'[x] = worker[x]
  BY <1>0, <1>2 DEF TypeOK
<1>6. \A q \in Procs : CurrentOK(q)'
  <2> TAKE q \in Procs
  <2>1. CurrentOK(q) /\ current[q] \in Workers \union {None}
    BY <1>0 DEF WorkerInv, TypeOK
  <2>2. current[q] # w
    BY <1>1, <2>1, QueueAssumption DEF CurrentOK
  <2> QED BY <1>1, <1>5, <2>1, <2>2 DEF CurrentOK
<1>7. \A x \in Workers : WorkerOK(x)'
  BY <1>0, <1>1, <1>2, <1>5 DEF WorkerInv, WorkerOK
<1>8. /\ current' \in [Procs -> Workers \union {None}] /\ life' \in [Procs -> Lives]
      /\ queue' \in [Procs -> {"none", "open", "closed"}]
  BY <1>0, <1>1 DEF TypeOK
<1> QED BY <1>1, <1>3, <1>4, <1>6, <1>7, <1>8, WorkerStepOK DEF WorkerInv

LEMMA WorkerReadyInv ==
  ASSUME IInv, NEW w \in Workers, WorkerReady(w)
  PROVE  IInv'
<1>0. TypeOK /\ WorkerInv
  BY DEF IInv
<1>1. /\ worker[w].registration = "starting"
      /\ UNCHANGED <<redis, life, queue, book, calls, left, cycle, astray>>
  BY DEF WorkerReady
<1>2. worker[w].proc \in Procs /\ worker[w].state # "none" /\ worker[w] \in WorkerRecords
  BY <1>0, <1>1 DEF WorkerInv, WorkerOK, TypeOK
<1> PICK p \in Procs : p = worker[w].proc
  BY <1>2
<1> PICK old \in Workers \union {None} : old = current[p]
  BY <1>0 DEF TypeOK
<1>3. current' = [current EXCEPT ![p] = w]
  BY DEF WorkerReady
<1>4. old # None => worker[old].proc = p /\ old # w /\ old \in Workers
  BY <1>0, <1>1 DEF WorkerInv, CurrentOK
<1>5. worker' = IF old = None THEN [worker EXCEPT ![w].registration = "done"]
                ELSE [worker EXCEPT ![w].registration = "replacing", ![w].replaces = old,
                                    ![old].state = IF @ = "open" THEN "closing" ELSE @]
  BY DEF WorkerReady
<1>6. /\ worker'[w].proc = p /\ worker'[w].state = worker[w].state
      /\ worker'[w].registration # "starting" /\ worker'[w] \in WorkerRecords
  <2>1. CASE old = None
    BY <1>0, <1>2, <1>5, <2>1 DEF TypeOK, WorkerRecords
  <2>2. CASE old # None
    BY <1>0, <1>2, <1>4, <1>5, <2>2 DEF TypeOK, WorkerRecords
  <2> QED BY <2>1, <2>2
<1>7. \A x \in Workers : x # w /\ x # old => worker'[x] = worker[x]
  BY <1>0, <1>5 DEF TypeOK
<1>8. old # None => /\ worker'[old].proc = p /\ worker'[old] \in WorkerRecords
                    /\ worker'[old].registration = worker[old].registration
                    /\ worker'[old].state # "open"
                    /\ worker'[old].state = "none" <=> worker[old].state = "none"
  <2> SUFFICES ASSUME old # None
               PROVE  /\ worker'[old].proc = p /\ worker'[old] \in WorkerRecords
                      /\ worker'[old].registration = worker[old].registration
                      /\ worker'[old].state # "open"
                      /\ worker'[old].state = "none" <=> worker[old].state = "none"
    OBVIOUS
  <2>1. worker[old] \in WorkerRecords /\ worker[old].proc = p
    BY <1>0, <1>4 DEF TypeOK
  <2>2. worker'[old] = [worker[old] EXCEPT !.state = IF @ = "open" THEN "closing" ELSE @]
    BY <1>0, <1>4, <1>5 DEF TypeOK
  <2> PICK s : s = IF worker[old].state = "open" THEN "closing" ELSE worker[old].state
    OBVIOUS
  <2>3. worker'[old] = [worker[old] EXCEPT !.state = s] /\ s \in {"none", "closing", "closed"}
    BY <2>1, <2>2 DEF WorkerRecords
  <2> QED BY <2>1, <2>3 DEF WorkerRecords
<1>9. worker' \in [Workers -> WorkerRecords]
  <2>1. worker' = [x \in Workers |-> worker'[x]]
    BY <1>0, <1>5 DEF TypeOK
  <2>2. \A x \in Workers : worker'[x] \in WorkerRecords
    BY <1>0, <1>6, <1>7, <1>8, QueueAssumption DEF TypeOK
  <2> QED BY <2>1, <2>2
<1>10. current' \in [Procs -> Workers \union {None}] /\ current'[p] = w
  BY <1>0, <1>3 DEF TypeOK
<1>11. \A q \in Procs : q # p => current'[q] = current[q]
  BY <1>0, <1>3 DEF TypeOK
<1>12. \A q \in Procs : CurrentOK(q)'
  <2> TAKE q \in Procs
  <2>1. CASE q = p
    BY <1>2, <1>6, <1>10, <2>1 DEF CurrentOK
  <2>2. CASE q # p
    <3>1. CurrentOK(q) /\ current'[q] = current[q] /\ current[q] \in Workers \union {None}
      BY <1>0, <1>11, <2>2 DEF WorkerInv, TypeOK
    <3>2. current[q] # None => current[q] # w /\ current[q] # old
      BY <1>1, <1>4, <2>2, <3>1 DEF CurrentOK
    <3> QED BY <1>7, <3>1, <3>2 DEF CurrentOK
  <2> QED BY <2>1, <2>2
<1>13. \A x \in Workers : WorkerOK(x)'
  <2> TAKE x \in Workers
  <2>1. WorkerOK(x)
    BY <1>0 DEF WorkerInv
  <2>2. CASE x = w
    BY <1>6, <1>10, <2>2 DEF WorkerOK
  <2>3. CASE x # w /\ x = old
    BY <1>4, <1>8, <2>1, <2>3, QueueAssumption DEF WorkerOK
  <2>4. CASE x # w /\ x # old
    BY <1>7, <1>11, <2>1, <2>4 DEF WorkerOK
  <2> QED BY <2>2, <2>3, <2>4
<1>14. /\ life' \in [Procs -> Lives] /\ left' \in [Kinds -> Nat]
       /\ queue' \in [Procs -> {"none", "open", "closed"}]
  BY <1>0, <1>1 DEF TypeOK
<1> QED BY <1>1, <1>9, <1>10, <1>12, <1>13, <1>14, WorkerStepOK DEF WorkerInv

LEMMA WorkerNeverReadyInv ==
  ASSUME IInv, NEW w \in Workers, WorkerNeverReady(w)
  PROVE  IInv'
<1>0. TypeOK /\ WorkerInv
  BY DEF IInv
<1>1. /\ worker[w].registration = "starting"
      /\ UNCHANGED <<redis, life, queue, current, book, calls, cycle, astray>>
  BY DEF WorkerNeverReady
<1>2. left' \in [Kinds -> Nat]
  <2> PICK kind \in Kinds : kind = "fail"
    BY DEF Kinds
  <2> QED BY <1>0, SpendsOK DEF WorkerNeverReady
<1>3. worker' = [worker EXCEPT ![w].registration = "failed"] /\ worker[w] \in WorkerRecords
  BY <1>0 DEF WorkerNeverReady, TypeOK
<1>4. /\ worker'[w].proc = worker[w].proc /\ worker'[w].state = worker[w].state
      /\ worker'[w].registration = "failed" /\ worker'[w] \in WorkerRecords
      /\ \A x \in Workers : x # w => worker'[x] = worker[x]
  BY <1>0, <1>3 DEF TypeOK, WorkerRecords
<1>5. worker' \in [Workers -> WorkerRecords]
  BY <1>0, <1>3, <1>4 DEF TypeOK
<1>6. \A q \in Procs : CurrentOK(q)'
  <2> TAKE q \in Procs
  <2>1. CurrentOK(q) /\ current[q] \in Workers \union {None}
    BY <1>0 DEF WorkerInv, TypeOK
  <2> QED BY <1>1, <1>4, <2>1 DEF CurrentOK
<1>7. \A x \in Workers : WorkerOK(x)'
  BY <1>0, <1>1, <1>4 DEF WorkerInv, WorkerOK
<1>8. /\ current' \in [Procs -> Workers \union {None}] /\ life' \in [Procs -> Lives]
      /\ queue' \in [Procs -> {"none", "open", "closed"}]
  BY <1>0, <1>1 DEF TypeOK
<1> QED BY <1>1, <1>2, <1>5, <1>6, <1>7, <1>8, WorkerStepOK DEF WorkerInv

LEMMA WorkerClosesInv ==
  ASSUME IInv, NEW w \in Workers, WorkerCloses(w)
  PROVE  IInv'
<1>0. TypeOK /\ WorkerInv
  BY DEF IInv
<1>1. /\ worker[w].state = "closing"
      /\ UNCHANGED <<redis, life, queue, current, book, calls, left, cycle, astray>>
  BY DEF WorkerCloses
<1>2. \A x \in Workers :
        /\ worker'[x] \in WorkerRecords /\ worker'[x].proc = worker[x].proc
        /\ worker'[x].state = IF x = w THEN "closed" ELSE worker[x].state
        /\ \/ worker'[x].registration = worker[x].registration
           \/ worker[x].registration = "replacing" /\ worker'[x].registration = "done"
  <2> TAKE x \in Workers
  <2>1. worker[x] \in WorkerRecords
    BY <1>0 DEF TypeOK
  <2>2. worker'[x] =
          IF x = w THEN [worker[x] EXCEPT !.state = "closed"]
          ELSE IF worker[x].replaces = w
               THEN [worker[x] EXCEPT !.registration = IF @ = "replacing" THEN "done" ELSE @,
                                      !.replaces = None]
          ELSE worker[x]
    BY DEF WorkerCloses
  <2>3. CASE x = w
    BY <2>1, <2>2, <2>3 DEF WorkerRecords
  <2>4. CASE x # w /\ worker[x].replaces = w
    <3> PICK g : g = IF worker[x].registration = "replacing" THEN "done" ELSE worker[x].registration
      OBVIOUS
    <3>1. worker'[x] = [worker[x] EXCEPT !.registration = g, !.replaces = None]
      BY <2>2, <2>4
    <3>2. g \in {"none", "starting", "replacing", "done", "failed", "overtaken"}
      BY <2>1 DEF WorkerRecords
    <3> QED BY <2>1, <2>4, <3>1, <3>2 DEF WorkerRecords
  <2>5. CASE x # w /\ worker[x].replaces # w
    BY <2>1, <2>2, <2>5
  <2> QED BY <2>3, <2>4, <2>5
<1>3. worker' \in [Workers -> WorkerRecords]
  BY <1>2 DEF WorkerCloses
<1>4. \A q \in Procs : CurrentOK(q)'
  <2> TAKE q \in Procs
  <2>1. CurrentOK(q) /\ current[q] \in Workers \union {None}
    BY <1>0 DEF WorkerInv, TypeOK
  <2> QED BY <1>1, <1>2, <2>1 DEF CurrentOK
<1>5. \A x \in Workers : WorkerOK(x)'
  BY <1>0, <1>1, <1>2 DEF WorkerInv, WorkerOK
<1>6. /\ current' \in [Procs -> Workers \union {None}] /\ life' \in [Procs -> Lives]
      /\ queue' \in [Procs -> {"none", "open", "closed"}] /\ left' \in [Kinds -> Nat]
  BY <1>0, <1>1 DEF TypeOK
<1> QED BY <1>1, <1>3, <1>4, <1>5, <1>6, WorkerStepOK DEF WorkerInv

-----------------------------------------------------------------------------
(* stop(), start() and crashes. *)

LEMMA StopBeginsInv ==
  ASSUME IInv, NEW p \in Procs, StopBegins(p)
  PROVE  IInv'
<1>0. TypeOK /\ WorkerInv
  BY DEF IInv
<1>1. UNCHANGED <<redis, current, book, calls, cycle, astray>>
  BY DEF StopBegins
<1>2. left' \in [Kinds -> Nat] /\ current' \in [Procs -> Workers \union {None}]
  <2> PICK kind \in Kinds : kind = "stop"
    BY DEF Kinds
  <2> QED BY <1>0, <1>1, SpendsOK DEF StopBegins, TypeOK
<1> PICK w \in Workers \union {None} : w = current[p]
  BY <1>0 DEF TypeOK
<1>3. CASE w = None
  <2>1. /\ life' = [life EXCEPT ![p].stage = "queues"] /\ UNCHANGED worker
        /\ queue' = [queue EXCEPT ![p] = IF @ = "open" THEN "closed" ELSE @]
    BY <1>3 DEF StopBegins
  <2>2. /\ life' \in [Procs -> Lives] /\ queue' \in [Procs -> {"none", "open", "closed"}]
        /\ worker' \in [Workers -> WorkerRecords]
    BY <1>0, <2>1 DEF TypeOK, Lives
  <2>3. WorkerInv'
    BY <1>0, <1>1, <2>1, WorkersStay
  <2> QED BY <1>1, <1>2, <2>2, <2>3, WorkerStepOK
<1>4. CASE w # None
  <2>1. /\ life' = [life EXCEPT ![p] = [stage |-> "workers", waits |-> w]] /\ UNCHANGED queue
        /\ worker' = [worker EXCEPT ![w].state = IF @ = "open" THEN "closing" ELSE @]
    BY <1>4 DEF StopBegins
  <2>2. life' \in [Procs -> Lives] /\ queue' \in [Procs -> {"none", "open", "closed"}]
    BY <1>0, <2>1 DEF TypeOK, Lives
  <2>3. w \in Workers /\ worker[w] \in WorkerRecords
    BY <1>0, <1>4 DEF TypeOK
  <2> PICK s : s = IF worker[w].state = "open" THEN "closing" ELSE worker[w].state
    OBVIOUS
  <2>4. worker' = [worker EXCEPT ![w] = [worker[w] EXCEPT !.state = s]]
    BY <1>0, <2>1, <2>3 DEF TypeOK
  <2>5. s \in {"none", "closing", "closed"} /\ (s = "none" <=> worker[w].state = "none")
    BY <2>3 DEF WorkerRecords
  <2>6. /\ worker'[w] \in WorkerRecords /\ worker'[w].proc = worker[w].proc
        /\ worker'[w].state = s /\ worker'[w].registration = worker[w].registration
        /\ \A x \in Workers : x # w => worker'[x] = worker[x]
    BY <1>0, <2>3, <2>4, <2>5 DEF TypeOK, WorkerRecords
  <2>7. worker' \in [Workers -> WorkerRecords]
    BY <1>0, <2>4, <2>6 DEF TypeOK
  <2>8. \A q \in Procs : CurrentOK(q)'
    <3> TAKE q \in Procs
    <3>1. CurrentOK(q) /\ current[q] \in Workers \union {None} /\ current'[q] = current[q]
      BY <1>0, <1>1 DEF WorkerInv, TypeOK
    <3> QED BY <2>5, <2>6, <3>1 DEF CurrentOK
  <2>9. \A x \in Workers : WorkerOK(x)'
    BY <1>0, <1>1, <2>5, <2>6 DEF WorkerInv, WorkerOK
  <2> QED BY <1>1, <1>2, <2>2, <2>7, <2>8, <2>9, WorkerStepOK DEF WorkerInv
<1> QED BY <1>3, <1>4

LEMMA WorkersStoppedInv ==
  ASSUME IInv, NEW p \in Procs, WorkersStopped(p)
  PROVE  IInv'
<1>0. TypeOK /\ WorkerInv
  BY DEF IInv
<1>1. /\ UNCHANGED <<redis, book, calls, left, cycle, astray>>
      /\ life' = [life EXCEPT ![p] = [stage |-> "queues", waits |-> None]]
      /\ current' = [current EXCEPT ![p] = None]
      /\ queue' = [queue EXCEPT ![p] = IF @ = "open" THEN "closed" ELSE @]
      /\ worker[life[p].waits].state = "closed"
  BY DEF WorkersStopped
<1>2. /\ life' \in [Procs -> Lives] /\ queue' \in [Procs -> {"none", "open", "closed"}]
      /\ current' \in [Procs -> Workers \union {None}] /\ left' \in [Kinds -> Nat]
  BY <1>0, <1>1 DEF TypeOK, Lives
<1> PICK w \in Workers \union {None} : w = current[p]
  BY <1>0 DEF TypeOK
<1>3. worker' = IF w = life[p].waits THEN worker
                ELSE [worker EXCEPT ![w].registration = "overtaken"]
  BY DEF WorkersStopped
<1>4. worker' \in [Workers -> WorkerRecords]
  <2>1. CASE w = life[p].waits
    BY <1>0, <1>3, <2>1 DEF TypeOK
  <2>2. CASE w # life[p].waits
    <3>1. worker' = [worker EXCEPT ![w].registration = "overtaken"]
      BY <1>3, <2>2
    <3>2. \A x \in Workers : worker'[x] \in WorkerRecords
      <4> TAKE x \in Workers
      <4>1. worker[x] \in WorkerRecords
        BY <1>0 DEF TypeOK
      <4>2. worker'[x] = IF x = w THEN [worker[x] EXCEPT !.registration = "overtaken"]
                         ELSE worker[x]
        BY <1>0, <3>1 DEF TypeOK
      <4> QED BY <4>1, <4>2 DEF WorkerRecords
    <3>3. worker' = [x \in Workers |-> worker'[x]]
      BY <1>0, <3>1 DEF TypeOK
    <3> QED BY <3>2, <3>3
  <2> QED BY <2>1, <2>2
<1>5. \A x \in Workers : /\ worker'[x].proc = worker[x].proc /\ worker'[x].state = worker[x].state
                         /\ \/ worker'[x].registration = worker[x].registration
                            \/ x = w /\ worker'[x].registration = "overtaken"
  BY <1>0, <1>3 DEF TypeOK, WorkerRecords
<1>6. \A x \in Workers : x = w /\ worker[x].state = "open" => worker'[x].registration = "overtaken"
  <2> SUFFICES ASSUME w \in Workers, worker[w].state = "open"
               PROVE  worker'[w].registration = "overtaken"
    OBVIOUS
  <2>1. w # life[p].waits /\ worker[w] \in WorkerRecords
    BY <1>0, <1>1 DEF TypeOK
  <2>2. worker'[w] = [worker[w] EXCEPT !.registration = "overtaken"]
    BY <1>0, <1>3, <2>1 DEF TypeOK
  <2> QED BY <2>1, <2>2 DEF WorkerRecords
<1>7. current'[p] = None /\ \A q \in Procs : q # p => current'[q] = current[q]
  BY <1>0, <1>1 DEF TypeOK
<1>8. \A q \in Procs : CurrentOK(q)'
  <2> TAKE q \in Procs
  <2>1. CurrentOK(q) /\ current[q] \in Workers \union {None}
    BY <1>0 DEF WorkerInv, TypeOK
  <2> QED BY <1>5, <1>7, <2>1 DEF CurrentOK
<1>9. \A x \in Workers : WorkerOK(x)'
  <2> TAKE x \in Workers
  <2>1. WorkerOK(x)
    BY <1>0 DEF WorkerInv
  <2>2. worker'[x].state = "open" =>
          \/ current'[worker'[x].proc] = x
          \/ worker'[x].registration \in {"starting", "failed", "overtaken"}
    <3> SUFFICES ASSUME worker'[x].state = "open"
                 PROVE  \/ current'[worker'[x].proc] = x
                        \/ worker'[x].registration \in {"starting", "failed", "overtaken"}
      OBVIOUS
    <3>1. worker[x].state = "open" /\ worker'[x].proc = worker[x].proc /\ worker[x].proc \in Procs
      BY <1>5, <2>1 DEF WorkerOK
    <3>2. CASE x = w
      BY <1>6, <3>1, <3>2
    <3>3. CASE x # w
      <4>1. worker'[x].registration = worker[x].registration
        BY <1>5, <3>3
      <4>2. CASE worker[x].proc = p
        BY <2>1, <3>1, <3>3, <4>1, <4>2 DEF WorkerOK
      <4>3. CASE worker[x].proc # p
        BY <1>7, <2>1, <3>1, <4>1, <4>3 DEF WorkerOK
      <4> QED BY <4>2, <4>3
    <3> QED BY <3>2, <3>3
  <2> QED BY <1>5, <2>1, <2>2 DEF WorkerOK
<1> QED BY <1>1, <1>2, <1>4, <1>8, <1>9, WorkerStepOK DEF WorkerInv

(* When every schedule has gone astray, the book says nothing. *)
LEMMA AstrayOK ==
  ASSUME astray' = Ids
  PROVE  ScheduleInv'
BY DEF ScheduleInv, ScheduleOK

LEMMA StoppedInv ==
  ASSUME IInv, NEW p \in Procs, Stopped(p)
  PROVE  IInv'
<1>0. TypeOK /\ WorkerInv /\ KeyInv
  BY DEF IInv
<1>1. /\ UNCHANGED <<redis, worker, current, calls, left, cycle>> /\ astray' = Ids
      /\ life' = [life EXCEPT ![p].stage = "stopped"] /\ queue' = [queue EXCEPT ![p] = "none"]
      /\ book' = [book EXCEPT ![p] = NoBook]
  BY DEF Stopped
<1>2. life' \in [Procs -> Lives] /\ queue' \in [Procs -> {"none", "open", "closed"}]
  BY <1>0, <1>1 DEF TypeOK, Lives
<1>3. book' \in [Procs -> [Ids -> Options \union {None}]]
  BY <1>0, <1>1 DEF TypeOK, NoBook
<1>4. TypeOK'
  BY <1>0, <1>1, <1>2, <1>3 DEF TypeOK, redis
<1>5. KeyInv'
  BY <1>0, <1>1, KeysStay DEF redis, NoNewAdding
<1>6. WorkerInv'
  BY <1>0, <1>1, WorkersStay
<1> QED BY <1>1, <1>4, <1>5, <1>6, AstrayOK DEF IInv

LEMMA StartInv ==
  ASSUME IInv, NEW p \in Procs, Start(p)
  PROVE  IInv'
<1>0. TypeOK /\ WorkerInv
  BY DEF IInv
<1>1. /\ UNCHANGED <<redis, queue, kept, calls, left, cycle, astray>>
      /\ life' = [life EXCEPT ![p] = Running]
  BY DEF Start
<1>2. /\ life' \in [Procs -> Lives] /\ queue' \in [Procs -> {"none", "open", "closed"}]
      /\ worker' \in [Workers -> WorkerRecords] /\ current' \in [Procs -> Workers \union {None}]
      /\ left' \in [Kinds -> Nat]
  BY <1>0, <1>1 DEF TypeOK, Lives, Running, kept
<1>3. WorkerInv'
  BY <1>0, <1>1, WorkersStay DEF kept
<1> QED BY <1>1, <1>2, <1>3, WorkerStepOK DEF kept

LEMMA CrashInv ==
  ASSUME IInv, NEW p \in Procs, Crash(p)
  PROVE  IInv'
<1>0. TypeOK /\ WorkerInv /\ KeyInv
  BY DEF IInv
<1>1. /\ UNCHANGED <<receipt, retired, scheduler, cycle>> /\ astray' = Ids
      /\ life' = [life EXCEPT ![p] = Running] /\ queue' = [queue EXCEPT ![p] = "none"]
      /\ book' = [book EXCEPT ![p] = NoBook] /\ calls' = {c \in calls : c.proc # p}
      /\ current' = [current EXCEPT ![p] = None]
      /\ worker' = [w \in Workers |-> IF worker[w].proc # p THEN worker[w]
           ELSE [worker[w] EXCEPT !.state = "closed", !.registration = "done", !.replaces = None]]
  BY DEF Crash
<1>2. PICK again \in {"waiting", "failed"} :
        job' = [k \in Keys |->
          IF job[k].by # None /\ worker[job[k].by].proc = p
          THEN [NoJob EXCEPT !.state = again, !.tries = job[k].tries,
                             !.late = job[k].late \/ job[k].stage = "recorded"]
          ELSE job[k]]
  BY DEF Crash
<1>3. left' \in [Kinds -> Nat]
  <2> PICK kind \in Kinds : kind = "crash"
    BY DEF Kinds
  <2> QED BY <1>0, SpendsOK DEF Crash
<1>4. /\ life' \in [Procs -> Lives] /\ queue' \in [Procs -> {"none", "open", "closed"}]
      /\ book' \in [Procs -> [Ids -> Options \union {None}]]
      /\ current' \in [Procs -> Workers \union {None}]
      /\ calls' \in SUBSET (KeyCalls \union ScheduleCalls)
  BY <1>0, <1>1 DEF TypeOK, Lives, Running, NoBook
<1>5. \A k \in Keys : job[k] \in JobRecords
  BY <1>0 DEF TypeOK
<1>6. \A k \in Keys :
        \/ job'[k] = job[k]
        \/ /\ job[k].by # None /\ job'[k] \in JobRecords
           /\ job'[k].state \in {"waiting", "failed"} /\ job'[k].by = None /\ job'[k].stage = "idle"
           /\ job'[k].late = (job[k].late \/ job[k].stage = "recorded")
  <2> TAKE k \in Keys
  <2>1. job'[k] = IF job[k].by # None /\ worker[job[k].by].proc = p
                  THEN [NoJob EXCEPT !.state = again, !.tries = job[k].tries,
                                     !.late = job[k].late \/ job[k].stage = "recorded"]
                  ELSE job[k]
    BY <1>2
  <2> PICK n \in Nat : n = job[k].tries
    BY <1>5 DEF JobRecords
  <2> PICK b \in BOOLEAN : b = (job[k].late \/ job[k].stage = "recorded")
    OBVIOUS
  <2> PICK r : r = [NoJob EXCEPT !.state = again, !.tries = n, !.late = b]
    OBVIOUS
  <2>2. /\ r \in JobRecords /\ r.state = again /\ r.by = None /\ r.stage = "idle" /\ r.late = b
    BY DEF JobRecords, NoJob
  <2> QED BY <2>1, <2>2
<1>7. job' \in [Keys -> JobRecords]
  BY <1>2, <1>5, <1>6
<1>8. \A w \in Workers :
        /\ worker'[w] \in WorkerRecords /\ worker'[w].proc = worker[w].proc
        /\ worker[w].proc # p => worker'[w] = worker[w]
        /\ worker[w].proc = p => worker'[w].state = "closed" /\ worker'[w].registration = "done"
  <2> TAKE w \in Workers
  <2>1. worker[w] \in WorkerRecords
    BY <1>0 DEF TypeOK
  <2>2. worker'[w] = IF worker[w].proc # p THEN worker[w]
          ELSE [worker[w] EXCEPT !.state = "closed", !.registration = "done", !.replaces = None]
    BY <1>1
  <2> QED BY <2>1, <2>2 DEF WorkerRecords
<1>9. worker' \in [Workers -> WorkerRecords]
  BY <1>1, <1>8
<1>10. TypeOK'
  BY <1>0, <1>1, <1>3, <1>4, <1>7, <1>9 DEF TypeOK
<1>11. KeyInv'
  <2> SUFFICES ASSUME NEW k \in Keys
               PROVE  KeyOK(k)'
    BY DEF KeyInv
  <2>1. KeyOK(k)
    BY <1>0 DEF KeyInv
  <2>2. \/ job'[k] = job[k]
        \/ /\ job[k].by # None /\ job'[k].by = None /\ job'[k].stage = "idle"
           /\ job'[k].state \in {"waiting", "failed"}
           /\ job'[k].late = (job[k].late \/ job[k].stage = "recorded")
    BY <1>6
  <2>3. JobShape(k)'
    BY <2>1, <2>2 DEF KeyOK, JobShape
  <2>4. CycleOK(k)'
    BY <1>1, <2>1, <2>2 DEF KeyOK, CycleOK, HasCompletionReceipt
  <2>5. LateOK(k)'
    <3>1. job[k].stage \in {"idle", "handling", "handled", "recorded"}
      BY <1>5 DEF JobRecords
    <3>2. JobShape(k) /\ LateOK(k)
      BY <2>1 DEF KeyOK
    <3>3. \A c \in calls' : c \in calls
      BY <1>1
    <3> QED BY <1>1, <2>2, <3>1, <3>2, <3>3 DEF JobShape, LateOK, HasCompletionReceipt
  <2> QED BY <2>3, <2>4, <2>5 DEF KeyOK
<1>12. WorkerInv'
  <2>1. current'[p] = None /\ \A q \in Procs : q # p => current'[q] = current[q]
    BY <1>0, <1>1 DEF TypeOK
  <2>2. \A q \in Procs : CurrentOK(q)'
    <3> TAKE q \in Procs
    <3>1. CurrentOK(q) /\ current[q] \in Workers \union {None}
      BY <1>0 DEF WorkerInv, TypeOK
    <3> QED BY <1>8, <2>1, <3>1 DEF CurrentOK
  <2>3. \A w \in Workers : WorkerOK(w)'
    <3> TAKE w \in Workers
    <3>1. WorkerOK(w)
      BY <1>0 DEF WorkerInv
    <3>2. CASE worker[w].proc = p
      BY <1>8, <3>2 DEF WorkerOK
    <3>3. CASE worker[w].proc # p
      BY <1>8, <2>1, <3>1, <3>3 DEF WorkerOK
    <3> QED BY <3>2, <3>3
  <2> QED BY <2>2, <2>3 DEF WorkerInv
<1> QED BY <1>1, <1>10, <1>11, <1>12, AstrayOK DEF IInv

-----------------------------------------------------------------------------
(* Schedules. *)

(* A step that is about one schedule. *)
LEMMA ScheduleStepOK ==
  ASSUME ScheduleInv, NEW i \in Ids, ScheduleOK(i)',
         \A j \in Ids \ {i} :
           /\ scheduler'[j] = scheduler[j] /\ (j \in astray' <=> j \in astray)
           /\ \A p \in Procs : book'[p][j] = book[p][j]
           /\ \A c \in calls' : About(c, j) => c \in calls
           /\ \A c \in calls : About(c, j) => c \in calls'
  PROVE  ScheduleInv'
<1> SUFFICES ASSUME NEW j \in Ids \ {i}
             PROVE  ScheduleOK(j)'
  BY DEF ScheduleInv
<1>1. /\ scheduler'[j] = scheduler[j] /\ (j \in astray' <=> j \in astray)
      /\ \A p \in Procs : book'[p][j] = book[p][j]
      /\ \A c \in calls' : About(c, j) => c \in calls
      /\ \A c \in calls : About(c, j) => c \in calls'
  OBVIOUS
<1>2. ScheduleOK(j)
  BY DEF ScheduleInv
<1> QED BY <1>1, <1>2 DEF ScheduleOK, About

(* A step of the schedules leaves the keys and the workers alone. *)
LEMMA SchedulerStepOK ==
  ASSUME IInv, UNCHANGED <<job, receipt, retired, life, worker, current, cycle>>,
         scheduler' \in [Ids -> Options \union {None}],
         book' \in [Procs -> [Ids -> Options \union {None}]], astray' \in SUBSET Ids,
         calls' \in SUBSET (KeyCalls \union ScheduleCalls),
         queue' \in [Procs -> {"none", "open", "closed"}], left' \in [Kinds -> Nat],
         NoNewAdding, ScheduleInv'
  PROVE  IInv'
<1>0. TypeOK /\ KeyInv /\ WorkerInv
  BY DEF IInv
<1>1. TypeOK'
  BY <1>0 DEF TypeOK
<1>2. KeyInv' /\ WorkerInv'
  BY <1>0, KeysStay, WorkersStay
<1> QED BY <1>1, <1>2 DEF IInv

(* schedule() and unschedule() begin: the call is the only one, or the schedule goes astray. *)
LEMMA ScheduleCallBegins ==
  ASSUME IInv, NEW p \in Procs, NEW i \in Ids, NEW o \in Options \union {None},
         NEW kind \in ScheduleKinds, NEW stage \in {"upserting", "removing"},
         Begin(p, kind, stage, i, o), UNCHANGED <<redis, life, kept, cycle>>,
         \A j \in Ids \ {i} : j \in astray' <=> j \in astray, astray' \in SUBSET Ids,
         Calling(i) => i \in astray'
  PROVE  IInv'
<1>0. TypeOK /\ ScheduleInv
  BY DEF IInv
<1> DEFINE c == [kind |-> kind, nth |-> left[kind], proc |-> p, stage |-> stage, about |-> i,
                 options |-> o, late |-> FALSE]
<1>1. kind \in Kinds /\ kind \in {"schedule", "unschedule"}
  BY DEF Kinds, ScheduleKinds
<1>2. left[kind] \in Nat
  BY <1>0, <1>1 DEF TypeOK
<1>3. c \in ScheduleCalls /\ c.kind = kind /\ c.stage = stage /\ c.about = i
  BY <1>1, <1>2 DEF ScheduleCalls
<1>4. /\ calls' = calls \union {c} /\ left[kind] > 0 /\ left' = [left EXCEPT ![kind] = @ - 1]
      /\ queue' = [queue EXCEPT ![p] = IF @ = "none" THEN "open" ELSE @]
  BY DEF Begin
<1> HIDE DEF c
<1>5. calls' \in SUBSET (KeyCalls \union ScheduleCalls)
  BY <1>0, <1>3, <1>4 DEF TypeOK
<1>6. NoNewAdding
  BY <1>3, <1>4 DEF NoNewAdding, Adding, ScheduleKinds
<1>7. queue' \in [Procs -> {"none", "open", "closed"}] /\ left' \in [Kinds -> Nat]
  BY <1>0, <1>1, <1>4, OpensOK, SpendsOK
<1>8. ScheduleOK(i)'
  <2> SUFFICES ASSUME i \notin astray'
               PROVE  /\ \A d, e \in calls' : About(d, i) /\ About(e, i) => d = e
                      /\ \A d \in calls' : About(d, i) =>
                           /\ d.stage # "booking" /\ d.stage # "forgetting"
                      /\ \E d \in calls' : About(d, i)
    BY DEF ScheduleOK, About
  <2>1. \A d \in calls : ~About(d, i)
    BY DEF Calling, About, ScheduleKinds
  <2>2. \A d \in calls' : About(d, i) => d = c
    BY <1>4, <2>1
  <2> QED BY <1>3, <1>4, <2>2 DEF About
<1>9. \A j \in Ids \ {i} : /\ \A d \in calls' : About(d, j) => d \in calls
                           /\ \A d \in calls : About(d, j) => d \in calls'
  BY <1>3, <1>4 DEF About
<1>10. ScheduleInv'
  BY <1>0, <1>8, <1>9, ScheduleStepOK DEF redis, kept
<1>11. /\ scheduler' \in [Ids -> Options \union {None}]
       /\ book' \in [Procs -> [Ids -> Options \union {None}]]
  BY <1>0 DEF TypeOK, redis, kept
<1> QED BY <1>5, <1>6, <1>7, <1>10, <1>11, SchedulerStepOK DEF redis, kept

LEMMA ScheduleInvStep ==
  ASSUME IInv, NEW p \in Procs, NEW i \in Ids, NEW o \in Options, Schedule(p, i, o)
  PROVE  IInv'
<1> PICK kind \in ScheduleKinds : kind = "schedule"
  BY DEF ScheduleKinds
<1> PICK stage \in {"upserting", "removing"} : stage = "upserting"
  OBVIOUS
<1>1. Begin(p, kind, stage, i, o) /\ UNCHANGED <<redis, life, kept, cycle>>
  BY DEF Schedule
<1>2. astray' = IF Calling(i) THEN astray \union {i} ELSE astray \ {i}
  BY DEF Schedule
<1>3. astray \in SUBSET Ids
  BY DEF IInv, TypeOK
<1>4. /\ \A j \in Ids \ {i} : j \in astray' <=> j \in astray
      /\ astray' \in SUBSET Ids
      /\ Calling(i) => i \in astray'
  BY <1>2, <1>3
<1> QED BY <1>1, <1>4, ScheduleCallBegins

(* A step that only spends, of a call that is refused or has nothing to do. *)
LEMMA SpendOK ==
  ASSUME IInv, NEW kind \in Kinds, left[kind] > 0, left' = [left EXCEPT ![kind] = @ - 1],
         UNCHANGED <<redis, life, queue, kept, calls, cycle, astray>>
  PROVE  IInv'
<1>0. TypeOK /\ KeyInv /\ WorkerInv /\ ScheduleInv
  BY DEF IInv
<1>1. left' \in [Kinds -> Nat]
  BY <1>0, SpendsOK
<1>2. TypeOK'
  BY <1>0, <1>1 DEF TypeOK, redis, kept
<1>3. KeyInv' /\ WorkerInv' /\ ScheduleInv'
  BY <1>0, KeysStay, WorkersStay, SchedulesStay DEF redis, kept, NoNewAdding, SameSchedules
<1> QED BY <1>2, <1>3 DEF IInv

LEMMA UnscheduleInv ==
  ASSUME IInv, NEW p \in Procs, NEW i \in Ids, Unschedule(p, i)
  PROVE  IInv'
<1> PICK kind \in ScheduleKinds : kind = "unschedule"
  BY DEF ScheduleKinds
<1>1. kind \in Kinds
  BY DEF Kinds, ScheduleKinds
<1>2. UNCHANGED <<redis, life, kept, cycle>>
  BY DEF Unschedule
<1>3. CASE book[p][i] = None
  BY <1>1, <1>2, <1>3, SpendOK DEF Unschedule
<1>4. CASE book[p][i] # None
  <2> PICK stage \in {"upserting", "removing"} : stage = "removing"
    OBVIOUS
  <2> PICK o \in Options \union {None} : o = None
    OBVIOUS
  <2>1. /\ Begin(p, kind, stage, i, o)
        /\ astray' = IF Calling(i) THEN astray \union {i} ELSE astray
    BY <1>4 DEF Unschedule
  <2>2. astray \in SUBSET Ids
    BY DEF IInv, TypeOK
  <2>3. /\ \A j \in Ids \ {i} : j \in astray' <=> j \in astray
        /\ astray' \in SUBSET Ids
        /\ Calling(i) => i \in astray'
    BY <2>1, <2>2
  <2> QED BY <1>2, <2>1, <2>3, ScheduleCallBegins
<1> QED BY <1>3, <1>4

(* The answer of Redis: a command of a schedule's call, which goes on to its last step. *)
LEMMA ScheduleCommandOK ==
  ASSUME IInv, NEW c \in calls, NEW i \in Ids, About(c, i),
         NEW o \in Options \union {None}, NEW stage \in {"booking", "forgetting"},
         c.kind = "schedule" => o = c.options /\ stage = "booking",
         c.kind = "unschedule" => o = None /\ stage = "forgetting",
         scheduler' = [scheduler EXCEPT ![i] = o], Proceed(c, stage),
         UNCHANGED <<job, receipt, retired, life, kept, left, cycle, astray>>
  PROVE  IInv'
<1>0. TypeOK /\ ScheduleInv
  BY DEF IInv
<1> DEFINE e == [c EXCEPT !.stage = stage]
<1>1. c \in ScheduleCalls /\ c.kind \in ScheduleKinds /\ c.about = i
  BY <1>0, KindOK DEF About
<1>2. /\ e \in ScheduleCalls /\ e.kind = c.kind /\ e.about = i /\ e.stage = stage
      /\ e.options = c.options
  BY <1>1 DEF ScheduleCalls
<1>3. /\ calls' = (calls \ {c}) \union {e}
      /\ queue' = [queue EXCEPT ![c.proc] = IF @ = "none" THEN "open" ELSE @]
  BY DEF Proceed
<1> HIDE DEF e
<1>4. calls' \in SUBSET (KeyCalls \union ScheduleCalls)
  BY <1>0, <1>2, <1>3 DEF TypeOK
<1>5. NoNewAdding
  BY <1>1, <1>2, <1>3 DEF NoNewAdding, Adding, ScheduleKinds
<1>6. queue' \in [Procs -> {"none", "open", "closed"}]
  BY <1>0, <1>3, OpensOK
<1>7. /\ scheduler' \in [Ids -> Options \union {None}] /\ scheduler'[i] = o
      /\ \A j \in Ids \ {i} : scheduler'[j] = scheduler[j]
  BY <1>0 DEF TypeOK
<1>8. ScheduleOK(i)'
  <2> SUFFICES ASSUME i \notin astray'
               PROVE  /\ \A d, f \in calls' : About(d, i) /\ About(f, i) => d = f
                      /\ \A d \in calls' : About(d, i) =>
                           /\ d.kind = "schedule" => o = d.options
                           /\ d.kind = "unschedule" => o = None
                      /\ \E d \in calls' : About(d, i)
    BY <1>7 DEF ScheduleOK, About
  <2>1. \A d, f \in calls : About(d, i) /\ About(f, i) => d = f
    BY <1>0 DEF ScheduleInv, ScheduleOK
  <2>2. \A d \in calls' : About(d, i) => d = e
    BY <1>3, <2>1
  <2>3. e \in calls' /\ About(e, i)
    BY <1>1, <1>2, <1>3 DEF About
  <2> QED BY <1>2, <2>2, <2>3
<1>9. \A j \in Ids \ {i} : /\ \A d \in calls' : About(d, j) => d \in calls
                           /\ \A d \in calls : About(d, j) => d \in calls'
  BY <1>1, <1>2, <1>3 DEF About
<1>10. ScheduleInv'
  BY <1>0, <1>7, <1>8, <1>9, ScheduleStepOK DEF kept
<1>11. /\ book' \in [Procs -> [Ids -> Options \union {None}]] /\ left' \in [Kinds -> Nat]
       /\ astray' \in SUBSET Ids
  BY <1>0 DEF TypeOK, kept
<1> QED BY <1>4, <1>5, <1>6, <1>7, <1>10, <1>11, SchedulerStepOK DEF kept

LEMMA UpsertJobSchedulerInv ==
  ASSUME IInv, NEW c \in calls, UpsertJobScheduler(c)
  PROVE  IInv'
<1>1. /\ c.kind = "schedule" /\ Proceed(c, "booking")
      /\ scheduler' = [scheduler EXCEPT ![c.about] = c.options]
      /\ UNCHANGED <<job, receipt, retired, life, kept, left, cycle, astray>>
  BY DEF UpsertJobScheduler
<1>2. c \in ScheduleCalls
  BY <1>1, KindOK DEF IInv, ScheduleKinds
<1> PICK i \in Ids : i = c.about
  BY <1>2 DEF ScheduleCalls
<1> PICK o \in Options \union {None} : o = c.options
  BY <1>2 DEF ScheduleCalls
<1> PICK stage \in {"booking", "forgetting"} : stage = "booking"
  OBVIOUS
<1>3. About(c, i)
  BY <1>1 DEF About, ScheduleKinds
<1> QED BY <1>1, <1>3, ScheduleCommandOK

LEMMA RemoveJobSchedulerInv ==
  ASSUME IInv, NEW c \in calls, RemoveJobScheduler(c)
  PROVE  IInv'
<1>1. /\ c.kind = "unschedule" /\ Proceed(c, "forgetting")
      /\ scheduler' = [scheduler EXCEPT ![c.about] = None]
      /\ UNCHANGED <<job, receipt, retired, life, kept, left, cycle, astray>>
  BY DEF RemoveJobScheduler
<1>2. c \in ScheduleCalls
  BY <1>1, KindOK DEF IInv, ScheduleKinds
<1> PICK i \in Ids : i = c.about
  BY <1>2 DEF ScheduleCalls
<1> PICK o \in Options \union {None} : o = None
  OBVIOUS
<1> PICK stage \in {"booking", "forgetting"} : stage = "forgetting"
  OBVIOUS
<1>3. About(c, i)
  BY <1>1 DEF About, ScheduleKinds
<1> QED BY <1>1, <1>3, ScheduleCommandOK

(* The last step of a schedule's call: its process writes down what Redis answered. *)
LEMMA BookOK ==
  ASSUME IInv, NEW c \in calls, NEW i \in Ids, About(c, i), NEW o \in Options \union {None},
         i \notin astray => scheduler[i] = o,
         book' = [book EXCEPT ![c.proc][i] = o], Return(c),
         UNCHANGED <<redis, life, worker, current, left, cycle, astray>>
  PROVE  IInv'
<1>0. TypeOK /\ ScheduleInv
  BY DEF IInv
<1>1. c \in ScheduleCalls /\ c.about = i
  BY <1>0, KindOK DEF About
<1> PICK p \in Procs : p = c.proc
  BY <1>1 DEF ScheduleCalls
<1>2. /\ book' \in [Procs -> [Ids -> Options \union {None}]] /\ book'[p][i] = o
      /\ \A j \in Ids \ {i}, q \in Procs : book'[q][j] = book[q][j]
  BY <1>0 DEF TypeOK
<1>3. calls' = calls \ {c} /\ UNCHANGED queue
  BY DEF Return
<1>4. calls' \in SUBSET (KeyCalls \union ScheduleCalls) /\ NoNewAdding
  BY <1>0, <1>3 DEF TypeOK, NoNewAdding
<1>5. ScheduleOK(i)'
  <2> SUFFICES ASSUME i \notin astray'
               PROVE  /\ \A d \in calls' : ~About(d, i)
                      /\ \E q \in Procs : book'[q][i] = scheduler'[i]
    BY DEF ScheduleOK, About
  <2>1. \A d, f \in calls : About(d, i) /\ About(f, i) => d = f
    BY <1>0 DEF ScheduleInv, ScheduleOK
  <2> QED BY <1>2, <1>3, <2>1 DEF redis
<1>6. \A j \in Ids \ {i} : /\ \A d \in calls' : About(d, j) => d \in calls
                           /\ \A d \in calls : About(d, j) => d \in calls'
  BY <1>1, <1>3 DEF About
<1>7. ScheduleInv'
  BY <1>0, <1>2, <1>5, <1>6, ScheduleStepOK DEF redis
<1>8. /\ scheduler' \in [Ids -> Options \union {None}] /\ astray' \in SUBSET Ids
      /\ queue' \in [Procs -> {"none", "open", "closed"}] /\ left' \in [Kinds -> Nat]
  BY <1>0, <1>3 DEF TypeOK, redis
<1> QED BY <1>2, <1>4, <1>7, <1>8, SchedulerStepOK DEF redis

LEMMA ScheduleIsBookedInv ==
  ASSUME IInv, NEW c \in calls, ScheduleIsBooked(c)
  PROVE  IInv'
<1>1. /\ c.kind = "schedule" /\ c.stage = "booking" /\ Return(c)
      /\ book' = [book EXCEPT ![c.proc][c.about] = c.options]
      /\ UNCHANGED <<redis, life, worker, current, left, cycle, astray>>
  BY DEF ScheduleIsBooked
<1>2. c \in ScheduleCalls
  BY <1>1, KindOK DEF IInv, ScheduleKinds
<1> PICK i \in Ids : i = c.about
  BY <1>2 DEF ScheduleCalls
<1> PICK o \in Options \union {None} : o = c.options
  BY <1>2 DEF ScheduleCalls
<1>3. About(c, i)
  BY <1>1 DEF About, ScheduleKinds
<1>4. i \notin astray => scheduler[i] = o
  BY <1>1, <1>3 DEF IInv, ScheduleInv, ScheduleOK
<1> QED BY <1>1, <1>3, <1>4, BookOK

LEMMA ScheduleIsForgottenInv ==
  ASSUME IInv, NEW c \in calls, ScheduleIsForgotten(c)
  PROVE  IInv'
<1>1. /\ c.kind = "unschedule" /\ c.stage = "forgetting" /\ Return(c)
      /\ book' = [book EXCEPT ![c.proc][c.about] = None]
      /\ UNCHANGED <<redis, life, worker, current, left, cycle, astray>>
  BY DEF ScheduleIsForgotten
<1>2. c \in ScheduleCalls
  BY <1>1, KindOK DEF IInv, ScheduleKinds
<1> PICK i \in Ids : i = c.about
  BY <1>2 DEF ScheduleCalls
<1> PICK o \in Options \union {None} : o = None
  OBVIOUS
<1>3. About(c, i)
  BY <1>1 DEF About, ScheduleKinds
<1>4. i \notin astray => scheduler[i] = o
  BY <1>1, <1>3 DEF IInv, ScheduleInv, ScheduleOK
<1> QED BY <1>1, <1>3, <1>4, BookOK

-----------------------------------------------------------------------------
(* A call that fails. *)

LEMMA CallFailsInv ==
  ASSUME IInv, NEW c \in calls, CallFails(c)
  PROVE  IInv'
<1>0. TypeOK /\ KeyInv /\ WorkerInv /\ ScheduleInv
  BY DEF IInv
<1>1. /\ UNCHANGED <<redis, life, kept, cycle>> /\ Return(c)
      /\ astray' = IF c.kind \in ScheduleKinds THEN astray \union {c.about} ELSE astray
  BY DEF CallFails, ScheduleKinds
<1>2. /\ calls' \in SUBSET (KeyCalls \union ScheduleCalls) /\ UNCHANGED queue /\ NoNewAdding
      /\ c.kind \notin ScheduleKinds => SameSchedules
  BY <1>0, <1>1, ReturnOK
<1>3. left' \in [Kinds -> Nat]
  <2>1. UNCHANGED left \/ (left["fail"] > 0 /\ left' = [left EXCEPT !["fail"] = @ - 1])
    BY DEF CallFails
  <2> PICK kind \in Kinds : kind = "fail"
    BY DEF Kinds
  <2> QED BY <1>0, <2>1, SpendsOK DEF TypeOK
<1>4. astray' \in SUBSET Ids
  <2>1. c.kind \in ScheduleKinds => c.about \in Ids
    BY <1>0, KindOK DEF ScheduleCalls
  <2> QED BY <1>0, <1>1, <2>1 DEF TypeOK
<1>5. ScheduleInv'
  <2>1. CASE c.kind \notin ScheduleKinds
    BY <1>0, <1>1, <1>2, <2>1, SchedulesStay DEF redis, kept
  <2>2. CASE c.kind \in ScheduleKinds
    <3> PICK i \in Ids : i = c.about
      BY <1>0, <2>2, KindOK DEF ScheduleCalls
    <3>1. astray' = astray \union {i} /\ calls' = calls \ {c}
      BY <1>1, <2>2 DEF Return
    <3>2. ScheduleOK(i)'
      BY <3>1 DEF ScheduleOK
    <3>3. \A j \in Ids \ {i} : /\ \A d \in calls' : About(d, j) => d \in calls
                               /\ \A d \in calls : About(d, j) => d \in calls'
      BY <3>1 DEF About
    <3> QED BY <1>0, <1>1, <3>1, <3>2, <3>3, ScheduleStepOK DEF redis, kept
  <2> QED BY <2>1, <2>2
<1>6. /\ scheduler' \in [Ids -> Options \union {None}]
      /\ book' \in [Procs -> [Ids -> Options \union {None}]]
      /\ queue' \in [Procs -> {"none", "open", "closed"}]
  BY <1>0, <1>1, <1>2 DEF TypeOK, redis, kept
<1> QED BY <1>1, <1>2, <1>3, <1>4, <1>5, <1>6, SchedulerStepOK DEF redis, kept

-----------------------------------------------------------------------------
(* Every step. *)

LEMMA InitIInv == Init => IInv
<1> SUFFICES ASSUME Init PROVE IInv
  OBVIOUS
<1>1. /\ NoJob \in JobRecords /\ NoJob.state = "none" /\ NoJob.by = None /\ NoJob.stage = "idle"
      /\ NoWorker \in WorkerRecords /\ NoWorker.state = "none" /\ NoWorker.registration = "none"
      /\ Running \in Lives /\ NoBook \in [Ids -> Options \union {None}]
  BY DEF NoJob, JobRecords, NoWorker, WorkerRecords, Running, Lives, NoBook
<1>2. left \in [Kinds -> Nat]
  BY QueueAssumption DEF Init
<1>3. cycle \in [Keys -> CycleRecords] /\ \A k \in Keys : ~cycle[k].recorded /\ ~cycle[k].finalized
  BY DEF Init, Fresh, CycleRecords
<1>4. TypeOK
  BY <1>1, <1>2, <1>3 DEF Init, TypeOK, CycleRecords
<1>5. KeyInv
  BY <1>1, <1>3 DEF Init, KeyInv, KeyOK, JobShape, CycleOK, LateOK
<1>6. WorkerInv
  BY <1>1 DEF Init, WorkerInv, CurrentOK, WorkerOK
<1>7. ScheduleInv
  <2> SUFFICES ASSUME NEW i \in Ids PROVE \E p \in Procs : book[p][i] = scheduler[i]
    BY DEF ScheduleInv, ScheduleOK, Init
  <2> PICK p \in Procs : TRUE
    BY QueueAssumption
  <2> QED BY DEF Init, NoBook
<1> QED BY <1>4, <1>5, <1>6, <1>7 DEF IInv

LEMMA StutterInv ==
  ASSUME IInv, UNCHANGED vars
  PROVE  IInv'
<1>0. TypeOK /\ KeyInv /\ WorkerInv /\ ScheduleInv
  BY DEF IInv
<1>1. TypeOK'
  BY <1>0 DEF TypeOK, vars, redis, kept
<1>2. KeyInv' /\ WorkerInv' /\ ScheduleInv'
  BY <1>0, KeysStay, WorkersStay, SchedulesStay DEF vars, redis, kept, NoNewAdding, SameSchedules
<1> QED BY <1>1, <1>2 DEF IInv

LEMMA NextIInv == IInv /\ [Next]_vars => IInv'
<1> SUFFICES ASSUME IInv, [Next]_vars PROVE IInv'
  OBVIOUS
<1>1. CASE EmitStep
  <2>1. CASE \E p \in Procs, k \in Keys : Emit(p, k)
    BY <2>1, KeyCallBeginsInv
  <2>2. CASE \E c \in calls : CheckReceipt(c) \/ AddJob(c)
    BY <2>2, CheckReceiptInv, AddJobInv
  <2>3. CASE \E k \in Keys : \/ HandlerReturns(k)
                             \/ RecordReceipt(k)
                             \/ JobCompletes(k)
                             \/ HandlerThrows(k)
                             \/ SweepStaleJobs(k)
    BY <2>3, HandlerReturnsInv, RecordReceiptInv, JobCompletesInv, HandlerThrowsInv,
       SweepStaleJobsInv
  <2>4. CASE \E w \in Workers, k \in Keys : Take(w, k)
    BY <2>4, TakeInv
  <2> QED BY <1>1, <2>1, <2>2, <2>3, <2>4 DEF EmitStep
<1>2. CASE KeyStep
  <2>1. CASE \E p \in Procs, k \in Keys : Retire(p, k) \/ Cancel(p, k)
    BY <2>1, KeyCallBeginsInv
  <2>2. CASE \E c \in calls : \/ PrepareRetirement(c)
                              \/ FinalizeRetirement(c)
                              \/ CancelFinds(c)
                              \/ CancelRemoves(c)
                              \/ CancelDiscards(c)
    BY <2>2, PrepareRetirementInv, FinalizeRetirementInv, CancelFindsInv, CancelRemovesInv,
       CancelDiscardsInv
  <2> QED BY <1>2, <2>1, <2>2 DEF KeyStep
<1>3. CASE WorkerStep
  BY <1>3, RegisterWorkerInv, WorkerReadyInv, WorkerNeverReadyInv, WorkerClosesInv DEF WorkerStep
<1>4. CASE ScheduleStep
  <2>1. CASE \E p \in Procs, i \in Ids, o \in Options : Schedule(p, i, o)
    BY <2>1, ScheduleInvStep
  <2>2. CASE \E p \in Procs, i \in Ids, o \in Options : ScheduleRefused(p, i, o)
    <3> PICK kind \in Kinds : kind = "schedule"
      BY DEF Kinds
    <3> QED BY <2>2, SpendOK DEF ScheduleRefused
  <2>3. CASE \E p \in Procs, i \in Ids : Unschedule(p, i)
    BY <2>3, UnscheduleInv
  <2>4. CASE \E c \in calls : \/ UpsertJobScheduler(c)
                              \/ ScheduleIsBooked(c)
                              \/ RemoveJobScheduler(c)
                              \/ ScheduleIsForgotten(c)
    BY <2>4, UpsertJobSchedulerInv, ScheduleIsBookedInv, RemoveJobSchedulerInv,
       ScheduleIsForgottenInv
  <2> QED BY <1>4, <2>1, <2>2, <2>3, <2>4 DEF ScheduleStep
<1>5. CASE StopStep
  BY <1>5, StopBeginsInv, WorkersStoppedInv, StoppedInv, StartInv, CrashInv DEF StopStep
<1>6. CASE \E c \in calls : CallFails(c)
  BY <1>6, CallFailsInv
<1>7. CASE UNCHANGED vars
  BY <1>7, StutterInv
<1> QED BY <1>1, <1>2, <1>3, <1>4, <1>5, <1>6, <1>7 DEF Next

THEOREM IInvHolds == Spec => []IInv
<1> QED BY InitIInv, NextIInv, PTL DEF Spec

(* Types: what the calls of all processes, their stops and crashes leave in Redis and in  *)
(* the tables of the provider and of the schedule manager.                                *)
THEOREM TypeCorrect == Spec => []TypeOK
<1>1. IInv => TypeOK
  BY DEF IInv
<1> QED BY <1>1, IInvHolds, PTL

(* The scripts of the queue manager: work is not done again behind a standing receipt,    *)
(* and a retired key is free for its next emission, in whatever order emissions,          *)
(* completions, retirements, cancellations, stalls and crashes fall.                      *)
THEOREM ReceiptsSound == Spec => []ReceiptsAreSound
<1>1. IInv => ReceiptsAreSound
  <2> SUFFICES ASSUME IInv PROVE ReceiptsAreSound
    OBVIOUS
  <2>1. \A k \in Keys : CycleOK(k) /\ LateOK(k)
    BY DEF IInv, KeyInv, KeyOK
  <2>2. HandledOnce
    BY <2>1 DEF HandledOnce, CycleOK, LateOK
  <2>3. KeysAreFreed
    BY <2>1 DEF KeysAreFreed, CycleOK, Complete
  <2> QED BY <2>2, <2>3 DEF ReceiptsAreSound
<1> QED BY <1>1, IInvHolds, PTL

(* registerWorker() and stop(): a worker that takes jobs is the one its process would     *)
(* close, or its registration is under way, failed, or was overtaken by a stop().         *)
THEOREM WorkersOwned == Spec => []WorkersAreOwned
<1>1. IInv => WorkersAreOwned
  BY DEF IInv, WorkerInv, WorkerOK, WorkersAreOwned
<1> QED BY <1>1, IInvHolds, PTL

(* schedule() and unschedule(): what a process believes of a schedule that did not go     *)
(* astray is what Redis has, so that it can be removed.                                   *)
THEOREM BookTrue == Spec => []BookIsTrue
<1>1. IInv => BookIsTrue
  BY DEF IInv, ScheduleInv, ScheduleOK, About, ScheduleKinds, BookIsTrue, Calling
<1> QED BY <1>1, IInvHolds, PTL
=============================================================================
