------------------------- MODULE BullWorkflowProofs -------------------------
(***************************************************************************)
(* Proofs about durable workflows over BullMQ, for any number of           *)
(* processes, executions, flows, steps, attempts, stops and crashes: what  *)
(* a failed flow has undone, how often the completion handler ran, and     *)
(* who is in pendingResults.                                               *)
(*                                                                         *)
(* None of the three is inductive.  That a failed flow has undone its      *)
(* effects says nothing of the attempt that fails: ListsEffects keeps, for *)
(* every state of a job, where an effect that stands may come from, and    *)
(* that it goes with the list of what to undo; a place with a step that    *)
(* nobody handles is the exception, and LapseShape says that a job leaves  *)
(* it only to fail.  That the handler ran once needs, for every phase,     *)
(* whether its run is behind it.  And a flow completes without its handler *)
(* because of a status, "failed", in the tables of one process: Sincere    *)
(* says that a status of that kind is either what a caller was told or the *)
(* Trace of a handler that threw, which needs in turn that a caller that   *)
(* waits is in pendingResults as long as its execution owns the job        *)
(* (Tracked), that nothing is there but callers that wait (PendingOK), and *)
(* that what is announced is what Redis has (StreamTrue).                  *)
(***************************************************************************)
EXTENDS BullWorkflow, TLAPS

(* The chain of a job id: what state and phase say of each other. *)
JobShape(k) ==
  LET j == job[k] IN
  /\ j.place \in 1 .. Top(k)
  /\ j.state = "none" => j = NoJob
  /\ j.state = "active" <=> j.by # None
  /\ j.state \in {"none", "waiting", "failing"} => j.phase = "idle"
  /\ j.state = "failing" => j.place < Top(k)
  /\ j.state = "active" =>
       j.phase \in IF j.place < Top(k) THEN {"steps", "thrown"}
                   ELSE {"handler", "skipped", "returned", "thrown"}
  /\ j.state = "completed" => j.place = Top(k) /\ j.phase \in {"skipped", "returned"}
  /\ j.state = "failed" => j.phase = IF j.place < Top(k) THEN "idle" ELSE "thrown"
  /\ j.phase = "steps" => /\ j.open \subseteq StepsAt(k, j.place) /\ j.ok \subseteq StepsAt(k, j.place)
                         /\ j.open \cap j.ok = {}
  /\ j.phase = "steps" /\ j.open # {} => j.undone = {}

(* A place with a step that nobody handles never gets as far as an outcome of its steps. *)
LapseShape(k) ==
  LET j == job[k] IN
  /\ j.loose # {} => Broken(k)
  /\ \A x \in j.loose : x[2] \in StepsAt(k, j.place)
  /\ Broken(k) => /\ j.undone = {} /\ (j.phase = "steps" => j.open = StepsAt(k, j.place))
                  /\ j.phase = "thrown" \/ j.state \in {"failing", "failed"} => j.lapsed

(* An effect that stands is on the list of what a failure would undo. *)
ListsEffects(k) ==
  LET j == job[k] IN
  j.stalls = 0 => \A s \in Undoable : effect[k][s] = "applied" =>
    /\ s \in Steps(k)
    /\ PlaceOf[k][s] < j.place \/ (j.phase = "steps" /\ s \in j.ok) \/ Broken(k)
    /\ s \notin j.undone
    /\ ~(j.place < Top(k) /\ ~j.lapsed /\ (j.phase = "thrown" \/ j.state \in {"failing", "failed"}))

(* The completion handler has its one run behind it, or before it. *)
HandlerBehind(k) ==
  \/ job[k].phase = "returned" \/ (job[k].phase = "thrown" /\ job[k].place = Top(k))
  \/ job[k].state \in Finished

CountsRuns(k) ==
  /\ ran[k] <= IF HandlerBehind(k) THEN 1 + job[k].stalls ELSE job[k].stalls
  /\ job[k].phase = "returned" => ran[k] >= 1

NotYet == {"unsent", "looking", "joined", "connecting"}
Known == {"adding", "verifying", "returning", "returned"}

Owns(r, k) == job[k].state # "none" /\ job[k].owner = r

(* An execution and its promise. *)
RequestShape(r) ==
  LET q == request[r] IN
  /\ q.stage = "unsent" => q = Unsent
  /\ q.stage # "unsent" => q.proc \in Procs /\ q.key \in JobIds
  /\ q.stage \in {"looking", "joined"} => q.promise = "none"
  /\ q.stage = "connecting" => q.promise = "pending"
  /\ q.stage \in Known => q.promise # "none"
  /\ q.promise = "none" => q.status = "none"

(* The completion handler of a flow of r has run, or has thrown where r was called. *)
Trace(r, k) ==
  /\ Owns(r, k)
  /\ \/ ran[k] >= 1 \/ job[k].state = "failed"
     \/ job[k].phase = "thrown" /\ job[k].place = Top(k) /\ job[k].by = request[r].proc

HasHeard(r) == request[r].promise \in {"failed", "reported", "timeout"} \/ Raced(r)

(* What an execution believes of its flow is so. *)
Sincere(r) ==
  LET q == request[r] IN
  /\ "completed" \in {q.status, q.timer} \/ q.promise = "resolved"
       => job[q.key].state = "completed"
  /\ q.promise = "loading" => job[q.key].state = "failed"
  /\ q.status = "failed" => HasHeard(r) \/ \E k \in JobIds : Trace(r, k)

(* The owner of a job is an execution that has come as far as adding it. *)
OwnerOK(k) ==
  LET r == job[k].owner IN
  job[k].state # "none" =>
    /\ r \in Requests /\ request[r].key = k /\ request[r].stage \notin NotYet
    /\ job[k].phase = "skipped" /\ ran[k] = 0 => HasHeard(r)

PendingOK(p, k) ==
  LET r == pending[p][k] IN
  r # None => /\ request[r].proc = p /\ request[r].key = k
              /\ request[r].promise = "pending" /\ request[r].stage \notin NotYet

(* Who waits is registered: from its registration on, or while it owns the job. *)
Tracked(r) ==
  LET q == request[r] IN
  /\ q.stage \in Known \/ (q.status # "none" /\ \E k \in JobIds : Owns(r, k))
  /\ q.promise = "pending" /\ ~Raced(r)
  => pending[q.proc][q.key] = r

(* What Redis knows of a flow. *)
ChainOK(k) == JobShape(k) /\ LapseShape(k) /\ ListsEffects(k) /\ CountsRuns(k)

StreamTrue == \A p \in Procs : \A a \in stream[p] : job[a[1]].state = a[2]

IInv ==
  /\ TypeOK
  /\ \A k \in JobIds : ChainOK(k) /\ OwnerOK(k)
  /\ \A r \in Requests : RequestShape(r) /\ Sincere(r) /\ Tracked(r)
  /\ \A p \in Procs, k \in JobIds : PendingOK(p, k)
  /\ StreamTrue

-----------------------------------------------------------------------------
(* What no step takes back. *)

Keeps(r) ==
  /\ request[r].stage # "unsent" =>
       request'[r].proc = request[r].proc /\ request'[r].key = request[r].key
  /\ request[r].stage \notin NotYet => request'[r].stage \notin NotYet
  /\ request[r].promise # "none" => request'[r].promise # "none"
  /\ request[r].promise \in {"failed", "reported", "timeout"} => request'[r].promise = request[r].promise

(* A flow whose handler threw fails, unless the process dies and forgets its executions. *)
Leads(k) ==
  \/ job'[k].state = "failed"
  \/ job'[k].phase = "thrown" /\ job'[k].place = job[k].place /\ job'[k].by = job[k].by
  \/ \A r \in Requests : request[r].proc = job[k].by => request'[r].status # "failed"

Onward ==
  /\ \A k \in JobIds :
       /\ job[k].state # "none" => job'[k].state # "none" /\ job'[k].owner = job[k].owner
       /\ job[k].state \in Finished => job'[k].state = job[k].state
       /\ ran[k] >= 1 => ran'[k] >= 1
       /\ job[k].phase = "thrown" /\ job[k].place = Top(k) => Leads(k)
  /\ \A r \in Requests : Keeps(r)

LEMMA HasHeardStays ==
  ASSUME IInv, Onward, NEW r \in Requests
  PROVE  (Raced(r) => Raced(r)') /\ (HasHeard(r) => HasHeard(r)')
<1>1. ASSUME Raced(r) PROVE Raced(r)'
  <2>1. PICK q \in Requests \ {r} :
          /\ request[q].proc = request[r].proc /\ request[q].key = request[r].key
          /\ "none" \notin {request[q].promise, request[r].promise}
    BY <1>1 DEF Raced
  <2>2. \A s \in {q, r} : request[s].stage # "unsent"
    BY <2>1 DEF IInv, RequestShape, Unsent
  <2>3. /\ request'[q].proc = request'[r].proc /\ request'[q].key = request'[r].key
        /\ "none" \notin {request'[q].promise, request'[r].promise}
    BY <2>1, <2>2 DEF Onward, Keeps
  <2> QED BY <2>3 DEF Raced
<1>2. ASSUME HasHeard(r) PROVE HasHeard(r)'
  BY <1>1, <1>2 DEF HasHeard, Onward, Keeps
<1> QED BY <1>1, <1>2

LEMMA TraceStays ==
  ASSUME IInv, Onward, NEW r \in Requests, NEW k \in JobIds, Trace(r, k),
         request[r].stage # "unsent", request'[r].status = "failed"
  PROVE  Trace(r, k)'
<1>1. /\ Owns(r, k)' /\ request'[r].proc = request[r].proc /\ (ran[k] >= 1 => ran'[k] >= 1)
      /\ job[k].state = "failed" => job'[k].state = "failed"
      /\ job[k].phase = "thrown" /\ job[k].place = Top(k) => Leads(k)
  BY DEF Onward, Keeps, Trace, Owns, Finished
<1> QED BY <1>1 DEF Trace, Leads

(* What an execution believes stays so, whatever else it comes to believe. *)
LEMMA StaysSincere ==
  ASSUME IInv, Onward, NEW r \in Requests, request'[r].key = request[r].key,
         "completed" \in {request'[r].status, request'[r].timer} \/ request'[r].promise = "resolved"
           => \/ "completed" \in {request[r].status, request[r].timer}
              \/ request[r].promise = "resolved"
              \/ job[request[r].key].state = "completed",
         request'[r].promise = "loading" =>
           request[r].promise = "loading" \/ job[request[r].key].state = "failed",
         request'[r].status = "failed" =>
           request[r].status = "failed" \/ request'[r].promise \in {"failed", "reported", "timeout"},
         request[r].stage # "unsent"
  PROVE  Sincere(r)'
<1>1. Sincere(r) /\ RequestShape(r) /\ request[r].key \in JobIds
  BY DEF IInv, RequestShape
<1>2. "completed" \in {request'[r].status, request'[r].timer} \/ request'[r].promise = "resolved"
        => job'[request'[r].key].state = "completed"
  BY <1>1 DEF Sincere, Onward, Keeps, Finished
<1>5. request'[r].promise = "loading" => job'[request'[r].key].state = "failed"
  BY <1>1 DEF Sincere, Onward, Keeps, Finished
<1>3. \A k \in JobIds : Trace(r, k) /\ request'[r].status = "failed" => Trace(r, k)'
  BY TraceStays
<1>4. request'[r].status = "failed" => HasHeard(r)' \/ \E k \in JobIds : Trace(r, k)'
  BY <1>1, <1>3, HasHeardStays DEF Sincere, HasHeard
<1> QED BY <1>2, <1>4, <1>5 DEF Sincere

LEMMA StepOK ==
  ASSUME IInv, TypeOK', Onward,
         \A k \in JobIds : ChainOK(k)',
         \A r \in Requests : RequestShape(r)' /\ Sincere(r)' /\ Tracked(r)',
         \A p \in Procs, k \in JobIds : PendingOK(p, k)',
         \A k \in JobIds : job[k].state = "none" /\ job'[k].state # "none" =>
           /\ job'[k].owner \in Requests /\ request'[job'[k].owner].key = k
           /\ request'[job'[k].owner].stage \notin NotYet /\ job'[k].phase # "skipped",
         \A k \in JobIds : job[k].state # "none" /\ job'[k].phase = "skipped" /\ ran'[k] = 0 =>
           (job[k].phase = "skipped" /\ ran[k] = 0) \/ HasHeard(job[k].owner),
         \A p \in Procs : \A a \in stream'[p] :
           a \in stream[p] \/ job'[a[1]].state = a[2]
  PROVE  IInv'
<1>1. ASSUME NEW k \in JobIds PROVE OwnerOK(k)'
  <2>1. CASE job[k].state = "none"
    BY <2>1 DEF OwnerOK
  <2>2. CASE job[k].state # "none"
    <3>1. /\ OwnerOK(k) /\ job'[k].owner = job[k].owner /\ job[k].owner \in Requests
          /\ request[job[k].owner].key = k /\ request[job[k].owner].stage \notin NotYet
      BY <2>2 DEF IInv, Onward, Keeps, OwnerOK
    <3>2. PICK r \in Requests : r = job[k].owner
      BY <3>1
    <3>3. request'[r].key = k /\ request'[r].stage \notin NotYet
      BY <3>1, <3>2 DEF Onward, Keeps, NotYet
    <3>4. job'[k].phase = "skipped" /\ ran'[k] = 0 => HasHeard(r)
      BY <2>2, <3>1, <3>2 DEF OwnerOK
    <3>5. HasHeard(r) => HasHeard(r)'
      BY HasHeardStays
    <3>6. job'[k].owner = r
      BY <3>1, <3>2
    <3> QED BY <3>3, <3>4, <3>5, <3>6 DEF OwnerOK
  <2> QED BY <2>1, <2>2
<1>2. StreamTrue'
  <2> SUFFICES ASSUME NEW p \in Procs, NEW a \in stream'[p], a \in stream[p]
               PROVE  job'[a[1]].state = a[2]
    BY DEF StreamTrue
  <2>1. a \in JobIds \X Finished /\ job[a[1]].state = a[2]
    BY DEF IInv, TypeOK, StreamTrue
  <2> QED BY <2>1 DEF Onward, Keeps
<1> QED BY <1>1, <1>2 DEF IInv

-----------------------------------------------------------------------------
(* The chain of a flow. *)

LEMMA Places ==
  ASSUME NEW k \in JobIds
  PROVE  /\ Len(Groups[k]) \in Nat /\ Top(k) \in Nat /\ Top(k) = Len(Groups[k]) + 1
         /\ DOMAIN Groups[k] = 1 .. Len(Groups[k])
         /\ StepsAt(k, Top(k)) = {}
         /\ \A g \in 1 .. Top(k) : g < Top(k) => g \in DOMAIN Groups[k]
         /\ \A g \in 1 .. Top(k) : StepsAt(k, g) \subseteq Steps(k)
         /\ Steps(k) \subseteq AllSteps
         /\ \A s \in Steps(k) : PlaceOf[k][s] \in 1 .. Len(Groups[k])
         /\ \A g \in 1 .. Top(k) : \A s \in StepsAt(k, g) : PlaceOf[k][s] = g
<1>1. Groups[k] \in Seq(Seq(AllSteps))
  BY WorkflowAssumption
<1>2. /\ Len(Groups[k]) \in Nat /\ Top(k) = Len(Groups[k]) + 1
      /\ DOMAIN Groups[k] = 1 .. Len(Groups[k]) /\ StepsAt(k, Top(k)) = {}
  BY <1>1 DEF Top, StepsAt
<1>3. \A g \in 1 .. Top(k) : g < Top(k) => g \in DOMAIN Groups[k]
  BY <1>2
<1>4. \A g \in 1 .. Top(k) : StepsAt(k, g) \subseteq Steps(k)
  <2> SUFFICES ASSUME NEW g \in 1 .. Top(k) PROVE StepsAt(k, g) \subseteq Steps(k)
    OBVIOUS
  <2>1. CASE g = Top(k)
    BY <1>2, <2>1
  <2>2. CASE g # Top(k)
    <3>1. g \in DOMAIN Groups[k]
      BY <1>2, <1>3, <2>2
    <3> QED BY <3>1 DEF Steps
  <2> QED BY <2>1, <2>2
<1>5. Steps(k) \subseteq AllSteps
  BY DEF AllSteps
<1>6. ASSUME NEW s \in Steps(k), NEW g \in DOMAIN Groups[k], s \in StepsAt(k, g)
      PROVE  PlaceOf[k][s] = g
  <2> DEFINE h == CHOOSE i \in DOMAIN Groups[k] : s \in StepsAt(k, i)
  <2>1. PlaceOf[k][s] = h
    BY DEF PlaceOf
  <2>2. h \in DOMAIN Groups[k] /\ s \in StepsAt(k, h)
    BY <1>6
  <2> HIDE DEF h
  <2>3. \A i, j \in DOMAIN Groups[k] : i # j => StepsAt(k, i) \cap StepsAt(k, j) = {}
    BY WorkflowAssumption
  <2> QED BY <1>6, <2>1, <2>2, <2>3
<1>7. ASSUME NEW s \in Steps(k) PROVE PlaceOf[k][s] \in 1 .. Len(Groups[k])
  <2>1. PICK g \in DOMAIN Groups[k] : s \in StepsAt(k, g)
    BY <1>7 DEF Steps
  <2> QED BY <1>2, <1>6, <2>1
<1>8. ASSUME NEW g \in 1 .. Top(k), NEW s \in StepsAt(k, g) PROVE PlaceOf[k][s] = g
  <2>1. g # Top(k)
    BY <1>2
  <2>2. g \in DOMAIN Groups[k] /\ s \in Steps(k)
    BY <1>2, <1>3, <1>4, <2>1
  <2> QED BY <1>6, <2>2
<1> QED BY <1>2, <1>3, <1>4, <1>5, <1>7, <1>8

LEMMA OneStep ==
  ASSUME NEW k \in JobIds, NEW g \in 1 .. Top(k), g < Top(k), Len(Groups[k][g]) = 1
  PROVE  StepsAt(k, g) = {Groups[k][g][1]}
<1>1. g \in DOMAIN Groups[k] /\ g # Top(k) /\ Groups[k] \in Seq(Seq(AllSteps))
  BY Places, WorkflowAssumption
<1>2. Groups[k][g] \in Seq(AllSteps)
  BY <1>1
<1>3. DOMAIN Groups[k][g] = {1}
  BY <1>2
<1> QED BY <1>1, <1>3 DEF StepsAt

(* Steps of one job that no table of an execution takes part in. *)
LEMMA JobStepOK ==
  ASSUME IInv, TypeOK', UNCHANGED <<request, pending>>, NEW k \in JobIds,
         \A i \in JobIds \ {k} :
           job'[i] = job[i] /\ effect'[i] = effect[i] /\ ran'[i] = ran[i],
         ChainOK(k)', job[k].state # "none", job'[k].state # "none",
         job[k].state \in Finished => job'[k].state = job[k].state,
         job'[k].owner = job[k].owner, ran[k] >= 1 => ran'[k] >= 1,
         job[k].phase = "thrown" /\ job[k].place = Top(k) => Leads(k),
         job'[k].phase = "skipped" /\ ran'[k] = 0 =>
           (job[k].phase = "skipped" /\ ran[k] = 0) \/ HasHeard(job[k].owner),
         \A p \in Procs : \A a \in stream'[p] : a \in stream[p] \/ job'[a[1]].state = a[2]
  PROVE  IInv'
<1>1. Onward
  BY DEF Onward, Keeps, Leads
<1>2. \A i \in JobIds : ChainOK(i)'
  BY DEF IInv, ChainOK, JobShape, LapseShape, Broken, ListsEffects, CountsRuns,
         HandlerBehind
<1>3. ASSUME NEW r \in Requests PROVE RequestShape(r)' /\ Sincere(r)' /\ Tracked(r)'
  <2>1. RequestShape(r) /\ Sincere(r) /\ Tracked(r) /\ request'[r] = request[r]
    BY DEF IInv
  <2>2. RequestShape(r)'
    BY <2>1 DEF RequestShape
  <2>3. Sincere(r)'
    <3>1. CASE request[r].stage = "unsent"
      BY <2>1, <3>1 DEF RequestShape, Sincere, Unsent
    <3>2. CASE request[r].stage # "unsent"
      BY <1>1, <2>1, <3>2, StaysSincere
    <3> QED BY <3>1, <3>2
  <2>4. \A i \in JobIds : Owns(r, i)' <=> Owns(r, i)
    BY DEF Owns
  <2>5. Tracked(r)'
    BY <2>1, <2>4 DEF Tracked, Raced
  <2> QED BY <2>2, <2>3, <2>5
<1>4. \A p \in Procs, i \in JobIds : PendingOK(p, i)'
  BY DEF IInv, PendingOK
<1> QED BY <1>1, <1>2, <1>3, <1>4, StepOK

(* The chain of one job id becomes g. *)
JobBecomes(k, g) == g \in JobRecords /\ job' = [job EXCEPT ![k] = g]

LEMMA JobBecomesOK ==
  ASSUME IInv, NEW k \in JobIds, NEW g, JobBecomes(k, g)
  PROVE  /\ job' \in [JobIds -> JobRecords] /\ job'[k] = g
         /\ \A i \in JobIds \ {k} : job'[i] = job[i]
BY DEF IInv, TypeOK, JobBecomes

quiet == <<life, listener, request, pending, handle, reader, stops>>

LEMMA AnnounceOK ==
  ASSUME IInv, NEW k \in JobIds, NEW outcome \in Finished, Announce(k, outcome)
  PROVE  /\ stream' \in [Procs -> SUBSET (JobIds \X Finished)]
         /\ \A p \in Procs : \A a \in stream'[p] : a \in stream[p] \/ a = <<k, outcome>>
BY DEF Announce, IInv, TypeOK

(* Workers take the steps of a place, run them and undo them. *)
LEMMA TakeIInv ==
  ASSUME IInv, NEW p \in Procs, NEW k \in JobIds, Take(p, k)
  PROVE  IInv'
<1> DEFINE j == job[k]
           g == [j EXCEPT !.state = "active", !.by = p, !.phase = "steps",
                          !.open = StepsAt(k, j.place), !.ok = {}, !.undone = {}]
<1>1. /\ j \in JobRecords /\ j.place \in 1 .. Top(k) /\ j.place < Top(k) /\ j.state = "waiting"
      /\ ChainOK(k) /\ j.phase = "idle" /\ StepsAt(k, j.place) \subseteq AllSteps
  BY Places DEF Take, IInv, TypeOK, ChainOK, JobShape
<1>2. UNCHANGED <<effect, ran, stream, quiet>>
  BY DEF Take, callers, quiet
<1>3. /\ g \in JobRecords /\ g.state = "active" /\ g.by = p /\ g.phase = "steps"
      /\ g.open = StepsAt(k, j.place) /\ g.ok = {} /\ g.undone = {} /\ g.place = j.place
      /\ g.owner = j.owner /\ g.stalls = j.stalls
      /\ g.lapsed = j.lapsed /\ g.loose = j.loose
  BY <1>1 DEF JobRecords, JobStates
<1>4. JobBecomes(k, g)
  BY <1>1, <1>3 DEF Take, JobBecomes, IInv, TypeOK
<1> HIDE DEF g
<1>5. /\ job' \in [JobIds -> JobRecords] /\ job'[k] = g /\ \A i \in JobIds \ {k} : job'[i] = job[i]
  BY <1>4, JobBecomesOK
<1>6. ChainOK(k)'
  <2>1. JobShape(k)'
    BY <1>1, <1>3, <1>5, WorkflowAssumption DEF JobShape, Finished
  <2>2. ListsEffects(k)'
    BY <1>1, <1>2, <1>3, <1>5 DEF ChainOK, ListsEffects, Broken
  <2>3. CountsRuns(k)'
    BY <1>1, <1>2, <1>3, <1>5 DEF ChainOK, CountsRuns, HandlerBehind, Finished
  <2>4. LapseShape(k)'
    BY <1>1, <1>3, <1>5 DEF ChainOK, JobShape, LapseShape, Broken, Finished
  <2> QED BY <2>1, <2>2, <2>3, <2>4 DEF ChainOK
<1>7. TypeOK'
  BY <1>2, <1>5 DEF IInv, TypeOK, quiet
<1> QED BY <1>1, <1>2, <1>3, <1>5, <1>6, <1>7, JobStepOK DEF Finished, Leads, quiet

LEMMA StepEndsIInv ==
  ASSUME IInv, NEW k \in JobIds, NEW s \in AllSteps, NEW how \in Outcomes(s), StepEnds(k, s, how)
  PROVE  IInv'
<1> DEFINE j == job[k]
           g == [j EXCEPT !.open = @ \ {s}, !.ok = IF how = "applied" THEN @ \union {s} ELSE @]
<1>1. /\ j \in JobRecords /\ j.place \in 1 .. Top(k) /\ j.phase = "steps" /\ s \in j.open
      /\ ChainOK(k) /\ JobShape(k) /\ j.state = "active" /\ j.by # None /\ j.place < Top(k)
      /\ ~Broken(k)
  BY DEF StepEnds, IInv, TypeOK, ChainOK, JobShape, JobRecords, JobStates, Finished
<1>2. /\ UNCHANGED <<ran, stream, quiet>> /\ how \in {"none", "applied", "late"}
      /\ effect' = IF how = "none" \/ s \notin Undoable THEN effect
                   ELSE [effect EXCEPT ![k][s] = how]
  BY DEF StepEnds, Leaves, callers, quiet, Outcomes
<1>3. /\ g \in JobRecords /\ g.state = j.state /\ g.by = j.by /\ g.phase = j.phase
      /\ g.open = j.open \ {s} /\ g.ok = (IF how = "applied" THEN j.ok \union {s} ELSE j.ok)
      /\ g.undone = j.undone /\ g.place = j.place /\ g.owner = j.owner /\ g.stalls = j.stalls
      /\ g.lapsed = j.lapsed /\ g.loose = j.loose
  BY <1>1 DEF JobRecords
<1>4. JobBecomes(k, g)
  BY <1>1, <1>3 DEF StepEnds, JobBecomes, IInv, TypeOK
<1> HIDE DEF g
<1>5. /\ job' \in [JobIds -> JobRecords] /\ job'[k] = g /\ \A i \in JobIds \ {k} : job'[i] = job[i]
  BY <1>4, JobBecomesOK
<1>6. /\ effect' \in [JobIds -> [Undoable -> {"none", "applied", "late", "undone"}]]
      /\ \A i \in JobIds \ {k} : effect'[i] = effect[i]
      /\ \A t \in Undoable : effect'[k][t] = "applied" =>
           effect[k][t] = "applied" \/ (t = s /\ how = "applied")
  BY <1>2 DEF IInv, TypeOK
<1>7. s \in StepsAt(k, j.place) /\ s \in Steps(k) /\ PlaceOf[k][s] = j.place /\ j.undone = {}
  BY <1>1, Places DEF JobShape
<1>8. ChainOK(k)'
  <2>1. JobShape(k)'
    BY <1>1, <1>3, <1>5, <1>7 DEF JobShape, Finished
  <2>2. ListsEffects(k)'
    BY <1>1, <1>3, <1>5, <1>6, <1>7 DEF ChainOK, ListsEffects, Broken
  <2>3. CountsRuns(k)'
    BY <1>1, <1>2, <1>3, <1>5 DEF ChainOK, CountsRuns, HandlerBehind
  <2>4. LapseShape(k)'
    BY <1>1, <1>3, <1>5 DEF ChainOK, JobShape, LapseShape, Broken, Finished
  <2> QED BY <2>1, <2>2, <2>3, <2>4 DEF ChainOK
<1>9. TypeOK'
  BY <1>2, <1>5, <1>6 DEF IInv, TypeOK, quiet
<1> QED BY <1>1, <1>2, <1>3, <1>5, <1>6, <1>8, <1>9, JobStepOK DEF Finished, Leads, quiet

(* A job throws without rollbacks: for want of a handler, or of the results before it. *)
LEMMA LapsesIInv ==
  ASSUME IInv, NEW k \in JobIds, HandlerMissing(k) \/ ReadFails(k)
  PROVE  IInv'
<1> DEFINE j == job[k]
<1>1. /\ j \in JobRecords /\ j.phase = "steps" /\ j.state = "active" /\ j.place < Top(k)
      /\ j.place \in 1 .. Top(k) /\ j.by \in Procs /\ ChainOK(k) /\ JobShape(k)
      /\ LapseShape(k) /\ j.undone = {} /\ StepsAt(k, j.place) \subseteq AllSteps
  <2>1. j \in JobRecords /\ j.phase = "steps" /\ ChainOK(k) /\ JobShape(k) /\ LapseShape(k)
    BY DEF HandlerMissing, ReadFails, IInv, TypeOK, ChainOK
  <2>2. /\ j.state = "active" /\ j.place < Top(k) /\ j.place \in 1 .. Top(k) /\ j.by \in Procs
    BY <2>1 DEF JobShape, JobRecords, JobStates, Finished
  <2>3. j.undone = {}
    BY <2>1 DEF HandlerMissing, ReadFails, LapseShape
  <2>4. StepsAt(k, j.place) \subseteq AllSteps
    BY <2>2, Places
  <2> QED BY <2>1, <2>2, <2>3, <2>4
<1>2. PICK left \in SUBSET StepsAt(k, j.place) : Lapses(k, left) /\ (left # {} => Broken(k))
  <2>1. CASE HandlerMissing(k)
    BY <2>1 DEF HandlerMissing
  <2>2. CASE ReadFails(k)
    BY <2>2 DEF ReadFails
  <2> QED BY <2>1, <2>2
<1>3. UNCHANGED <<effect, ran, stream, quiet>>
  BY DEF HandlerMissing, ReadFails, callers, quiet
<1>4. PICK loose \in SUBSET (Procs \X AllSteps) : loose = j.loose \union ({j.by} \X left)
  BY <1>1, <1>2 DEF JobRecords
<1> DEFINE g == [j EXCEPT !.phase = "thrown", !.open = {}, !.lapsed = TRUE, !.loose = loose]
<1>5. /\ g \in JobRecords /\ g.state = j.state /\ g.by = j.by /\ g.phase = "thrown"
      /\ g.open = {} /\ g.ok = j.ok /\ g.undone = {} /\ g.place = j.place /\ g.owner = j.owner
      /\ g.stalls = j.stalls /\ g.lapsed = TRUE /\ g.loose = loose
  BY <1>1 DEF JobRecords
<1>6. JobBecomes(k, g)
  BY <1>1, <1>2, <1>4, <1>5 DEF Lapses, JobBecomes, IInv, TypeOK
<1> HIDE DEF g
<1>7. /\ job' \in [JobIds -> JobRecords] /\ job'[k] = g /\ \A i \in JobIds \ {k} : job'[i] = job[i]
  BY <1>6, JobBecomesOK
<1>8. ChainOK(k)'
  <2>1. JobShape(k)'
    BY <1>1, <1>5, <1>7 DEF JobShape, Finished
  <2>2. LapseShape(k)'
    <3>1. \A x \in loose : x \in j.loose \/ (Broken(k) /\ x[2] \in StepsAt(k, j.place))
      BY <1>2, <1>4
    <3>2. loose # {} => Broken(k)
      BY <1>1, <3>1 DEF LapseShape
    <3>3. \A x \in loose : x[2] \in StepsAt(k, j.place)
      BY <1>1, <3>1 DEF LapseShape
    <3>4. Broken(k)' <=> Broken(k)
      BY <1>5, <1>7 DEF Broken
    <3> QED BY <1>5, <1>7, <3>2, <3>3, <3>4 DEF LapseShape
  <2>3. ListsEffects(k)'
    <3>1. \A s \in Undoable : j.stalls = 0 /\ effect[k][s] = "applied" =>
            s \in Steps(k) /\ (PlaceOf[k][s] < j.place \/ Broken(k))
      <4>1. j.stalls = 0 => \A s \in Undoable : effect[k][s] = "applied" =>
              s \in Steps(k) /\ (PlaceOf[k][s] < j.place \/ s \in j.ok \/ Broken(k))
        BY <1>1 DEF ChainOK, ListsEffects
      <4>2. j.ok = {} \/ Broken(k)
        <5>1. CASE HandlerMissing(k)
          BY <5>1 DEF HandlerMissing
        <5>2. CASE j.open = StepsAt(k, j.place)
          BY <1>1, <5>2 DEF JobShape
        <5>3. CASE GroupFailed(k) /\ Len(Groups[k][j.place]) = 1
          <6>1. j.ok \subseteq StepsAt(k, j.place) /\ j.ok # StepsAt(k, j.place)
            BY <1>1, <5>3 DEF JobShape, GroupFailed, AllOk
          <6>2. StepsAt(k, j.place) = {Groups[k][j.place][1]}
            BY <1>1, <5>3, OneStep
          <6> QED BY <6>1, <6>2
        <5> QED BY <5>1, <5>2, <5>3 DEF ReadFails
      <4> QED BY <4>1, <4>2
    <3>2. Broken(k)' <=> Broken(k)
      BY <1>5, <1>7 DEF Broken
    <3> QED BY <1>3, <1>5, <1>7, <3>1, <3>2 DEF ListsEffects
  <2>4. CountsRuns(k)'
    BY <1>1, <1>3, <1>5, <1>7 DEF ChainOK, CountsRuns, HandlerBehind
  <2> QED BY <2>1, <2>2, <2>3, <2>4 DEF ChainOK
<1>9. TypeOK'
  BY <1>3, <1>7 DEF IInv, TypeOK, quiet
<1> QED BY <1>1, <1>3, <1>5, <1>7, <1>8, <1>9, JobStepOK DEF Finished, Leads, quiet

(* A step that was left running ends, at any time. *)
LEMMA LooseEndsIInv ==
  ASSUME IInv, NEW k \in JobIds, NEW x \in job[k].loose, NEW how \in Outcomes(x[2]),
         LooseEnds(k, x, how)
  PROVE  IInv'
<1> DEFINE j == job[k]
<1>1. /\ j \in JobRecords /\ j.place \in 1 .. Top(k) /\ ChainOK(k) /\ JobShape(k)
      /\ LapseShape(k) /\ Broken(k) /\ x[2] \in StepsAt(k, j.place) /\ j.undone = {}
      /\ j.loose \in SUBSET (Procs \X AllSteps)
  BY DEF IInv, TypeOK, ChainOK, JobShape, LapseShape, JobRecords
<1>2. PICK s \in AllSteps : s = x[2] /\ s \in StepsAt(k, j.place) /\ s \in Steps(k)
  BY <1>1, Places
<1>3. /\ UNCHANGED <<ran, stream, quiet>> /\ how \in {"none", "applied", "late"}
      /\ effect' = IF how = "none" \/ s \notin Undoable THEN effect
                   ELSE [effect EXCEPT ![k][s] = how]
  BY <1>2 DEF LooseEnds, Leaves, callers, quiet, Outcomes
<1>4. PICK loose \in SUBSET (Procs \X AllSteps) : loose = j.loose \ {x} /\ loose \subseteq j.loose
  BY <1>1
<1> DEFINE g == [j EXCEPT !.loose = loose]
<1>5. /\ g \in JobRecords /\ g.state = j.state /\ g.by = j.by /\ g.phase = j.phase
      /\ g.open = j.open /\ g.ok = j.ok /\ g.undone = j.undone /\ g.place = j.place
      /\ g.owner = j.owner /\ g.stalls = j.stalls /\ g.lapsed = j.lapsed /\ g.loose = loose
  BY <1>1 DEF JobRecords
<1>6. JobBecomes(k, g)
  BY <1>4, <1>5 DEF LooseEnds, JobBecomes, IInv, TypeOK
<1> HIDE DEF g
<1>7. /\ job' \in [JobIds -> JobRecords] /\ job'[k] = g /\ \A i \in JobIds \ {k} : job'[i] = job[i]
  BY <1>6, JobBecomesOK
<1>8. /\ effect' \in [JobIds -> [Undoable -> {"none", "applied", "late", "undone"}]]
      /\ \A i \in JobIds \ {k} : effect'[i] = effect[i]
      /\ \A t \in Undoable : effect'[k][t] = "applied" => effect[k][t] = "applied" \/ t = s
  BY <1>3 DEF IInv, TypeOK
<1>9. j.state # "none" /\ (Broken(k)' <=> Broken(k))
  <2>1. NoJob.loose = {}
    BY DEF NoJob
  <2> QED BY <1>1, <1>5, <1>7, <2>1 DEF JobShape, Broken
<1>10. ChainOK(k)'
  <2>1. JobShape(k)'
    BY <1>1, <1>5, <1>7, <1>9 DEF JobShape
  <2>2. LapseShape(k)'
    BY <1>1, <1>4, <1>5, <1>7, <1>9 DEF LapseShape
  <2>3. ListsEffects(k)'
    <3>1. ~(j.place < Top(k) /\ ~j.lapsed /\ (j.phase = "thrown" \/ j.state \in {"failing", "failed"}))
      BY <1>1 DEF LapseShape
    <3>2. j.stalls = 0 => \A t \in Undoable : effect'[k][t] = "applied" => t \in Steps(k)
      BY <1>1, <1>2, <1>8 DEF ChainOK, ListsEffects
    <3> QED BY <1>1, <1>5, <1>7, <1>9, <3>1, <3>2 DEF ListsEffects
  <2>4. CountsRuns(k)'
    BY <1>1, <1>3, <1>5, <1>7 DEF ChainOK, CountsRuns, HandlerBehind
  <2> QED BY <2>1, <2>2, <2>3, <2>4 DEF ChainOK
<1>11. TypeOK'
  BY <1>3, <1>7, <1>8 DEF IInv, TypeOK, quiet
<1> QED BY <1>1, <1>3, <1>5, <1>7, <1>8, <1>9, <1>10, <1>11, JobStepOK DEF JobShape, Finished, Leads, quiet

LEMMA RollbackEndsIInv ==
  ASSUME IInv, NEW k \in JobIds, NEW s \in AllSteps, RollbackEnds(k, s)
  PROVE  IInv'
<1> DEFINE j == job[k]
           g == [j EXCEPT !.undone = @ \union {s}]
<1>1. /\ j \in JobRecords /\ j.place \in 1 .. Top(k) /\ j.phase = "steps" /\ j.open = {}
      /\ ChainOK(k) /\ JobShape(k) /\ j.state = "active" /\ s \in Undoable /\ j.place < Top(k)
      /\ ~Broken(k)
  <2>1. /\ j \in JobRecords /\ ChainOK(k) /\ JobShape(k) /\ LapseShape(k)
        /\ j.phase = "steps" /\ j.open = {} /\ s \in Undoable
    BY DEF RollbackEnds, GroupFailed, GroupEnded, ToUndo, IInv, TypeOK, ChainOK
  <2>2. ~Broken(k)
    BY <2>1 DEF LapseShape, Broken
  <2> QED BY <2>1, <2>2 DEF JobShape, JobRecords, JobStates, Finished
<1>2. UNCHANGED <<ran, stream, quiet>> /\ effect' = [effect EXCEPT ![k][s] = "undone"]
  BY DEF RollbackEnds, callers, quiet
<1>3. /\ g \in JobRecords /\ g.state = j.state /\ g.by = j.by /\ g.phase = j.phase
      /\ g.open = j.open /\ g.ok = j.ok /\ g.undone = j.undone \union {s} /\ g.place = j.place
      /\ g.owner = j.owner /\ g.stalls = j.stalls
      /\ g.lapsed = j.lapsed /\ g.loose = j.loose
  BY <1>1 DEF JobRecords
<1>4. JobBecomes(k, g)
  BY <1>1, <1>3 DEF RollbackEnds, JobBecomes, IInv, TypeOK
<1> HIDE DEF g
<1>5. /\ job' \in [JobIds -> JobRecords] /\ job'[k] = g /\ \A i \in JobIds \ {k} : job'[i] = job[i]
  BY <1>4, JobBecomesOK
<1>6. /\ effect' \in [JobIds -> [Undoable -> {"none", "applied", "late", "undone"}]]
      /\ \A i \in JobIds \ {k} : effect'[i] = effect[i]
      /\ \A t \in Undoable : effect'[k][t] = IF t = s THEN "undone" ELSE effect[k][t]
  BY <1>2 DEF IInv, TypeOK
<1>7. ChainOK(k)'
  <2>1. JobShape(k)'
    BY <1>1, <1>3, <1>5 DEF JobShape, Finished
  <2>2. ListsEffects(k)'
    BY <1>1, <1>3, <1>5, <1>6 DEF ChainOK, ListsEffects, Broken
  <2>3. CountsRuns(k)'
    BY <1>1, <1>2, <1>3, <1>5 DEF ChainOK, CountsRuns, HandlerBehind
  <2>4. LapseShape(k)'
    BY <1>1, <1>3, <1>5 DEF ChainOK, JobShape, LapseShape, Broken, Finished
  <2> QED BY <2>1, <2>2, <2>3, <2>4 DEF ChainOK
<1>8. TypeOK'
  BY <1>2, <1>5, <1>6 DEF IInv, TypeOK, quiet
<1> QED BY <1>1, <1>2, <1>3, <1>5, <1>6, <1>7, <1>8, JobStepOK DEF Finished, Leads, quiet

(* A job without a worker. *)
Again(state, tries, owner, place, stalls, lapsed, loose) ==
  [NoJob EXCEPT !.state = state, !.tries = tries, !.owner = owner, !.place = place,
                !.stalls = stalls, !.lapsed = lapsed, !.loose = loose]
IsIdle(g, state, owner, place, stalls, lapsed, loose) ==
  /\ g \in JobRecords /\ g.state = state /\ g.by = None /\ g.phase = "idle"
  /\ g.undone = {} /\ g.place = place /\ g.owner = owner /\ g.stalls = stalls
  /\ g.lapsed = lapsed /\ g.loose = loose

LEMMA AgainOK ==
  ASSUME NEW state \in JobStates, NEW tries \in Nat, NEW owner \in Requests \union {None},
         NEW place \in Nat, NEW stalls \in Nat, NEW lapsed \in BOOLEAN,
         NEW loose \in SUBSET (Procs \X AllSteps)
  PROVE  IsIdle(Again(state, tries, owner, place, stalls, lapsed, loose),
                state, owner, place, stalls, lapsed, loose)
<1>1. NoJob \in JobRecords /\ NoJob.by = None /\ NoJob.phase = "idle" /\ NoJob.undone = {}
  BY DEF NoJob, JobRecords, JobStates
<1> QED BY <1>1 DEF Again, IsIdle, JobRecords

Orphan(state, tries, owner, place, stalls, loose) ==
  [NoJob EXCEPT !.state = state, !.tries = tries, !.owner = owner, !.place = place,
                !.stalls = stalls, !.loose = loose]

LEMMA OrphanOK ==
  ASSUME NEW state \in JobStates, NEW tries \in Nat, NEW owner \in Requests \union {None},
         NEW place \in Nat, NEW stalls \in Nat, NEW loose \in SUBSET (Procs \X AllSteps)
  PROVE  IsIdle(Orphan(state, tries, owner, place, stalls, loose),
                state, owner, place, stalls, NoJob.lapsed, loose)
<1>1. NoJob \in JobRecords /\ NoJob.by = None /\ NoJob.phase = "idle" /\ NoJob.undone = {}
  BY DEF NoJob, JobRecords, JobStates
<1> QED BY <1>1 DEF Orphan, IsIdle, JobRecords

LEMMA StepCompletesIInv ==
  ASSUME IInv, NEW k \in JobIds, StepCompletes(k)
  PROVE  IInv'
<1> DEFINE j == job[k]
           g == [NoJob EXCEPT !.state = "waiting", !.owner = j.owner, !.place = j.place + 1,
                              !.stalls = j.stalls]
<1>1. /\ j \in JobRecords /\ j.place \in 1 .. Top(k) /\ j.phase = "steps" /\ j.state = "active"
      /\ ChainOK(k) /\ j.place < Top(k) /\ j.ok = StepsAt(k, j.place) /\ Top(k) \in Nat
      /\ ~Broken(k)
  <2>1. /\ j \in JobRecords /\ ChainOK(k) /\ JobShape(k) /\ LapseShape(k) /\ Top(k) \in Nat
        /\ j.phase = "steps" /\ j.open = {} /\ j.ok = StepsAt(k, j.place)
    BY Places DEF StepCompletes, GroupEnded, AllOk, IInv, TypeOK, ChainOK
  <2>2. ~Broken(k)
    BY <2>1 DEF LapseShape, Broken
  <2> QED BY <2>1, <2>2 DEF JobShape, Finished, JobRecords, JobStates
<1>2. UNCHANGED <<effect, ran, stream, quiet>>
  BY DEF StepCompletes, callers, quiet
<1>3. /\ g \in JobRecords /\ g.state = "waiting" /\ g.by = None /\ g.phase = "idle"
      /\ g.undone = {} /\ g.place = j.place + 1 /\ g.place \in 1 .. Top(k)
      /\ g.owner = j.owner /\ g.stalls = j.stalls /\ g.lapsed = FALSE /\ g.loose = {}
  <2>1. /\ j.owner \in Requests \union {None} /\ j.place + 1 \in Nat /\ j.stalls \in Nat
        /\ j.place + 1 \in 1 .. Top(k) /\ "waiting" \in JobStates
    BY <1>1 DEF JobRecords, JobStates
  <2>2. /\ NoJob \in JobRecords /\ NoJob.by = None /\ NoJob.phase = "idle"
        /\ NoJob.undone = {} /\ NoJob.lapsed = FALSE /\ NoJob.loose = {}
    BY DEF NoJob, JobRecords, JobStates
  <2> HIDE DEF j
  <2> QED BY <2>1, <2>2 DEF JobRecords
<1>4. JobBecomes(k, g)
  BY <1>1, <1>3 DEF StepCompletes, JobBecomes, IInv, TypeOK
<1> HIDE DEF g
<1>5. /\ job' \in [JobIds -> JobRecords] /\ job'[k] = g /\ \A i \in JobIds \ {k} : job'[i] = job[i]
  BY <1>4, JobBecomesOK
<1>6. \A s \in Steps(k) : PlaceOf[k][s] \in Nat
                          /\ (PlaceOf[k][s] < j.place \/ s \in j.ok => PlaceOf[k][s] < g.place)
  BY <1>1, <1>3, Places
<1>7. ChainOK(k)'
  <2>1. JobShape(k)'
    BY <1>1, <1>3, <1>5 DEF JobShape, Finished
  <2>2. ListsEffects(k)'
    BY <1>1, <1>2, <1>3, <1>5, <1>6 DEF ChainOK, ListsEffects, Broken
  <2>3. CountsRuns(k)'
    BY <1>1, <1>2, <1>3, <1>5 DEF ChainOK, CountsRuns, HandlerBehind, Finished
  <2>4. LapseShape(k)'
    BY <1>1, <1>3, <1>5 DEF ChainOK, JobShape, LapseShape, Broken, Finished
  <2> QED BY <2>1, <2>2, <2>3, <2>4 DEF ChainOK
<1>8. TypeOK'
  BY <1>2, <1>5 DEF IInv, TypeOK, quiet
<1> QED BY <1>1, <1>2, <1>3, <1>5, <1>7, <1>8, JobStepOK DEF Finished, Leads, quiet

LEMMA StepFailsIInv ==
  ASSUME IInv, NEW k \in JobIds, StepFails(k)
  PROVE  IInv'
<1> DEFINE j == job[k]
           final == j.tries + 1 >= Attempts
           g == [NoJob EXCEPT !.state = IF final THEN "failing" ELSE "waiting",
                              !.tries = IF final THEN 0 ELSE j.tries + 1,
                              !.owner = j.owner, !.place = j.place, !.stalls = j.stalls,
                              !.lapsed = final /\ j.lapsed, !.loose = j.loose]
<1>1. /\ j \in JobRecords /\ j.place \in 1 .. Top(k) /\ j.phase = "thrown" /\ j.state = "active"
      /\ ChainOK(k) /\ j.place < Top(k)
  BY DEF StepFails, IInv, TypeOK, ChainOK, JobShape, Finished, JobRecords, JobStates
<1>2. UNCHANGED <<effect, ran, stream, quiet>>
  BY DEF StepFails, callers, quiet
<1>3. /\ g \in JobRecords /\ g.state \in {"failing", "waiting"} /\ g.by = None
      /\ g.phase = "idle" /\ g.undone = {} /\ g.place = j.place
      /\ g.owner = j.owner /\ g.stalls = j.stalls /\ g.loose = j.loose
      /\ g.state = "failing" => g.lapsed = j.lapsed
  <2>1. /\ j.owner \in Requests \union {None} /\ j.place \in Nat /\ j.stalls \in Nat
        /\ (IF final THEN 0 ELSE j.tries + 1) \in Nat
        /\ (IF final THEN "failing" ELSE "waiting") \in JobStates \cap {"failing", "waiting"}
        /\ j.lapsed \in BOOLEAN /\ j.loose \in SUBSET (Procs \X AllSteps)
    BY <1>1 DEF JobRecords, JobStates
  <2> HIDE DEF final
  <2>5. PICK state \in JobStates, tries \in Nat :
          /\ state = (IF final THEN "failing" ELSE "waiting") /\ state \in {"failing", "waiting"}
          /\ tries = (IF final THEN 0 ELSE j.tries + 1)
    BY <2>1
  <2>6. PICK lapsed \in BOOLEAN : lapsed = (final /\ j.lapsed)
    BY <2>1
  <2>9. state = "failing" => lapsed = j.lapsed
    BY <2>1, <2>5, <2>6
  <2>7. PICK owner \in Requests \union {None}, place \in Nat, stalls \in Nat :
          owner = j.owner /\ place = j.place /\ stalls = j.stalls
    BY <2>1
  <2>8. PICK loose \in SUBSET (Procs \X AllSteps) : loose = j.loose
    BY <2>1
  <2>2. /\ state = (IF final THEN "failing" ELSE "waiting")
        /\ tries = (IF final THEN 0 ELSE j.tries + 1) /\ state \in {"failing", "waiting"}
        /\ owner = j.owner /\ place = j.place /\ stalls = j.stalls
        /\ lapsed = (final /\ j.lapsed) /\ loose = j.loose
        /\ state = "failing" => lapsed = j.lapsed
    BY <2>5, <2>6, <2>7, <2>8, <2>9
  <2>3. g = Again(state, tries, owner, place, stalls, lapsed, loose)
    BY <2>2 DEF Again
  <2> HIDE DEF g, j
  <2>4. IsIdle(g, state, owner, place, stalls, lapsed, loose)
    BY <2>3, AgainOK
  <2> QED BY <2>2, <2>4 DEF IsIdle
<1>4. JobBecomes(k, g)
  BY <1>1, <1>3 DEF StepFails, JobBecomes, IInv, TypeOK
<1> HIDE DEF g
<1>5. /\ job' \in [JobIds -> JobRecords] /\ job'[k] = g /\ \A i \in JobIds \ {k} : job'[i] = job[i]
  BY <1>4, JobBecomesOK
<1>6. ChainOK(k)'
  <2>1. JobShape(k)'
    BY <1>1, <1>3, <1>5 DEF JobShape, Finished
  <2>2. ListsEffects(k)'
    BY <1>1, <1>2, <1>3, <1>5 DEF ChainOK, ListsEffects, Broken
  <2>3. CountsRuns(k)'
    BY <1>1, <1>2, <1>3, <1>5 DEF ChainOK, CountsRuns, HandlerBehind, Finished
  <2>4. LapseShape(k)'
    BY <1>1, <1>3, <1>5 DEF ChainOK, JobShape, LapseShape, Broken, Finished
  <2> QED BY <2>1, <2>2, <2>3, <2>4 DEF ChainOK
<1>7. TypeOK'
  BY <1>2, <1>5 DEF IInv, TypeOK, quiet
<1> QED BY <1>1, <1>2, <1>3, <1>5, <1>6, <1>7, JobStepOK DEF Finished, Leads, quiet

LEMMA CascadeIInv ==
  ASSUME IInv, NEW k \in JobIds, Cascade(k)
  PROVE  IInv'
<1> DEFINE j == job[k]
           g == [j EXCEPT !.state = "failed"]
<1>1. /\ j \in JobRecords /\ j.place \in 1 .. Top(k) /\ j.phase = "idle" /\ j.state = "failing"
      /\ ChainOK(k) /\ JobShape(k) /\ j.place < Top(k)
  BY DEF Cascade, IInv, TypeOK, ChainOK, JobShape, Finished, JobRecords, JobStates
<1>2. UNCHANGED <<effect, ran, quiet>> /\ Announce(k, "failed") /\ "failed" \in Finished
  BY DEF Cascade, callers, quiet, Finished
<1>3. /\ g \in JobRecords /\ g.state = "failed" /\ g.by = j.by /\ g.phase = "idle"
      /\ g.undone = j.undone /\ g.place = j.place /\ g.owner = j.owner /\ g.stalls = j.stalls
      /\ g.open = j.open /\ g.ok = j.ok /\ g.lapsed = j.lapsed /\ g.loose = j.loose
  BY <1>1 DEF JobRecords, JobStates, Finished
<1>4. JobBecomes(k, g)
  BY <1>1, <1>3 DEF Cascade, JobBecomes, IInv, TypeOK
<1> HIDE DEF g
<1>5. /\ job' \in [JobIds -> JobRecords] /\ job'[k] = g /\ \A i \in JobIds \ {k} : job'[i] = job[i]
  BY <1>4, JobBecomesOK
<1>6. ChainOK(k)'
  <2>1. JobShape(k)'
    BY <1>1, <1>3, <1>5 DEF JobShape, Finished
  <2>2. ListsEffects(k)'
    BY <1>1, <1>2, <1>3, <1>5 DEF ChainOK, ListsEffects, Broken
  <2>3. CountsRuns(k)'
    <3>1. ran[k] <= j.stalls /\ ran[k] \in Nat /\ j.stalls \in Nat
      BY <1>1 DEF ChainOK, CountsRuns, HandlerBehind, Finished, IInv, TypeOK, JobRecords
    <3> QED BY <1>1, <1>2, <1>3, <1>5, <3>1 DEF CountsRuns
  <2>4. LapseShape(k)'
    BY <1>1, <1>3, <1>5 DEF ChainOK, JobShape, LapseShape, Broken, Finished
  <2> QED BY <2>1, <2>2, <2>3, <2>4 DEF ChainOK
<1>7. /\ stream' \in [Procs -> SUBSET (JobIds \X Finished)]
      /\ \A p \in Procs : \A a \in stream'[p] : a \in stream[p] \/ a = <<k, "failed">>
  BY <1>2, AnnounceOK
<1>8. TypeOK'
  BY <1>2, <1>5, <1>7 DEF IInv, TypeOK, quiet
<1>9. \A p \in Procs : \A a \in stream'[p] : a \in stream[p] \/ job'[a[1]].state = a[2]
  BY <1>3, <1>5, <1>7
<1> QED BY <1>1, <1>2, <1>3, <1>5, <1>6, <1>8, <1>9, JobStepOK DEF Finished, Leads, quiet

-----------------------------------------------------------------------------
(* The workflow's own job. *)

LEMMA StatusIsOwners ==
  ASSUME IInv, NEW p \in Procs, NEW k \in JobIds, StatusAt(p, k) # "none"
  PROVE  /\ job[k].owner \in Requests /\ request[job[k].owner].proc = p
         /\ StatusAt(p, k) = request[job[k].owner].status
<1> DEFINE here == {r \in Requests \cap {job[k].owner} : request[r].proc = p}
<1>1. here # {}
  BY DEF StatusAt
<1>2. here = {job[k].owner} /\ job[k].owner \in Requests /\ request[job[k].owner].proc = p
  BY <1>1
<1>3. (CHOOSE r \in here : TRUE) = job[k].owner
  BY <1>2
<1> QED BY <1>1, <1>2, <1>3 DEF StatusAt

LEMMA TakeWorkflowIInv ==
  ASSUME IInv, NEW p \in Procs, NEW k \in JobIds, TakeWorkflow(p, k)
  PROVE  IInv'
<1> DEFINE j == job[k]
           g == [j EXCEPT !.state = "active", !.by = p,
                          !.phase = IF StatusAt(p, k) = "failed" THEN "skipped" ELSE "handler"]
<1>1. /\ j \in JobRecords /\ j.place = Top(k) /\ j.phase = "idle" /\ j.state = "waiting"
      /\ ChainOK(k) /\ JobShape(k) /\ Top(k) \in Nat /\ j.place \in 1 .. Top(k)
  BY Places DEF TakeWorkflow, IInv, TypeOK, ChainOK, JobShape, Finished, JobRecords, JobStates
<1>2. UNCHANGED <<effect, ran, stream, quiet>>
  BY DEF TakeWorkflow, callers, quiet
<1>3. /\ g \in JobRecords /\ g.state = "active" /\ g.by = p
      /\ g.phase = (IF StatusAt(p, k) = "failed" THEN "skipped" ELSE "handler")
      /\ g.undone = j.undone /\ g.place = j.place /\ g.owner = j.owner /\ g.stalls = j.stalls
      /\ g.open = j.open /\ g.ok = j.ok /\ g.lapsed = j.lapsed /\ g.loose = j.loose
  BY <1>1 DEF JobRecords, JobStates, Finished
<1>4. JobBecomes(k, g)
  BY <1>1, <1>3 DEF TakeWorkflow, JobBecomes, IInv, TypeOK
<1> HIDE DEF g
<1>5. /\ job' \in [JobIds -> JobRecords] /\ job'[k] = g /\ \A i \in JobIds \ {k} : job'[i] = job[i]
  BY <1>4, JobBecomesOK
<1>6. ChainOK(k)'
  <2>1. JobShape(k)'
    BY <1>1, <1>3, <1>5, WorkflowAssumption DEF JobShape, Finished
  <2>2. ListsEffects(k)'
    BY <1>1, <1>2, <1>3, <1>5 DEF ChainOK, ListsEffects, Broken
  <2>3. CountsRuns(k)'
    BY <1>1, <1>2, <1>3, <1>5 DEF ChainOK, CountsRuns, HandlerBehind, Finished
  <2>4. LapseShape(k)'
    BY <1>1, <1>3, <1>5 DEF ChainOK, JobShape, LapseShape, Broken, Finished
  <2> QED BY <2>1, <2>2, <2>3, <2>4 DEF ChainOK
<1>7. TypeOK'
  BY <1>2, <1>5 DEF IInv, TypeOK, quiet
<1>8. ASSUME g.phase = "skipped", ran[k] = 0 PROVE HasHeard(j.owner)
  <2>1. PICK r \in Requests : r = j.owner /\ request[r].status = "failed"
    BY <1>3, <1>8, StatusIsOwners
  <2>2. Sincere(r) /\ ~ \E i \in JobIds : Trace(r, i)
    BY <1>1, <1>8, <2>1 DEF IInv, Trace, Owns, OwnerOK
  <2> QED BY <1>8, <2>1, <2>2 DEF Sincere
<1> QED BY <1>1, <1>2, <1>3, <1>5, <1>6, <1>7, <1>8, JobStepOK DEF Finished, Leads, quiet

LEMMA HandlerReturnsIInv ==
  ASSUME IInv, NEW k \in JobIds, HandlerReturns(k)
  PROVE  IInv'
<1> DEFINE j == job[k]
           g == [j EXCEPT !.phase = "returned"]
<1>1. /\ j \in JobRecords /\ j.place \in 1 .. Top(k) /\ j.phase = "handler" /\ j.state = "active"
      /\ ChainOK(k) /\ JobShape(k) /\ ~(j.place < Top(k)) /\ Top(k) \in Nat
      /\ ran[k] \in Nat /\ j.stalls \in Nat
  BY Places DEF HandlerReturns, IInv, TypeOK, ChainOK, JobShape, Finished, JobRecords, JobStates
<1>2. UNCHANGED <<effect, stream, quiet>> /\ ran' = [ran EXCEPT ![k] = @ + 1]
  BY DEF HandlerReturns, callers, quiet
<1>3. /\ g \in JobRecords /\ g.state = "active" /\ g.by = j.by /\ g.phase = "returned"
      /\ g.undone = j.undone /\ g.place = j.place /\ g.owner = j.owner /\ g.stalls = j.stalls
      /\ g.open = j.open /\ g.ok = j.ok /\ g.lapsed = j.lapsed /\ g.loose = j.loose
  BY <1>1 DEF JobRecords, JobStates, Finished
<1>4. JobBecomes(k, g)
  BY <1>1, <1>3 DEF HandlerReturns, JobBecomes, IInv, TypeOK
<1> HIDE DEF g
<1>5. /\ job' \in [JobIds -> JobRecords] /\ job'[k] = g /\ \A i \in JobIds \ {k} : job'[i] = job[i]
  BY <1>4, JobBecomesOK
<1>6. ran' \in [JobIds -> Nat] /\ ran'[k] = ran[k] + 1 /\ \A i \in JobIds \ {k} : ran'[i] = ran[i]
  BY <1>2 DEF IInv, TypeOK
<1>7. ChainOK(k)'
  <2>1. JobShape(k)'
    BY <1>1, <1>3, <1>5 DEF JobShape, Finished
  <2>2. ListsEffects(k)'
    BY <1>1, <1>2, <1>3, <1>5 DEF ChainOK, ListsEffects, Broken
  <2>3. CountsRuns(k)'
    <3>1. ran[k] <= j.stalls
      BY <1>1 DEF ChainOK, CountsRuns, HandlerBehind, Finished
    <3> QED BY <1>1, <1>3, <1>5, <1>6, <3>1 DEF CountsRuns, HandlerBehind
  <2>4. LapseShape(k)'
    BY <1>1, <1>3, <1>5 DEF ChainOK, JobShape, LapseShape, Broken, Finished
  <2> QED BY <2>1, <2>2, <2>3, <2>4 DEF ChainOK
<1>8. TypeOK'
  BY <1>2, <1>5, <1>6 DEF IInv, TypeOK, quiet
<1>9. ran'[k] >= 1
  BY <1>1, <1>6
<1> QED BY <1>1, <1>2, <1>3, <1>5, <1>6, <1>7, <1>8, <1>9, JobStepOK DEF Finished, Leads, quiet

LEMMA WorkflowEndsIInv ==
  ASSUME IInv, NEW k \in JobIds, WorkflowEnds(k)
  PROVE  IInv'
<1> DEFINE j == job[k]
           outcome == IF j.phase = "thrown" THEN "failed" ELSE "completed"
           g == [j EXCEPT !.state = outcome, !.by = None]
<1>1. /\ j \in JobRecords /\ j.place = Top(k) /\ j.phase \in {"skipped", "returned", "thrown"}
      /\ j.state = "active" /\ ChainOK(k) /\ JobShape(k) /\ Top(k) \in Nat
      /\ j.place \in 1 .. Top(k)
      /\ outcome \in Finished
  BY Places DEF WorkflowEnds, IInv, TypeOK, ChainOK, JobShape, Finished, JobRecords, JobStates
<1>2. UNCHANGED <<effect, ran, quiet>> /\ Announce(k, outcome)
  BY DEF WorkflowEnds, callers, quiet
<1>3. /\ g \in JobRecords /\ g.state = outcome /\ g.by = None /\ g.phase = j.phase
      /\ g.undone = j.undone /\ g.place = j.place /\ g.owner = j.owner /\ g.stalls = j.stalls
      /\ g.open = j.open /\ g.ok = j.ok /\ g.lapsed = j.lapsed /\ g.loose = j.loose
  BY <1>1 DEF JobRecords, JobStates, Finished
<1>4. JobBecomes(k, g)
  BY <1>1, <1>3 DEF WorkflowEnds, JobBecomes, IInv, TypeOK
<1> HIDE DEF g
<1>5. /\ job' \in [JobIds -> JobRecords] /\ job'[k] = g /\ \A i \in JobIds \ {k} : job'[i] = job[i]
  BY <1>4, JobBecomesOK
<1>6. ChainOK(k)'
  <2>1. JobShape(k)'
    BY <1>1, <1>3, <1>5 DEF JobShape, Finished
  <2>2. ListsEffects(k)'
    BY <1>1, <1>2, <1>3, <1>5 DEF ChainOK, ListsEffects, Broken
  <2>3. CountsRuns(k)'
    <3>1. /\ ran[k] <= 1 + j.stalls /\ ran[k] \in Nat /\ j.stalls \in Nat
          /\ j.phase = "returned" => ran[k] >= 1
      BY <1>1 DEF ChainOK, CountsRuns, HandlerBehind, IInv, TypeOK, JobRecords
    <3> QED BY <1>1, <1>2, <1>3, <1>5, <3>1 DEF CountsRuns, HandlerBehind
  <2>4. LapseShape(k)'
    BY <1>1, <1>3, <1>5 DEF ChainOK, JobShape, LapseShape, Broken, Finished
  <2> QED BY <2>1, <2>2, <2>3, <2>4 DEF ChainOK
<1>7. /\ stream' \in [Procs -> SUBSET (JobIds \X Finished)]
      /\ \A p \in Procs : \A a \in stream'[p] : a \in stream[p] \/ a = <<k, outcome>>
  BY <1>1, <1>2, AnnounceOK
<1>8. TypeOK'
  BY <1>2, <1>5, <1>7 DEF IInv, TypeOK, quiet
<1>9. \A p \in Procs : \A a \in stream'[p] : a \in stream[p] \/ job'[a[1]].state = a[2]
  BY <1>3, <1>5, <1>7
<1> QED BY <1>1, <1>2, <1>3, <1>5, <1>6, <1>8, <1>9, JobStepOK DEF Finished, Leads, quiet

-----------------------------------------------------------------------------
(* The tables of a process. *)

(* Steps of executions, which leave Redis alone. *)
LEMMA RequestsStepOK ==
  ASSUME IInv, TypeOK', UNCHANGED redis, Onward,
         \A p \in Procs : stream'[p] \subseteq stream[p],
         \A r \in Requests :
           \/ /\ request'[r] = request[r]
              /\ \A p \in Procs, k \in JobIds :
                   pending[p][k] = r => pending'[p][k] = r \/ Raced(r)'
           \/ RequestShape(r)' /\ Sincere(r)' /\ Tracked(r)',
         \A p \in Procs, k \in JobIds : PendingOK(p, k)'
  PROVE  IInv'
<1> USE DEF redis
<1>1. \A k \in JobIds : ChainOK(k)'
  BY DEF IInv, ChainOK, JobShape, LapseShape, Broken, ListsEffects, CountsRuns,
         HandlerBehind
<1>2. ASSUME NEW r \in Requests, request'[r] = request[r],
             \A p \in Procs, k \in JobIds : pending[p][k] = r => pending'[p][k] = r \/ Raced(r)'
      PROVE RequestShape(r)' /\ Sincere(r)' /\ Tracked(r)'
  <2>1. RequestShape(r) /\ Sincere(r) /\ Tracked(r)
    BY DEF IInv
  <2>2. RequestShape(r)'
    BY <1>2, <2>1 DEF RequestShape
  <2>3. Sincere(r)'
    <3>1. CASE request[r].stage = "unsent"
      BY <1>2, <2>1, <3>1 DEF RequestShape, Sincere, Unsent
    <3>2. CASE request[r].stage # "unsent"
      BY <1>2, <2>1, <3>2, StaysSincere
    <3> QED BY <3>1, <3>2
  <2>4. Tracked(r)'
    <3>1. CASE request[r].stage = "unsent"
      BY <1>2, <2>1, <3>1 DEF RequestShape, Tracked, Unsent, Known
    <3>2. CASE request[r].stage # "unsent"
      <4>1. request[r].proc \in Procs /\ request[r].key \in JobIds
        BY <2>1, <3>2 DEF RequestShape
      <4>2. Raced(r) => Raced(r)'
        BY HasHeardStays
      <4>3. \A k \in JobIds : Owns(r, k)' <=> Owns(r, k)
        BY DEF Owns
      <4> QED BY <1>2, <2>1, <4>1, <4>2, <4>3 DEF Tracked
    <3> QED BY <3>1, <3>2
  <2> QED BY <2>2, <2>3, <2>4
<1>3. \A r \in Requests : RequestShape(r)' /\ Sincere(r)' /\ Tracked(r)'
  BY <1>2
<1> QED BY <1>1, <1>3, StepOK

(* An execution moves on, and its promise stays what it is. *)
LEMMA MovesOK ==
  ASSUME IInv, TypeOK', UNCHANGED <<redis, pending>>, NEW r \in Requests,
         \A p \in Procs : stream'[p] \subseteq stream[p],
         \A s \in Requests \ {r} : request'[s] = request[s],
         request[r].stage # "unsent",
         request'[r].proc = request[r].proc, request'[r].key = request[r].key,
         request'[r].promise = request[r].promise,
         \/ request'[r].stage = request[r].stage
         \/ request'[r].stage \notin {"unsent", "connecting", "looking", "joined"},
         request[r].stage \notin NotYet => request'[r].stage \notin NotYet,
         request'[r].stage \in Known => request[r].stage \in Known,
         request'[r].status # "none" => request[r].status # "none",
         request'[r].status = "failed" => request[r].status = "failed",
         "completed" \in {request'[r].status, request'[r].timer} =>
           \/ "completed" \in {request[r].status, request[r].timer}
           \/ job[request[r].key].state = "completed"
  PROVE  IInv'
<1>1. Onward
  BY DEF Onward, Keeps, Leads, redis
<1>2. RequestShape(r) /\ Tracked(r)
  BY DEF IInv
<1>3. RequestShape(r)'
  BY <1>2 DEF RequestShape
<1>4. Sincere(r)'
  BY <1>1, StaysSincere
<1>5. Tracked(r)'
  <2>1. Raced(r) => Raced(r)'
    BY <1>1, HasHeardStays
  <2>2. \A k \in JobIds : Owns(r, k)' <=> Owns(r, k)
    BY DEF Owns, redis
  <2> QED BY <1>2, <2>1, <2>2 DEF Tracked
<1>6. ASSUME NEW p \in Procs, NEW k \in JobIds PROVE PendingOK(p, k)'
  <2>1. PendingOK(p, k) /\ pending[p][k] \in Requests \union {None} /\ pending' = pending
    BY DEF IInv, TypeOK
  <2>2. CASE pending[p][k] = r
    BY <2>1, <2>2 DEF PendingOK
  <2>3. CASE pending[p][k] # r
    BY <2>1, <2>3 DEF PendingOK
  <2> QED BY <2>2, <2>3
<1> QED BY <1>1, <1>3, <1>4, <1>5, <1>6, RequestsStepOK

(* A promise is settled, and its entry goes with the settlement. *)
LEMMA SettlesOK ==
  ASSUME IInv, TypeOK', UNCHANGED redis, NEW r \in Requests, NEW p \in Procs, NEW k \in JobIds,
         \A q \in Procs : stream'[q] \subseteq stream[q],
         \A s \in Requests \ {r} : request'[s] = request[s],
         pending[p][k] = r, pending' = [pending EXCEPT ![p][k] = None],
         request'[r].proc = request[r].proc, request'[r].key = request[r].key,
         request'[r].stage = request[r].stage,
         request'[r].promise \in {"loading", "resolved", "failed", "reported", "timeout"},
         request'[r].status = "failed" =>
           request[r].status = "failed" \/ request'[r].promise \in {"failed", "reported", "timeout"},
         "completed" \in {request'[r].status, request'[r].timer} \/ request'[r].promise = "resolved"
           => \/ "completed" \in {request[r].status, request[r].timer}
              \/ job[k].state = "completed",
         request'[r].promise = "loading" => job[k].state = "failed"
  PROVE  IInv'
<1>1. /\ RequestShape(r) /\ request[r].proc = p /\ request[r].key = k
      /\ request[r].promise = "pending" /\ request[r].stage \notin NotYet
  BY WorkflowAssumption, SMTT(30) DEF IInv, PendingOK
<1>2. Onward
  BY <1>1 DEF Onward, Keeps, Leads, redis
<1>3. RequestShape(r)'
  BY <1>1 DEF RequestShape, NotYet
<1>4. Sincere(r)'
  BY <1>1, <1>2, StaysSincere DEF NotYet
<1>5. Tracked(r)'
  BY DEF Tracked
<1>6. \A q \in Procs, i \in JobIds : pending'[q][i] = IF q = p /\ i = k THEN None ELSE pending[q][i]
  BY DEF IInv, TypeOK
<1>7. ASSUME NEW q \in Procs, NEW i \in JobIds PROVE PendingOK(q, i)'
  <2>1. PendingOK(q, i)
    BY DEF IInv
  <2>2. CASE pending'[q][i] = None
    BY <2>2 DEF PendingOK
  <2>3. CASE pending'[q][i] # None
    <3>1. pending'[q][i] = pending[q][i] /\ pending[q][i] \in Requests
      BY <1>6, <2>3 DEF IInv, TypeOK
    <3>2. pending[q][i] # r
      BY <1>1, <1>6, <2>1, <2>3, <3>1 DEF PendingOK
    <3> QED BY <2>1, <3>1, <3>2 DEF PendingOK
  <2> QED BY <2>2, <2>3
<1>8. \A s \in Requests \ {r}, q \in Procs, i \in JobIds :
        pending[q][i] = s => pending'[q][i] = s
  BY <1>6
<1> QED BY <1>2, <1>3, <1>4, <1>5, <1>7, <1>8, RequestsStepOK

(* The record of one execution becomes q. *)
LEMMA RequestBecomesOK ==
  ASSUME IInv, NEW r \in Requests, NEW q \in RequestRecords, request' = [request EXCEPT ![r] = q]
  PROVE  /\ request' \in [Requests -> RequestRecords] /\ request'[r] = q
         /\ \A s \in Requests \ {r} : request'[s] = request[s]
BY DEF IInv, TypeOK

LEMMA ConnectingOK ==
  ASSUME IInv, NEW p \in Procs
  PROVE  Connecting(p) \in [Procs -> {"none", "connecting", "ready"}]
BY DEF IInv, TypeOK, Connecting

(* An execution that is not registered yet is in no table and owns no job. *)
LEMMA NotYetOK ==
  ASSUME IInv, NEW r \in Requests, request[r].stage \in NotYet
  PROVE  /\ \A k \in JobIds : ~Owns(r, k)
         /\ \A p \in Procs, k \in JobIds : pending[p][k] # r
<1>1. \A k \in JobIds : ~Owns(r, k)
  BY DEF IInv, Owns, OwnerOK
<1>2. \A p \in Procs, k \in JobIds : pending[p][k] # r
  BY WorkflowAssumption DEF IInv, PendingOK
<1> QED BY <1>1, <1>2

(* Steps before the registration, of which no table but that of the handles takes notice. *)
LEMMA BeginsOK ==
  ASSUME IInv, TypeOK', UNCHANGED <<redis, stream, pending>>, NEW r \in Requests,
         \A s \in Requests \ {r} : request'[s] = request[s],
         request[r].stage \in {"unsent", "looking"}, RequestShape(r)',
         request'[r].stage \in NotYet \ {"unsent"}, request'[r].status \in {"none", "pending"},
         request'[r].timer = request[r].timer,
         request'[r].promise \in {"none", "pending"},
         request[r].stage = "looking" =>
           request'[r].proc = request[r].proc /\ request'[r].key = request[r].key
  PROVE  IInv'
<1>1. request[r].promise = "none" /\ RequestShape(r) /\ Sincere(r)
  BY DEF IInv, RequestShape, Unsent
<1>2. Onward
  BY <1>1 DEF Onward, Keeps, NotYet, Leads, redis
<1>3. Sincere(r)'
  <2>1. CASE request[r].stage = "unsent"
    BY <1>1, <2>1 DEF RequestShape, Unsent, Sincere
  <2>2. CASE request[r].stage = "looking"
    BY <1>1, <1>2, <2>2, StaysSincere
  <2> QED BY <2>1, <2>2
<1>4. (\A k \in JobIds : ~Owns(r, k)) /\ (\A p \in Procs, k \in JobIds : pending[p][k] # r)
  BY NotYetOK DEF NotYet
<1>5. Tracked(r)'
  <2>1. \A k \in JobIds : ~Owns(r, k)'
    BY <1>4 DEF Owns, redis
  <2> QED BY <2>1 DEF Tracked, Known, NotYet
<1>6. ASSUME NEW p \in Procs, NEW k \in JobIds PROVE PendingOK(p, k)'
  <2>1. PendingOK(p, k) /\ pending[p][k] \in Requests \union {None} /\ pending[p][k] # r
    BY <1>4 DEF IInv, TypeOK
  <2> QED BY <2>1 DEF PendingOK
<1> QED BY <1>2, <1>3, <1>5, <1>6, RequestsStepOK

LEMMA ExecuteIInv ==
  ASSUME IInv, NEW r \in Requests, NEW p \in Procs, NEW k \in JobIds,
         ExecuteKeyed(r, p, k) \/ Execute(r, p, k)
  PROVE  IInv'
<1> DEFINE stage == IF handle[p][k] = None THEN "looking" ELSE "joined"
           keyed == [Unsent EXCEPT !.proc = p, !.key = k, !.stage = stage]
           flow == NewFlow([Unsent EXCEPT !.proc = p, !.key = k])
<1>1. /\ request[r].stage = "unsent" /\ UNCHANGED <<redis, life, stream, pending, handle, reader, stops>>
      /\ \/ request' = [request EXCEPT ![r] = keyed] /\ UNCHANGED listener
         \/ request' = [request EXCEPT ![r] = flow] /\ listener' = Connecting(p)
  BY DEF ExecuteKeyed, Execute, IsNext
<1>2. Unsent \in RequestRecords /\ request[r] = Unsent
  BY <1>1 DEF Unsent, RequestRecords, IInv, RequestShape
<1>3. /\ keyed \in RequestRecords /\ keyed.proc = p /\ keyed.key = k
      /\ keyed.stage \in {"looking", "joined"}
      /\ keyed.promise = "none" /\ keyed.status = "none" /\ keyed.timer = "off"
  BY DEF RequestRecords, Unsent
<1>4. /\ flow \in RequestRecords /\ flow.proc = p /\ flow.key = k /\ flow.stage = "connecting"
      /\ flow.promise = "pending" /\ flow.status = "pending" /\ flow.timer = "off"
  BY DEF RequestRecords, Unsent, NewFlow
<1>5. PICK q \in {keyed, flow} :
        /\ request' = [request EXCEPT ![r] = q]
        /\ listener' \in [Procs -> {"none", "connecting", "ready"}]
  BY <1>1, ConnectingOK DEF IInv, TypeOK
<1> HIDE DEF keyed, flow
<1>6. /\ q \in RequestRecords /\ request' \in [Requests -> RequestRecords] /\ request'[r] = q
      /\ \A s \in Requests \ {r} : request'[s] = request[s]
  BY <1>3, <1>4, <1>5, RequestBecomesOK
<1>7. TypeOK'
  BY <1>1, <1>5, <1>6 DEF IInv, TypeOK, redis
<1>8. RequestShape(r)'
  BY <1>3, <1>4, <1>6 DEF RequestShape, Known
<1>9. /\ q.stage \in NotYet \ {"unsent"} /\ q.status \in {"none", "pending"} /\ q.timer = "off"
      /\ q.promise \in {"none", "pending"} /\ Unsent.timer = "off"
  BY <1>3, <1>4 DEF NotYet, Unsent
<1> QED BY <1>1, <1>2, <1>6, <1>7, <1>8, <1>9, BeginsOK

LEMMA LooksUpIInv ==
  ASSUME IInv, NEW r \in Requests, LooksUp(r)
  PROVE  IInv'
<1> DEFINE q == request[r]
           durable == [q EXCEPT !.stage = "durable"]
           flow == NewFlow(q)
<1>1. /\ q.stage = "looking" /\ UNCHANGED <<redis, life, stream, pending, reader, stops>>
      /\ q \in RequestRecords /\ RequestShape(r) /\ q.proc \in Procs /\ q.key \in JobIds
  BY DEF LooksUp, IInv, TypeOK, RequestShape
<1>2. CASE job[q.key].state # "none"
  <2>1. request' = [request EXCEPT ![r] = durable] /\ UNCHANGED <<listener, handle>>
    BY <1>1, <1>2 DEF LooksUp, IInv, TypeOK
  <2>2. /\ durable \in RequestRecords /\ durable.proc = q.proc /\ durable.key = q.key
        /\ durable.promise = q.promise /\ durable.stage = "durable"
        /\ durable.status = q.status /\ durable.timer = q.timer
    BY <1>1 DEF RequestRecords
  <2> HIDE DEF durable
  <2>3. /\ request' \in [Requests -> RequestRecords] /\ request'[r] = durable
        /\ \A s \in Requests \ {r} : request'[s] = request[s]
    BY <2>1, <2>2, RequestBecomesOK
  <2>4. TypeOK'
    BY <1>1, <2>1, <2>3 DEF IInv, TypeOK, redis
  <2> QED BY <1>1, <2>2, <2>3, <2>4, MovesOK DEF NotYet, Known
<1>3. CASE job[q.key].state = "none"
  <2>1. /\ request' = [request EXCEPT ![r] = flow] /\ listener' = Connecting(q.proc)
        /\ handle' = [handle EXCEPT ![q.proc][q.key] = r]
    BY <1>3 DEF LooksUp
  <2>2. /\ flow \in RequestRecords /\ flow.proc = q.proc /\ flow.key = q.key
        /\ flow.promise = "pending" /\ flow.stage = "connecting"
        /\ flow.status = "pending" /\ flow.timer = q.timer
    BY <1>1 DEF RequestRecords, NewFlow
  <2> HIDE DEF flow
  <2>3. /\ request' \in [Requests -> RequestRecords] /\ request'[r] = flow
        /\ \A s \in Requests \ {r} : request'[s] = request[s]
    BY <2>1, <2>2, RequestBecomesOK
  <2>4. /\ listener' \in [Procs -> {"none", "connecting", "ready"}]
        /\ handle' \in [Procs -> [Keyed -> Requests \union {None}]]
    BY <1>1, <2>1, ConnectingOK DEF IInv, TypeOK
  <2>5. TypeOK'
    BY <1>1, <2>3, <2>4 DEF IInv, TypeOK, redis
  <2>6. RequestShape(r)'
    BY <1>1, <2>2, <2>3 DEF RequestShape, Known
  <2> QED BY <1>1, <2>2, <2>3, <2>5, <2>6, BeginsOK DEF NotYet
<1> QED BY <1>2, <1>3

LEMMA RegistersIInv ==
  ASSUME IInv, NEW r \in Requests, Registers(r)
  PROVE  IInv'
<1> DEFINE q == request[r]
           g == [q EXCEPT !.stage = "adding"]
<1>1. /\ q.stage = "connecting" /\ UNCHANGED <<redis, life, listener, stream, handle, reader, stops>>
      /\ q \in RequestRecords /\ RequestShape(r) /\ q.proc \in Procs /\ q.key \in JobIds
      /\ q.promise = "pending"
      /\ request' = [request EXCEPT ![r] = g] /\ pending' = [pending EXCEPT ![q.proc][q.key] = r]
  BY DEF Registers, IInv, TypeOK, RequestShape
<1>2. /\ g \in RequestRecords /\ g.proc = q.proc /\ g.key = q.key /\ g.promise = "pending"
      /\ g.stage = "adding" /\ g.status = q.status /\ g.timer = q.timer
  BY <1>1 DEF RequestRecords
<1> HIDE DEF g
<1>3. /\ request' \in [Requests -> RequestRecords] /\ request'[r] = g
      /\ \A s \in Requests \ {r} : request'[s] = request[s]
  BY <1>1, <1>2, RequestBecomesOK
<1>4. /\ pending' \in [Procs -> [JobIds -> Requests \union {None}]]
      /\ \A p \in Procs, k \in JobIds :
           pending'[p][k] = IF p = q.proc /\ k = q.key THEN r ELSE pending[p][k]
  BY <1>1 DEF IInv, TypeOK
<1>5. TypeOK'
  BY <1>1, <1>3, <1>4 DEF IInv, TypeOK, redis
<1>6. Onward
  BY <1>1, <1>2, <1>3 DEF Onward, Keeps, NotYet, Leads, redis
<1>7. RequestShape(r)'
  BY <1>1, <1>2, <1>3 DEF RequestShape, Known
<1>8. Sincere(r)'
  BY <1>1, <1>2, <1>3, <1>6, StaysSincere
<1>9. Tracked(r)'
  BY <1>1, <1>2, <1>3, <1>4 DEF Tracked
<1>10. ASSUME NEW s \in Requests \ {r}, NEW p \in Procs, NEW k \in JobIds, pending[p][k] = s
       PROVE  pending'[p][k] = s \/ Raced(s)'
  <2>1. CASE p = q.proc /\ k = q.key
    <3>1. /\ request[s].proc = p /\ request[s].key = k /\ request[s].promise = "pending"
      BY <1>10, WorkflowAssumption DEF IInv, PendingOK
    <3>2. /\ request'[r].proc = request'[s].proc /\ request'[r].key = request'[s].key
          /\ "none" \notin {request'[r].promise, request'[s].promise}
      BY <1>2, <1>3, <2>1, <3>1
    <3> QED BY <3>2 DEF Raced
  <2>2. CASE ~(p = q.proc /\ k = q.key)
    BY <1>4, <1>10, <2>2
  <2> QED BY <2>1, <2>2
<1>11. ASSUME NEW p \in Procs, NEW k \in JobIds PROVE PendingOK(p, k)'
  <2>1. PendingOK(p, k) /\ pending[p][k] \in Requests \union {None} /\ pending[p][k] # r
    BY <1>1, NotYetOK DEF IInv, TypeOK, NotYet
  <2>2. CASE p = q.proc /\ k = q.key
    BY <1>2, <1>3, <1>4, <2>2 DEF PendingOK, NotYet
  <2>3. CASE ~(p = q.proc /\ k = q.key)
    BY <1>3, <1>4, <2>1, <2>3 DEF PendingOK
  <2> QED BY <2>2, <2>3
<1>12. UNCHANGED redis /\ \A p \in Procs : stream'[p] \subseteq stream[p]
  BY <1>1
<1>13. \A s \in Requests :
         \/ /\ request'[s] = request[s]
            /\ \A p \in Procs, k \in JobIds :
                 pending[p][k] = s => pending'[p][k] = s \/ Raced(s)'
         \/ RequestShape(s)' /\ Sincere(s)' /\ Tracked(s)'
  BY <1>3, <1>7, <1>8, <1>9, <1>10
<1> QED BY <1>5, <1>6, <1>11, <1>12, <1>13, RequestsStepOK

(* The job is added: a key that has no job yet gets this execution for its owner. *)
LEMMA AddsIInv ==
  ASSUME IInv, NEW r \in Requests, Adds(r)
  PROVE  IInv'
<1> DEFINE q == request[r]
           k == q.key
           stage == IF k \in Keyed THEN "verifying" ELSE "returning"
           g == [q EXCEPT !.stage = stage]
           new == [NoJob EXCEPT !.state = "waiting", !.owner = r]
<1>1. /\ q.stage = "adding" /\ UNCHANGED <<effect, ran, life, listener, stream, pending, handle, reader, stops>>
      /\ q \in RequestRecords /\ RequestShape(r) /\ Tracked(r) /\ q.proc \in Procs /\ k \in JobIds
      /\ q.promise # "none"
      /\ request' = [request EXCEPT ![r] = g]
      /\ job' = [job EXCEPT ![k] = IF @.state = "none" THEN new ELSE @]
  BY DEF Adds, IInv, TypeOK, RequestShape, Known
<1>2. /\ g \in RequestRecords /\ g.proc = q.proc /\ g.key = k /\ g.promise = q.promise
      /\ g.stage \in {"verifying", "returning"} /\ g.status = q.status /\ g.timer = q.timer
  BY <1>1 DEF RequestRecords
<1>3. /\ new \in JobRecords /\ new.state = "waiting" /\ new.owner = r /\ new.by = None
      /\ new.phase = "idle" /\ new.place = 1 /\ new.stalls = 0 /\ new.undone = {}
      /\ new.loose = {}
  <2>1. /\ NoJob \in JobRecords /\ NoJob.by = None /\ NoJob.phase = "idle" /\ NoJob.undone = {}
        /\ NoJob.loose = {} /\ NoJob.place = 1 /\ NoJob.stalls = 0 /\ "waiting" \in JobStates
    BY DEF NoJob, JobRecords, JobStates
  <2> QED BY <2>1 DEF JobRecords
<1> HIDE DEF g, new
<1>4. /\ request' \in [Requests -> RequestRecords] /\ request'[r] = g
      /\ \A s \in Requests \ {r} : request'[s] = request[s]
  BY <1>1, <1>2, RequestBecomesOK
<1>5. /\ job' \in [JobIds -> JobRecords] /\ \A i \in JobIds \ {k} : job'[i] = job[i]
      /\ job'[k] = IF job[k].state = "none" THEN new ELSE job[k]
  BY <1>1, <1>3 DEF IInv, TypeOK
<1>6. TypeOK'
  BY <1>1, <1>4, <1>5 DEF IInv, TypeOK
<1>7. Onward
  <2>1. \A i \in JobIds : (job[i].state # "none" => job'[i] = job[i]) /\ ran' = ran
    BY <1>1, <1>5
  <2>2. "none" \notin Finished
    BY DEF Finished
  <2>3. \A i \in JobIds : job[i].phase = "thrown" => job[i].state # "none"
    BY DEF IInv, ChainOK, JobShape
  <2> QED BY <1>1, <1>2, <1>4, <2>1, <2>2, <2>3 DEF Onward, Keeps, Leads, NotYet
<1>8. ASSUME NEW i \in JobIds PROVE ChainOK(i)'
  <2>1. ChainOK(i)
    BY DEF IInv
  <2>2. CASE job'[i] = job[i]
    BY <1>1, <2>1, <2>2, ZenonT(40) DEF ChainOK, JobShape, LapseShape, Broken, ListsEffects,
         CountsRuns, HandlerBehind
  <2>3. CASE i = k /\ job[k].state = "none"
    <3>1. /\ job[i].stalls = 0 /\ job[i].place = 1 /\ job[i].phase = "idle" /\ job'[i] = new
          /\ job[i].state = "none"
      BY <1>5, <2>1, <2>3 DEF ChainOK, JobShape, NoJob
    <3>2. JobShape(i)'
      <4>1. 1 \in 1 .. Top(i)
        BY Places
      <4> QED BY <1>3, <3>1, <4>1 DEF JobShape, Finished
    <3>3. ListsEffects(i)'
      BY <1>1, <1>3, <2>1, <3>1 DEF ChainOK, ListsEffects, Broken
    <3>4. CountsRuns(i)'
      BY <1>1, <1>3, <2>1, <3>1 DEF ChainOK, CountsRuns, HandlerBehind, Finished
    <3>5. LapseShape(i)'
      BY <1>3, <3>1 DEF LapseShape
    <3> QED BY <3>2, <3>3, <3>4, <3>5 DEF ChainOK
  <2> QED BY <1>5, <2>2, <2>3
<1>9. ASSUME NEW s \in Requests PROVE RequestShape(s)' /\ Sincere(s)' /\ Tracked(s)'
  <2>1. RequestShape(s) /\ Sincere(s) /\ Tracked(s)
    BY DEF IInv
  <2>2. /\ request'[s].proc = request[s].proc /\ request'[s].key = request[s].key
        /\ request'[s].promise = request[s].promise /\ request'[s].status = request[s].status
        /\ request'[s].timer = request[s].timer
        /\ request'[s].stage = request[s].stage \/
             (request'[s].stage \in {"verifying", "returning"} /\ request[s].stage = "adding")
    BY <1>1, <1>2, <1>4
  <2>3. RequestShape(s)'
    <3>1. CASE request'[s] = request[s]
      BY <2>1, <3>1 DEF RequestShape
    <3>2. CASE s = r
      BY <1>1, <1>2, <1>4, <3>2 DEF RequestShape, Known
    <3> QED BY <1>4, <3>1, <3>2
  <2>4. Sincere(s)'
    <3>1. CASE request[s].stage = "unsent"
      <4>1. request'[s] = request[s] /\ request[s] = Unsent
        BY <1>1, <1>4, <2>1, <3>1 DEF RequestShape
      <4> QED BY <4>1 DEF Sincere, Unsent
    <3>2. CASE request[s].stage # "unsent"
      BY <1>7, <2>2, <3>2, StaysSincere
    <3> QED BY <3>1, <3>2
  <2>5. Tracked(s)'
    <3>1. ASSUME NEW i \in JobIds, Owns(s, i)' PROVE Owns(s, i) \/ s = r
      BY <1>3, <1>5, <3>1 DEF Owns
    <3>2. /\ request'[s].stage \in Known \/ (request'[s].status # "none" /\ \E i \in JobIds : Owns(s, i)')
            => request[s].stage \in Known \/ (request[s].status # "none" /\ \E i \in JobIds : Owns(s, i))
      BY <1>1, <2>2, <3>1 DEF Known
    <3>3. Raced(s) => Raced(s)'
      BY <1>7, HasHeardStays
    <3> QED BY <1>1, <2>1, <2>2, <3>2, <3>3 DEF Tracked
  <2> QED BY <2>3, <2>4, <2>5
<1>10. ASSUME NEW p \in Procs, NEW i \in JobIds PROVE PendingOK(p, i)'
  <2>1. PendingOK(p, i) /\ pending[p][i] \in Requests \union {None} /\ pending' = pending
    BY <1>1 DEF IInv, TypeOK
  <2>2. CASE pending[p][i] = r
    BY <1>2, <1>4, <2>1, <2>2 DEF PendingOK, NotYet
  <2>3. CASE pending[p][i] # r
    BY <1>4, <2>1, <2>3 DEF PendingOK
  <2> QED BY <2>2, <2>3
<1>11. \A i \in JobIds : job[i].state = "none" /\ job'[i].state # "none" =>
         /\ job'[i].owner \in Requests /\ request'[job'[i].owner].key = i
         /\ request'[job'[i].owner].stage \notin NotYet /\ job'[i].phase # "skipped"
  BY <1>2, <1>3, <1>4, <1>5 DEF NotYet
<1>12. \A i \in JobIds : job[i].state # "none" => job'[i] = job[i] /\ ran'[i] = ran[i]
  BY <1>1, <1>5
<1>13. stream' = stream
  BY <1>1
<1> QED BY <1>6, <1>7, <1>8, <1>9, <1>10, <1>11, <1>12, <1>13, StepOK

LEMMA VerifiesIInv ==
  ASSUME IInv, NEW r \in Requests, Verifies(r)
  PROVE  IInv'
<1> DEFINE q == request[r]
           lost == [q EXCEPT !.stage = "durable", !.status = "none"]
           won == [q EXCEPT !.stage = "returning"]
<1>1. /\ q.stage = "verifying" /\ UNCHANGED <<redis, life, listener, stream, reader, stops>>
      /\ q \in RequestRecords /\ RequestShape(r) /\ q.proc \in Procs /\ q.key \in JobIds
      /\ q.promise # "none"
  BY DEF Verifies, IInv, TypeOK, RequestShape, Known
<1>2. CASE job[q.key].owner # r
  <2>1. /\ request' = [request EXCEPT ![r] = lost]
        /\ pending' = [pending EXCEPT ![q.proc][q.key] = None]
        /\ handle' = [handle EXCEPT ![q.proc][q.key] = r]
    BY <1>1, <1>2 DEF Verifies, IInv, TypeOK
  <2>2. /\ lost \in RequestRecords /\ lost.proc = q.proc /\ lost.key = q.key
        /\ lost.promise = q.promise /\ lost.stage = "durable"
        /\ lost.status = "none" /\ lost.timer = q.timer
    BY <1>1 DEF RequestRecords
  <2> HIDE DEF lost
  <2>3. /\ request' \in [Requests -> RequestRecords] /\ request'[r] = lost
        /\ \A s \in Requests \ {r} : request'[s] = request[s]
    BY <2>1, <2>2, RequestBecomesOK
  <2>4. /\ pending' \in [Procs -> [JobIds -> Requests \union {None}]]
        /\ \A p \in Procs, k \in JobIds :
             pending'[p][k] = IF p = q.proc /\ k = q.key THEN None ELSE pending[p][k]
        /\ handle' \in [Procs -> [Keyed -> Requests \union {None}]]
    BY <1>1, <2>1 DEF IInv, TypeOK
  <2>5. TypeOK'
    BY <1>1, <2>3, <2>4 DEF IInv, TypeOK, redis
  <2>6. Onward
    BY <1>1, <2>2, <2>3 DEF Onward, Keeps, NotYet, Leads, redis
  <2>7. RequestShape(r)' /\ Tracked(r)'
    BY <1>1, <2>2, <2>3 DEF RequestShape, Tracked, Known
  <2>8. Sincere(r)'
    BY <1>1, <2>2, <2>3, <2>6, StaysSincere
  <2>9. ASSUME NEW s \in Requests \ {r}, NEW p \in Procs, NEW k \in JobIds, pending[p][k] = s
        PROVE  pending'[p][k] = s \/ Raced(s)'
    <3>1. CASE p = q.proc /\ k = q.key
      <4>1. /\ request[s].proc = p /\ request[s].key = k /\ request[s].promise = "pending"
        BY <2>9, WorkflowAssumption DEF IInv, PendingOK
      <4>2. /\ request'[r].proc = request'[s].proc /\ request'[r].key = request'[s].key
            /\ "none" \notin {request'[r].promise, request'[s].promise}
        BY <1>1, <2>2, <2>3, <3>1, <4>1
      <4> QED BY <4>2 DEF Raced
    <3>2. CASE ~(p = q.proc /\ k = q.key)
      BY <2>4, <2>9, <3>2
    <3> QED BY <3>1, <3>2
  <2>10. ASSUME NEW p \in Procs, NEW k \in JobIds PROVE PendingOK(p, k)'
    <3>1. PendingOK(p, k) /\ pending[p][k] \in Requests \union {None}
      BY DEF IInv, TypeOK
    <3>2. CASE p = q.proc /\ k = q.key
      BY <2>4, <3>2 DEF PendingOK
    <3>3. CASE ~(p = q.proc /\ k = q.key)
      <4>1. pending[p][k] # r
        BY <3>1, <3>3, WorkflowAssumption DEF PendingOK
      <4> QED BY <2>3, <2>4, <3>1, <3>3, <4>1 DEF PendingOK
    <3> QED BY <3>2, <3>3
  <2>11. UNCHANGED redis /\ \A p \in Procs : stream'[p] \subseteq stream[p]
    BY <1>1
  <2>12. \A s \in Requests :
          \/ /\ request'[s] = request[s]
             /\ \A p \in Procs, k \in JobIds :
                  pending[p][k] = s => pending'[p][k] = s \/ Raced(s)'
          \/ RequestShape(s)' /\ Sincere(s)' /\ Tracked(s)'
    BY <2>3, <2>7, <2>8, <2>9
  <2> QED BY <2>5, <2>6, <2>10, <2>11, <2>12, RequestsStepOK
<1>3. CASE job[q.key].owner = r
  <2>1. request' = [request EXCEPT ![r] = won] /\ UNCHANGED <<pending, handle>>
    BY <1>1, <1>3 DEF Verifies, IInv, TypeOK
  <2>2. /\ won \in RequestRecords /\ won.proc = q.proc /\ won.key = q.key
        /\ won.promise = q.promise /\ won.stage = "returning"
        /\ won.status = q.status /\ won.timer = q.timer
    BY <1>1 DEF RequestRecords
  <2> HIDE DEF won
  <2>3. /\ request' \in [Requests -> RequestRecords] /\ request'[r] = won
        /\ \A s \in Requests \ {r} : request'[s] = request[s]
    BY <2>1, <2>2, RequestBecomesOK
  <2>4. TypeOK'
    BY <1>1, <2>1, <2>3 DEF IInv, TypeOK, redis
  <2> QED BY <1>1, <2>1, <2>2, <2>3, <2>4, MovesOK DEF NotYet, Known
<1> QED BY <1>2, <1>3

(* execute() returns or throws; timers fire and are cleared. *)
LEMMA ReturnsIInv ==
  ASSUME IInv, NEW r \in Requests,
         Returns(r) \/ ExecuteFails(r) \/ TimeoutFires(r) \/ CleansUp(r)
  PROVE  IInv'
<1> DEFINE q == request[r]
           returned == [q EXCEPT !.stage = "returned",
                                 !.status = IF q.status = "none" THEN "none" ELSE "running",
                                 !.timer = IF r \in Timed /\ q.promise = "pending" THEN "armed"
                                           ELSE "off"]
           threw == [q EXCEPT !.stage = "threw"]
           clean == [q EXCEPT !.status = "none"]
<1>1. /\ UNCHANGED <<redis, life, listener, stream, pending, handle, reader, stops>>
      /\ q \in RequestRecords /\ RequestShape(r) /\ request \in [Requests -> RequestRecords]
      /\ q.stage # "unsent" => q.proc \in Procs /\ q.key \in JobIds
  BY DEF Returns, ExecuteFails, TimeoutFires, CleansUp, IInv, TypeOK, RequestShape
<1>4. PICK saw \in {"off", "none"} \union Finished :
        /\ saw = "completed" => job[q.key].state = "completed"
        /\ TimeoutFires(r) => request' = [request EXCEPT ![r].timer = saw]
  <2>1. CASE TimeoutFires(r)
    <3>1. PICK seen \in {"none"} \union ({job[k].state : k \in Unkeyed \cap {q.key}} \cap Finished) :
            request' = [request EXCEPT ![r].timer =
              IF q.status \in {"pending", "running"} THEN seen ELSE "off"]
      BY <2>1 DEF TimeoutFires
    <3>2. seen \in {"none"} \union Finished
          /\ (seen = "completed" => job[q.key].state = "completed")
      BY <3>1
    <3> QED BY <3>1, <3>2
  <2>2. CASE ~TimeoutFires(r)
    BY <2>2
  <2> QED BY <2>1, <2>2
<1> DEFINE fired == [q EXCEPT !.timer = saw]
<1>2. \/ request' = [request EXCEPT ![r] = returned] /\ q.stage = "returning"
      \/ request' = [request EXCEPT ![r] = threw] /\ q.stage \in {"looking", "adding", "verifying"}
      \/ request' = [request EXCEPT ![r] = fired] /\ q.timer = "armed"
      \/ request' = [request EXCEPT ![r] = clean] /\ q.promise \in {"resolved", "failed"}
  BY <1>1, <1>4 DEF Returns, ExecuteFails, TimeoutFires, CleansUp
<1>3. q.stage # "unsent"
  BY <1>1, <1>2 DEF RequestShape, Unsent
<1>5. /\ returned \in RequestRecords /\ returned.proc = q.proc /\ returned.key = q.key
      /\ returned.promise = q.promise /\ returned.stage = "returned"
      /\ returned.status \in {"none", "running"} /\ (q.status = "none" => returned.status = "none")
      /\ returned.timer \in {"armed", "off"}
  <2>1. PICK s \in {"none", "running"}, t \in {"armed", "off"} :
          /\ s = (IF q.status = "none" THEN "none" ELSE "running")
          /\ t = (IF r \in Timed /\ q.promise = "pending" THEN "armed" ELSE "off")
    OBVIOUS
  <2>2. PICK x : x = returned /\ x = [q EXCEPT !.stage = "returned", !.status = s, !.timer = t]
    BY <2>1
  <2>3. /\ x \in RequestRecords /\ x.proc = q.proc /\ x.key = q.key /\ x.promise = q.promise
        /\ x.stage = "returned" /\ x.status = s /\ x.timer = t
    BY <1>1, <2>2 DEF RequestRecords
  <2> HIDE DEF returned
  <2> QED BY <2>1, <2>2, <2>3
<1>6. /\ threw \in RequestRecords /\ threw.proc = q.proc /\ threw.key = q.key
      /\ threw.promise = q.promise /\ threw.stage = "threw"
      /\ threw.status = q.status /\ threw.timer = q.timer
  BY <1>1 DEF RequestRecords
<1>7. /\ fired \in RequestRecords /\ fired.proc = q.proc /\ fired.key = q.key
      /\ fired.promise = q.promise /\ fired.stage = q.stage
      /\ fired.status = q.status /\ fired.timer = saw
  BY <1>1, <1>4 DEF RequestRecords
<1>8. /\ clean \in RequestRecords /\ clean.proc = q.proc /\ clean.key = q.key
      /\ clean.promise = q.promise /\ clean.stage = q.stage
      /\ clean.status = "none" /\ clean.timer = q.timer
  BY <1>1 DEF RequestRecords
<1>9. PICK g \in {returned, threw, fired, clean} :
        /\ request' = [request EXCEPT ![r] = g]
        /\ g.stage = q.stage \/ g.stage \in {"returned", "threw"}
        /\ g.stage = "returned" => q.stage \in {"returned", "returning"}
  BY <1>2, <1>5, <1>6, <1>7, <1>8
<1> HIDE DEF returned, threw, fired, clean
<1>10. /\ g \in RequestRecords /\ g.proc = q.proc /\ g.key = q.key /\ g.promise = q.promise
       /\ g.status \in {"none", "running", q.status} /\ (q.status = "none" => g.status = "none")
       /\ "completed" \in {g.status, g.timer} =>
            "completed" \in {q.status, q.timer} \/ job[q.key].state = "completed"
  <2>1. CASE g = returned
    BY <1>5, <2>1
  <2>2. CASE g = threw
    BY <1>6, <2>2
  <2>3. CASE g = fired
    BY <1>4, <1>7, <2>3
  <2>4. CASE g = clean
    BY <1>8, <2>4
  <2> QED BY <1>9, <2>1, <2>2, <2>3, <2>4
<1>11. /\ request' \in [Requests -> RequestRecords] /\ request'[r] = g
       /\ \A s \in Requests \ {r} : request'[s] = request[s]
  BY <1>9, <1>10, RequestBecomesOK
<1>12. TypeOK'
  BY <1>1, <1>11 DEF IInv, TypeOK, redis
<1>13. /\ q.stage \notin NotYet => g.stage \notin NotYet
       /\ g.stage \in Known => q.stage \in Known
       /\ g.stage = q.stage \/ g.stage \notin {"unsent", "connecting", "looking", "joined"}
  BY <1>9 DEF NotYet, Known
<1> QED BY <1>1, <1>3, <1>10, <1>11, <1>12, <1>13, MovesOK

IsSettled(g, q, promise, status) ==
  /\ g \in RequestRecords /\ g.proc = q.proc /\ g.key = q.key /\ g.promise = promise
  /\ g.stage = q.stage /\ g.status = (IF q.status = "none" THEN "none" ELSE status)
  /\ g.timer \in {"off", q.timer}

LEMMA SettledOK ==
  ASSUME NEW q \in RequestRecords, NEW status \in Finished,
         NEW promise \in {"none", "pending", "loading", "resolved", "failed", "reported", "timeout"}
  PROVE  IsSettled(Settled(q, promise, status), q, promise, status)
<1>1. PICK s \in {"none", "pending", "running"} \union Finished,
           t \in {"off", "armed", "none"} \union Finished :
        /\ s = (IF q.status = "none" THEN "none" ELSE status)
        /\ t = (IF q.timer = "armed" THEN "off" ELSE q.timer)
  BY DEF RequestRecords
<1>2. Settled(q, promise, status) = [q EXCEPT !.promise = promise, !.status = s, !.timer = t]
  BY <1>1 DEF Settled
<1>3. PICK g : g = Settled(q, promise, status)
  OBVIOUS
<1>4. /\ g \in RequestRecords /\ g.proc = q.proc /\ g.key = q.key /\ g.promise = promise
      /\ g.stage = q.stage /\ g.status = s /\ g.timer = t
  BY <1>2, <1>3 DEF RequestRecords
<1> QED BY <1>1, <1>3, <1>4 DEF IsSettled

(* What checkRedisAndTimeout() has seen is acted upon. *)
LEMMA TimeoutActsIInv ==
  ASSUME IInv, NEW r \in Requests, TimeoutActs(r)
  PROVE  IInv'
<1> DEFINE q == request[r]
           promise == IF q.timer = "completed" THEN "resolved" ELSE "timeout"
           status == IF q.timer = "completed" THEN "completed" ELSE "failed"
           told == [Settled(q, promise, status) EXCEPT !.timer = "off"]
           quit == [q EXCEPT !.timer = "off"]
<1>1. /\ UNCHANGED <<redis, life, listener, stream, handle, reader, stops>>
      /\ q \in RequestRecords /\ RequestShape(r) /\ q.timer \notin {"off", "armed"}
      /\ request \in [Requests -> RequestRecords]
  BY DEF TimeoutActs, IInv, TypeOK
<1>2. q.stage # "unsent" /\ q.proc \in Procs /\ q.key \in JobIds
  BY <1>1 DEF RequestShape, Unsent
<1>3. PICK p \in Procs, k \in JobIds : p = q.proc /\ k = q.key
  BY <1>2
<1>4. CASE /\ pending[p][k] = r /\ pending' = [pending EXCEPT ![p][k] = None]
           /\ request' = [request EXCEPT ![r] = told]
  <2>1. /\ told \in RequestRecords /\ told.proc = q.proc /\ told.key = q.key
        /\ told.promise = promise /\ told.stage = q.stage
        /\ told.status = (IF q.status = "none" THEN "none" ELSE status) /\ told.timer = "off"
    <3>1. PICK s \in Finished, u \in {"none", "pending", "loading", "resolved", "failed", "reported", "timeout"},
               v \in RequestRecords : s = status /\ u = promise /\ v = q
      BY <1>1 DEF Finished
    <3> DEFINE g == Settled(v, u, s)
               h == [g EXCEPT !.timer = "off"]
    <3>5. IsSettled(g, v, u, s)
      BY SettledOK
    <3>2. /\ g \in RequestRecords /\ g.proc = v.proc /\ g.key = v.key /\ g.promise = u
          /\ g.stage = v.stage /\ g.status = (IF v.status = "none" THEN "none" ELSE s)
      BY <3>5 DEF IsSettled
    <3>3. told = h
      BY <3>1
    <3> HIDE DEF told, promise, status, g
    <3>4. /\ h \in RequestRecords /\ h.proc = g.proc /\ h.key = g.key
          /\ h.promise = g.promise /\ h.stage = g.stage /\ h.status = g.status
          /\ h.timer = "off"
      BY <3>2 DEF RequestRecords
    <3> QED BY <3>1, <3>2, <3>3, <3>4
  <2> HIDE DEF told
  <2>2. /\ request' \in [Requests -> RequestRecords] /\ request'[r] = told
        /\ \A s \in Requests \ {r} : request'[s] = request[s]
    BY <1>4, <2>1, RequestBecomesOK
  <2>3. pending' \in [Procs -> [JobIds -> Requests \union {None}]]
    BY <1>4 DEF IInv, TypeOK
  <2>4. TypeOK'
    BY <1>1, <2>2, <2>3 DEF IInv, TypeOK, redis
  <2>5. /\ request'[r].promise \in {"resolved", "timeout"}
        /\ request'[r].status = "failed" => request'[r].promise \in {"failed", "reported", "timeout"}
        /\ "completed" \in {request'[r].status, request'[r].timer}
             \/ request'[r].promise = "resolved"
             => "completed" \in {request[r].status, request[r].timer}
    BY <2>1, <2>2
  <2>6. (\A o \in Procs : stream'[o] \subseteq stream[o]) /\ UNCHANGED redis
    BY <1>1
  <2>7. /\ request'[r].proc = request[r].proc /\ request'[r].key = request[r].key
        /\ request'[r].stage = request[r].stage
    BY <2>1, <2>2
  <2>8. \A s \in Requests \ {r} : request'[s] = request[s]
    BY <2>2
  <2>9. /\ pending[p][k] = r /\ pending' = [pending EXCEPT ![p][k] = None]
    BY <1>4
  <2> QED BY <2>4, <2>5, <2>6, <2>7, <2>8, <2>9, SettlesOK
<1>5. CASE request' = [request EXCEPT ![r] = quit] /\ UNCHANGED pending
  <2>1. /\ quit \in RequestRecords /\ quit.proc = q.proc /\ quit.key = q.key
        /\ quit.promise = q.promise /\ quit.stage = q.stage
        /\ quit.status = q.status /\ quit.timer = "off"
    BY <1>1 DEF RequestRecords
  <2> HIDE DEF quit
  <2>2. /\ request' \in [Requests -> RequestRecords] /\ request'[r] = quit
        /\ \A s \in Requests \ {r} : request'[s] = request[s]
    BY <1>5, <2>1, RequestBecomesOK
  <2>3. TypeOK'
    BY <1>1, <1>5, <2>2 DEF IInv, TypeOK, redis
  <2> QED BY <1>1, <1>2, <1>5, <2>1, <2>2, <2>3, MovesOK DEF NotYet, Known
<1> QED BY <1>1, <1>3, <1>4, <1>5 DEF TimeoutActs

(* Nothing but what is on its way changes for executions. *)
LEMMA QuietOK ==
  ASSUME IInv, TypeOK', UNCHANGED <<redis, request, pending>>,
         \A p \in Procs : stream'[p] \subseteq stream[p]
  PROVE  IInv'
<1>1. Onward
  BY DEF Onward, Keeps, Leads, redis
<1>2. ASSUME NEW p \in Procs, NEW k \in JobIds PROVE PendingOK(p, k)'
  BY DEF IInv, PendingOK
<1>3. \A r \in Requests : request'[r] = request[r] /\ \A p \in Procs, k \in JobIds :
        pending[p][k] = r => pending'[p][k] = r
  OBVIOUS
<1>4. UNCHANGED redis
  OBVIOUS
<1> QED BY <1>1, <1>2, <1>3, <1>4, RequestsStepOK

Answers == {"not found", "failed", "value", "empty", "threw"}

LEMMA TellOK ==
  ASSUME IInv
  PROVE  /\ \A what \in Answers : Tell(what) \in ReaderRecords
         /\ \A outcome \in Finished, ended \in BOOLEAN : Told(outcome, ended) \in Answers
BY DEF IInv, TypeOK, Tell, Told, ReaderRecords, Answers

LEMMA QuietIInv ==
  ASSUME IInv,
         \/ ReaderStep
         \/ \E p \in Procs : Connect(p) \/ Start(p) \/ \E k \in JobIds : Reads(p, k)
  PROVE  IInv'
<1>1. /\ UNCHANGED <<redis, request, pending, handle, stream, stops>>
      /\ listener' = listener \/ (\E p \in Procs : listener' = Connecting(p))
           \/ (\E p \in Procs : listener' = [listener EXCEPT ![p] = "ready"])
           \/ (reader.stage = "fetched" /\ listener' = Connecting(reader.proc))
      /\ life' = life \/ \E p \in Procs : life' = [life EXCEPT ![p] = "running"]
  BY DEF ReaderStep, ReadsState, Listens, ChecksState, Connect, Start, Reads, callers
<1>2. listener' \in [Procs -> {"none", "connecting", "ready"}]
  BY <1>1 DEF IInv, TypeOK, Connecting
<1>3. life' \in [Procs -> {"running", "stopping", "stopped", "crashed"}]
  BY <1>1 DEF IInv, TypeOK
<1>4. reader' \in ReaderRecords
  <2>1. reader \in ReaderRecords /\ Unread \in ReaderRecords
    BY DEF IInv, TypeOK, Unread, ReaderRecords
  <2>2. /\ \A what \in Answers : Tell(what) \in ReaderRecords
        /\ \A outcome \in Finished, ended \in BOOLEAN : Told(outcome, ended) \in Answers
        /\ {"not found", "threw"} \subseteq Answers
    BY TellOK DEF Answers
  <2>3. reader.ended \in BOOLEAN
    BY <2>1 DEF ReaderRecords
  <2>8. \A stage \in {"connecting", "checking", "waiting"} :
          [reader EXCEPT !.stage = stage] \in ReaderRecords
    BY <2>1 DEF ReaderRecords
  <2>4. CASE ReadsState
    BY <2>1, <2>2, <2>3, <2>4, <2>8 DEF ReadsState
  <2>5. CASE Listens \/ ChecksState
    BY <2>1, <2>2, <2>3, <2>5, <2>8 DEF Listens, ChecksState
  <2>6. ASSUME NEW p \in Procs, NEW k \in JobIds, Reads(p, k) PROVE reader' \in ReaderRecords
    <3>1. [Unread EXCEPT !.stage = "fetched", !.proc = p, !.key = k,
                         !.ended = job[k].state \in Finished] \in ReaderRecords
      <4>1. PICK ended \in BOOLEAN : ended = (job[k].state \in Finished)
        <5>1. CASE job[k].state \in Finished
          BY <5>1
        <5>2. CASE job[k].state \notin Finished
          <6>1. FALSE = (job[k].state \in Finished)
            BY <5>2
          <6> QED BY <6>1
        <5> QED BY <5>1, <5>2
      <4>2. [Unread EXCEPT !.stage = "fetched", !.proc = p, !.key = k, !.ended = ended]
              \in ReaderRecords
        BY <2>1 DEF ReaderRecords
      <4> QED BY <4>1, <4>2
    <3> QED BY <2>2, <2>6, <3>1 DEF Reads
  <2>7. ASSUME NEW p \in Procs, Connect(p) \/ Start(p) PROVE reader' \in ReaderRecords
    BY <2>1, <2>7 DEF Connect, Start
  <2> QED BY <2>4, <2>5, <2>6, <2>7 DEF ReaderStep
<1>5. TypeOK'
  BY <1>1, <1>2, <1>3, <1>4 DEF IInv, TypeOK, redis
<1> QED BY <1>1, <1>5, QuietOK

(* The end of a flow is heard by who waits for it here. *)
LEMMA HearIInv ==
  ASSUME IInv, NEW p \in Procs, NEW k \in JobIds, NEW outcome \in Finished, Hear(p, k, outcome)
  PROVE  IInv'
<1>1. /\ <<k, outcome>> \in stream[p] /\ stream' = [stream EXCEPT ![p] = @ \ {<<k, outcome>>}]
      /\ UNCHANGED <<redis, life, listener, handle, stops>>
      /\ pending[p][k] = None => UNCHANGED <<request, pending>>
  BY DEF Hear
<1>2. /\ stream' \in [Procs -> SUBSET (JobIds \X Finished)]
      /\ \A q \in Procs : stream'[q] \subseteq stream[q]
  BY <1>1 DEF IInv, TypeOK
<1>3. reader' \in ReaderRecords
  <2>1. Told(outcome, TRUE) \in Answers
    BY TellOK
  <2>2. Tell(Told(outcome, TRUE)) \in ReaderRecords
    BY <2>1, TellOK
  <2> QED BY <2>2 DEF Hear, IInv, TypeOK
<1>4. job[k].state = outcome
  BY <1>1 DEF IInv, StreamTrue
<1>5. CASE pending[p][k] = None
  <2>1. TypeOK'
    BY <1>1, <1>2, <1>3, <1>5 DEF IInv, TypeOK, redis
  <2> QED BY <1>1, <1>2, <1>5, <2>1, QuietOK
<1>6. CASE pending[p][k] # None
  <2>1. PICK r \in Requests : r = pending[p][k]
    BY <1>6 DEF IInv, TypeOK
  <2>2. /\ request[r].proc = p /\ request[r].key = k /\ request[r] \in RequestRecords
    BY <1>6, <2>1 DEF IInv, TypeOK, PendingOK
  <2>3. PICK q \in RequestRecords : q = request[r]
    BY <2>2
  <2>4. PICK g : g = Notified(q, outcome) /\ request' = [request EXCEPT ![r] = g]
                 /\ pending' = [pending EXCEPT ![p][k] = None]
    BY <1>6, <2>1, <2>3 DEF Hear
  <2>5. /\ g \in RequestRecords /\ g.proc = q.proc /\ g.key = q.key /\ g.stage = q.stage
        /\ g.promise = (IF outcome = "completed" THEN "resolved" ELSE "loading")
        /\ g.status \in {q.status, "completed"} /\ (g.status = q.status \/ outcome = "completed")
        /\ g.timer \in {"off", q.timer}
    <3>1. CASE outcome = "completed"
      <4>1. PICK u \in {"none", "pending", "loading", "resolved", "failed", "reported", "timeout"},
                 s \in Finished : u = "resolved" /\ s = "completed"
        BY DEF Finished
      <4> DEFINE told == Settled(q, u, s)
      <4>2. g = told
        BY <2>4, <3>1, <4>1 DEF Notified
      <4>3. IsSettled(told, q, u, s)
        BY SettledOK
      <4> HIDE DEF told
      <4> QED BY <3>1, <4>1, <4>2, <4>3 DEF IsSettled
    <3>2. CASE outcome # "completed"
      <4>1. g = [q EXCEPT !.promise = "loading"]
        BY <2>4, <3>2 DEF Notified
      <4>2. /\ g \in RequestRecords /\ g.proc = q.proc /\ g.key = q.key /\ g.stage = q.stage
            /\ g.promise = "loading" /\ g.status = q.status /\ g.timer = q.timer
        BY <4>1 DEF RequestRecords
      <4> QED BY <3>2, <4>2
    <3> QED BY <3>1, <3>2
  <2>6. /\ request' \in [Requests -> RequestRecords] /\ request'[r] = g
        /\ \A s \in Requests \ {r} : request'[s] = request[s]
    BY <2>4, <2>5, RequestBecomesOK
  <2>7. pending' \in [Procs -> [JobIds -> Requests \union {None}]]
    BY <2>4 DEF IInv, TypeOK
  <2>8. TypeOK'
    BY <1>1, <1>2, <1>3, <2>6, <2>7 DEF IInv, TypeOK, redis
  <2>9. /\ request'[r].promise \in {"loading", "resolved"}
        /\ request'[r].status \in {request[r].status, "completed"}
        /\ "completed" \in {request'[r].status, request'[r].timer}
             \/ request'[r].promise = "resolved"
             => \/ "completed" \in {request[r].status, request[r].timer}
                \/ job[k].state = "completed"
        /\ request'[r].promise = "loading" => job[k].state = "failed"
    BY <1>4, <2>3, <2>5, <2>6 DEF Finished
  <2>10. /\ request'[r].proc = request[r].proc /\ request'[r].key = request[r].key
         /\ request'[r].stage = request[r].stage
    BY <2>3, <2>5, <2>6
  <2>11. UNCHANGED redis /\ pending[p][k] = r
    BY <1>1, <2>1
  <2> QED BY <1>2, <2>4, <2>6, <2>8, <2>9, <2>10, <2>11, SettlesOK, ZenonT(40)
<1> QED BY <1>5, <1>6

(* A caller that waited for its failure to be loaded is told. *)
LEMMA RejectsIInv ==
  ASSUME IInv, NEW r \in Requests, Rejects(r)
  PROVE  IInv'
<1>1. /\ UNCHANGED <<redis, life, listener, stream, pending, handle, reader, stops>>
      /\ request[r].promise = "loading"
  BY DEF Rejects
<1>2. PICK q \in RequestRecords : q = request[r] /\ q.promise = "loading"
  BY <1>1 DEF IInv, TypeOK
<1>3. RequestShape(r) /\ q.stage # "unsent"
  BY <1>2 DEF IInv, RequestShape, Unsent
<1>4. PICK g : g = Settled(q, "failed", "failed") /\ request' = [request EXCEPT ![r] = g]
  BY <1>2 DEF Rejects
<1>5. /\ g \in RequestRecords /\ g.proc = q.proc /\ g.key = q.key /\ g.promise = "failed"
      /\ g.stage = q.stage /\ g.status \in {"none", "failed"} /\ g.timer \in {"off", q.timer}
      /\ g.status # "none" => q.status # "none"
  <2>1. PICK u \in {"none", "pending", "loading", "resolved", "failed", "reported", "timeout"},
             s \in Finished : u = "failed" /\ s = "failed"
    BY DEF Finished
  <2>3. g = Settled(q, u, s)
    BY <1>4, <2>1
  <2>2. IsSettled(g, q, u, s)
    BY <2>3, SettledOK
  <2> QED BY <2>1, <2>2 DEF IsSettled
<1>6. /\ request' \in [Requests -> RequestRecords] /\ request'[r] = g
      /\ \A s \in Requests \ {r} : request'[s] = request[s]
  BY <1>4, <1>5, RequestBecomesOK
<1>7. TypeOK'
  BY <1>1, <1>6 DEF IInv, TypeOK, redis
<1>8. Onward
  BY <1>1, <1>2, <1>5, <1>6 DEF Onward, Keeps, Leads, redis
<1>9. RequestShape(r)'
  BY <1>2, <1>3, <1>5, <1>6 DEF RequestShape
<1>10. Sincere(r)'
  BY <1>2, <1>3, <1>5, <1>6, <1>8, StaysSincere
<1>11. Tracked(r)'
  BY <1>5, <1>6 DEF Tracked
<1>12. ASSUME NEW p \in Procs, NEW k \in JobIds PROVE PendingOK(p, k)'
  <2>1. PendingOK(p, k) /\ pending[p][k] \in Requests \union {None} /\ pending' = pending
    BY <1>1 DEF IInv, TypeOK
  <2>2. CASE pending[p][k] = r
    BY <1>2, <2>1, <2>2, WorkflowAssumption DEF PendingOK
  <2>3. CASE pending[p][k] # r
    BY <1>6, <2>1, <2>3 DEF PendingOK
  <2> QED BY <2>2, <2>3
<1> QED BY <1>1, <1>6, <1>7, <1>8, <1>9, <1>10, <1>11, <1>12, RequestsStepOK

-----------------------------------------------------------------------------
(* Workers that tell the caller. *)

(* The job of a flow fails, and its execution is told, or its status says so. *)
LEMMA OwnerStepOK ==
  ASSUME IInv, TypeOK', UNCHANGED stream, NEW k \in JobIds, NEW r \in Requests,
         job[k].owner = r,
         \A i \in JobIds \ {k} :
           job'[i] = job[i] /\ effect'[i] = effect[i] /\ ran'[i] = ran[i],
         ChainOK(k)', job[k].state = "active", job'[k].state = "active",
         job[k].phase # "thrown", job'[k].place = job[k].place, job'[k].by = job[k].by,
         job'[k].owner = r, job'[k].phase = "thrown", ran[k] >= 1 => ran'[k] >= 1,
         \A s \in Requests \ {r} : request'[s] = request[s],
         request'[r].proc = request[r].proc, request'[r].key = request[r].key,
         request'[r].stage = request[r].stage, request'[r].timer \in {request[r].timer, "off"},
         \/ request'[r].promise = request[r].promise
         \/ request[r].promise = "pending" /\ request'[r].promise = "reported",
         \/ request'[r].status = request[r].status
         \/ request[r].status # "none" /\ request'[r].status = "failed",
         request'[r].status = "failed" =>
           \/ request[r].status = "failed" \/ request'[r].promise \in {"failed", "reported", "timeout"}
           \/ Raced(r) \/ (job[k].place = Top(k) /\ job[k].by = request[r].proc),
         \A q \in Procs, i \in JobIds :
           \/ pending'[q][i] = pending[q][i]
           \/ pending[q][i] = r /\ pending'[q][i] = None,
         request'[r].promise = "pending" =>
           \A q \in Procs, i \in JobIds : pending[q][i] = r => pending'[q][i] = r,
         request'[r].promise # "pending" =>
           \A q \in Procs, i \in JobIds : pending'[q][i] # r
  PROVE  IInv'
<1>1. Onward
  BY DEF Onward, Keeps, Leads, Finished, NotYet
<1>2. \A i \in JobIds : ChainOK(i)'
  BY DEF IInv, ChainOK, JobShape, LapseShape, Broken, ListsEffects, CountsRuns,
         HandlerBehind
<1>3. /\ request[r].key = k /\ RequestShape(r) /\ Sincere(r) /\ Tracked(r)
      /\ request[r].stage \notin NotYet /\ Owns(r, k)'
  BY DEF IInv, OwnerOK, Owns
<1>4. ASSUME NEW s \in Requests PROVE RequestShape(s)' /\ Sincere(s)' /\ Tracked(s)'
  <2>1. RequestShape(s) /\ Sincere(s) /\ Tracked(s)
    BY DEF IInv
  <2>2. RequestShape(s)'
    <3>1. CASE s = r
      BY <1>3, <3>1 DEF RequestShape, NotYet
    <3>2. CASE s # r
      BY <2>1, <3>2 DEF RequestShape
    <3> QED BY <3>1, <3>2
  <2>3. Sincere(s)'
    <3>1. CASE request[s].stage = "unsent"
      <4>1. request'[s] = request[s] /\ request[s] = Unsent
        BY <1>3, <2>1, <3>1 DEF RequestShape, NotYet
      <4> QED BY <4>1 DEF Sincere, Unsent
    <3>2. CASE request[s].stage # "unsent" /\ s # r
      BY <1>1, <3>2, StaysSincere
    <3>3. CASE s = r
      <4>1. HasHeard(r) => HasHeard(r)'
        BY <1>1, HasHeardStays
      <4>2. Raced(r) => Raced(r)'
        BY <1>1, HasHeardStays
      <4>3. "completed" \in {request'[r].status, request'[r].timer}
              \/ request'[r].promise = "resolved" => job'[request'[r].key].state = "completed"
        BY <1>3 DEF Sincere
      <4>6. request'[r].promise # "loading"
        BY <1>3 DEF Sincere
      <4>4. request'[r].status = "failed" => HasHeard(r)' \/ Trace(r, k)'
              \/ \E i \in JobIds : Trace(r, i)
        BY <1>3, <4>1, <4>2 DEF Sincere, HasHeard, Trace
      <4>5. \A i \in JobIds : Trace(r, i) /\ request'[r].status = "failed" => Trace(r, i)'
        BY <1>1, <1>3, TraceStays DEF NotYet
      <4> QED BY <1>3, <3>3, <4>3, <4>4, <4>5, <4>6 DEF Sincere
    <3> QED BY <3>1, <3>2, <3>3
  <2>4. Tracked(s)'
    <3>1. Raced(s) => Raced(s)'
      BY <1>1, HasHeardStays
    <3>2. \A i \in JobIds : Owns(s, i)' <=> Owns(s, i)
      BY DEF Owns
    <3>3. CASE s = r
      <4>1. request[r].proc \in Procs /\ request[r].key \in JobIds
        BY <1>3 DEF RequestShape, NotYet
      <4> QED BY <1>3, <3>1, <3>2, <3>3, <4>1 DEF Tracked
    <3>4. CASE s # r /\ request[s].stage = "unsent"
      BY <2>1, <3>4 DEF RequestShape, Tracked, Unsent, Known
    <3>5. CASE s # r /\ request[s].stage # "unsent"
      <4>1. request[s].proc \in Procs /\ request[s].key \in JobIds
        BY <2>1, <3>5 DEF RequestShape
      <4> QED BY <2>1, <3>1, <3>2, <3>5, <4>1 DEF Tracked
    <3> QED BY <3>3, <3>4, <3>5
  <2> QED BY <2>2, <2>3, <2>4
<1>5. ASSUME NEW q \in Procs, NEW i \in JobIds PROVE PendingOK(q, i)'
  <2>1. PendingOK(q, i) /\ pending[q][i] \in Requests \union {None}
    BY DEF IInv, TypeOK
  <2>2. CASE pending'[q][i] = None
    BY <2>2 DEF PendingOK
  <2>3. CASE pending'[q][i] # None /\ pending[q][i] = r
    BY <1>3, <2>1, <2>3 DEF PendingOK
  <2>4. CASE pending'[q][i] # None /\ pending[q][i] # r
    BY <2>1, <2>4 DEF PendingOK
  <2> QED BY <2>2, <2>3, <2>4
<1> QED BY <1>1, <1>2, <1>4, <1>5, StepOK

(* The rollbacks are through, and the error is reported. *)
LEMMA StepReportsIInv ==
  ASSUME IInv, NEW k \in JobIds, StepReports(k)
  PROVE  IInv'
<1> DEFINE j == job[k]
           g == [j EXCEPT !.phase = "thrown"]
<1>1. /\ j \in JobRecords /\ j.place \in 1 .. Top(k) /\ j.phase = "steps" /\ j.open = {}
      /\ ChainOK(k) /\ JobShape(k) /\ j.state = "active" /\ j.place < Top(k) /\ ToUndo(k) = {}
      /\ ~Broken(k)
  <2>1. /\ j \in JobRecords /\ ChainOK(k) /\ JobShape(k) /\ LapseShape(k)
        /\ j.phase = "steps" /\ j.open = {} /\ ToUndo(k) = {}
    BY DEF StepReports, GroupFailed, GroupEnded, IInv, TypeOK, ChainOK
  <2>2. ~Broken(k)
    BY <2>1 DEF LapseShape, Broken
  <2> QED BY <2>1, <2>2 DEF JobShape, JobRecords, JobStates, Finished
<1>2. UNCHANGED <<effect, ran, life, listener, stream, handle, reader, stops>>
  BY DEF StepReports
<1>3. /\ g \in JobRecords /\ g.state = j.state /\ g.by = j.by /\ g.phase = "thrown"
      /\ g.open = j.open /\ g.ok = j.ok /\ g.undone = j.undone /\ g.place = j.place
      /\ g.owner = j.owner /\ g.stalls = j.stalls
      /\ g.lapsed = j.lapsed /\ g.loose = j.loose
  BY <1>1 DEF JobRecords
<1>4. JobBecomes(k, g)
  BY <1>1, <1>3 DEF StepReports, JobBecomes, IInv, TypeOK
<1> HIDE DEF g
<1>5. /\ job' \in [JobIds -> JobRecords] /\ job'[k] = g /\ \A i \in JobIds \ {k} : job'[i] = job[i]
  BY <1>4, JobBecomesOK
<1>6. ChainOK(k)'
  <2>1. JobShape(k)'
    BY <1>1, <1>3, <1>5 DEF JobShape, Finished
  <2>2. ListsEffects(k)'
    <3>1. ASSUME NEW s \in Undoable, j.stalls = 0, effect[k][s] = "applied" PROVE FALSE
      <4>1. s \in ToUndo(k)
        BY <1>1, <3>1 DEF ChainOK, ListsEffects, ToUndo
      <4> QED BY <1>1, <4>1
    <3> QED BY <1>2, <1>3, <1>5, <3>1 DEF ListsEffects
  <2>3. CountsRuns(k)'
    BY <1>1, <1>2, <1>3, <1>5 DEF ChainOK, CountsRuns, HandlerBehind
  <2>4. LapseShape(k)'
    BY <1>1, <1>3, <1>5 DEF ChainOK, JobShape, LapseShape, Broken, Finished
  <2> QED BY <2>1, <2>2, <2>3, <2>4 DEF ChainOK
<1>7. PICK r \in Requests : r = j.owner /\ request[r].key = k /\ request[r].stage \notin NotYet
  BY <1>1 DEF IInv, OwnerOK
<1>8. CASE UNCHANGED <<request, pending>>
  <2>1. TypeOK'
    BY <1>2, <1>5, <1>8 DEF IInv, TypeOK
  <2> QED BY <1>1, <1>2, <1>3, <1>5, <1>6, <1>8, <2>1, JobStepOK DEF Finished, Leads
<1>9. CASE /\ pending' = [p \in Procs |-> [i \in JobIds |->
                           IF pending[p][i] = r THEN None ELSE pending[p][i]]]
           /\ request' = [request EXCEPT ![r] =
                           Rejected(request[r], pending[request[r].proc][k] = r)]
  <2>1. PICK q \in RequestRecords : q = request[r]
    BY DEF IInv, TypeOK
  <2>2. /\ RequestShape(r) /\ Sincere(r) /\ Tracked(r) /\ q.proc \in Procs /\ q.key = k
        /\ Owns(r, k)
    BY <1>1, <1>7, <2>1 DEF IInv, RequestShape, NotYet, Owns
  <2>3. PICK waits \in BOOLEAN :
          /\ waits = (pending[q.proc][k] = r)
          /\ pending[q.proc][k] = r => waits
          /\ waits => pending[q.proc][k] = r
    <3>1. CASE pending[q.proc][k] = r
      BY <3>1
    <3>2. CASE pending[q.proc][k] # r
      <4>1. FALSE = (pending[q.proc][k] = r)
        BY <3>2
      <4> QED BY <3>2, <4>1
    <3> QED BY <3>1, <3>2
  <2>4. PICK h : h = Rejected(q, waits) /\ request' = [request EXCEPT ![r] = h]
    BY <1>9, <2>1, <2>3
  <2>5. /\ h \in RequestRecords /\ h.proc = q.proc /\ h.key = q.key /\ h.stage = q.stage
        /\ h.promise = (IF waits THEN "reported" ELSE q.promise)
        /\ h.status = (IF q.status = "none" THEN "none" ELSE "failed")
        /\ h.timer \in {q.timer, "off"}
    <3>1. PICK s \in {"none", "pending", "running"} \union Finished,
               u \in {"none", "pending", "loading", "resolved", "failed", "reported", "timeout"},
               t \in {"off", "armed", "none"} \union Finished :
            /\ s = (IF q.status = "none" THEN "none" ELSE "failed")
            /\ u = (IF waits THEN "reported" ELSE q.promise)
            /\ t = (IF q.timer = "armed" THEN "off" ELSE q.timer)
      BY DEF RequestRecords, Finished
    <3>2. h = [q EXCEPT !.status = s, !.promise = u, !.timer = t]
      BY <2>4, <3>1 DEF Rejected
    <3>3. /\ h \in RequestRecords /\ h.proc = q.proc /\ h.key = q.key /\ h.stage = q.stage
          /\ h.promise = u /\ h.status = s /\ h.timer = t
      BY <3>2 DEF RequestRecords
    <3> QED BY <3>1, <3>3
  <2>6. /\ request' \in [Requests -> RequestRecords] /\ request'[r] = h
        /\ \A s \in Requests \ {r} : request'[s] = request[s]
    BY <2>4, <2>5, RequestBecomesOK
  <2>7. /\ pending' \in [Procs -> [JobIds -> Requests \union {None}]]
        /\ \A p \in Procs, i \in JobIds :
             pending'[p][i] = IF pending[p][i] = r THEN None ELSE pending[p][i]
    BY <1>9 DEF IInv, TypeOK
  <2>8. TypeOK'
    BY <1>2, <1>5, <2>6, <2>7 DEF IInv, TypeOK
  <2>9. \A p \in Procs, i \in JobIds :
          pending[p][i] = r => waits /\ q.promise = "pending"
    <3>1. \A p \in Procs, i \in JobIds :
            pending[p][i] = r => p = q.proc /\ i = k /\ q.promise = "pending"
      BY <1>7, <2>1, <2>2, WorkflowAssumption DEF IInv, PendingOK
    <3> QED BY <2>3, <3>1
  <2>10. waits => q.promise = "pending"
    BY <2>2, <2>3, <2>9
  <2>11. h.status = "failed" =>
           q.status = "failed" \/ h.promise \in {"failed", "reported", "timeout"} \/ Raced(r)
    <3>1. ASSUME q.status # "none", ~Raced(r), ~waits PROVE q.promise \in {"failed", "reported", "timeout"}
      <4>1. q.promise # "none"
        BY <2>1, <2>2, <3>1 DEF RequestShape
      <4>2. q.promise \notin {"resolved", "loading"}
        BY <1>1, <2>1, <2>2 DEF Sincere
      <4>3. q.promise # "pending"
        BY <2>1, <2>2, <2>3, <3>1 DEF Tracked
      <4> QED BY <4>1, <4>2, <4>3 DEF RequestRecords
    <3> QED BY <2>3, <2>5, <3>1
  <2>12. /\ \/ h.promise = q.promise
            \/ q.promise = "pending" /\ h.promise = "reported"
         /\ \/ h.status = q.status
            \/ q.status # "none" /\ h.status = "failed"
    BY <2>3, <2>5, <2>10
  <2>13. /\ h.promise = "pending" =>
              \A p \in Procs, i \in JobIds : pending[p][i] = r => pending'[p][i] = r
         /\ \A p \in Procs, i \in JobIds : pending'[p][i] # r
         /\ \A p \in Procs, i \in JobIds :
              \/ pending'[p][i] = pending[p][i]
              \/ pending[p][i] = r /\ pending'[p][i] = None
    <3>1. h.promise = "pending" => ~waits
      BY <2>5
    <3>2. r # None
      BY WorkflowAssumption
    <3>3. \A p \in Procs, i \in JobIds :
            pending'[p][i] = IF pending[p][i] = r THEN None ELSE pending[p][i]
      BY <2>7
    <3>4. ASSUME NEW p \in Procs, NEW i \in JobIds
          PROVE  /\ pending'[p][i] # r
                 /\ \/ pending'[p][i] = pending[p][i]
                    \/ pending[p][i] = r /\ pending'[p][i] = None
      BY ONLY <3>2, <3>3, <3>4
    <3>5. h.promise = "pending" =>
            \A p \in Procs, i \in JobIds : pending[p][i] = r => pending'[p][i] = r
      BY ONLY <2>9, <3>1
    <3>6. \A p \in Procs, i \in JobIds : pending'[p][i] # r
      BY ONLY <3>4
    <3>7. \A p \in Procs, i \in JobIds :
              \/ pending'[p][i] = pending[p][i]
              \/ pending[p][i] = r /\ pending'[p][i] = None
      BY ONLY <3>4
    <3> QED BY <3>5, <3>6, <3>7, Zenon
  <2>14. /\ request'[r].proc = request[r].proc /\ request'[r].key = request[r].key
         /\ request'[r].stage = request[r].stage
         /\ request'[r].timer \in {request[r].timer, "off"}
         /\ \/ request'[r].promise = request[r].promise
            \/ request[r].promise = "pending" /\ request'[r].promise = "reported"
         /\ \/ request'[r].status = request[r].status
            \/ request[r].status # "none" /\ request'[r].status = "failed"
         /\ request'[r].status = "failed" =>
              \/ request[r].status = "failed"
              \/ request'[r].promise \in {"failed", "reported", "timeout"} \/ Raced(r)
         /\ request'[r].promise = h.promise
    BY <2>1, <2>5, <2>6, <2>11, <2>12
  <2>15. /\ job[k].owner = r /\ job[k].state = "active" /\ job'[k].state = "active"
         /\ job[k].phase # "thrown" /\ job'[k].phase = "thrown"
         /\ job'[k].place = job[k].place /\ job'[k].by = job[k].by /\ job'[k].owner = r
         /\ \A i \in JobIds \ {k} :
              job'[i] = job[i] /\ effect'[i] = effect[i] /\ ran'[i] = ran[i]
         /\ (ran[k] >= 1 => ran'[k] >= 1) /\ UNCHANGED stream
    BY <1>1, <1>2, <1>3, <1>5, <1>7
  <2>16. \A s \in Requests \ {r} : request'[s] = request[s]
    BY <2>6
  <2> QED BY <1>6, <2>8, <2>13, <2>14, <2>15, <2>16, OwnerStepOK
<1> QED BY <1>7, <1>8, <1>9 DEF StepReports

(* The completion handler throws: its process remembers that the flow failed. *)
LEMMA HandlerThrowsIInv ==
  ASSUME IInv, NEW k \in JobIds, HandlerThrows(k)
  PROVE  IInv'
<1> DEFINE j == job[k]
           g == [j EXCEPT !.phase = "thrown"]
<1>1. /\ j \in JobRecords /\ j.place \in 1 .. Top(k) /\ j.phase = "handler" /\ j.state = "active"
      /\ ChainOK(k) /\ JobShape(k) /\ ~(j.place < Top(k)) /\ Top(k) \in Nat
      /\ ran[k] \in Nat /\ j.stalls \in Nat
  BY Places DEF HandlerThrows, IInv, TypeOK, ChainOK, JobShape, Finished, JobRecords, JobStates
<1>2. /\ UNCHANGED <<effect, life, listener, stream, pending, handle, reader, stops>>
      /\ ran' \in {ran, [ran EXCEPT ![k] = @ + 1]}
  BY DEF HandlerThrows
<1>3. /\ g \in JobRecords /\ g.state = "active" /\ g.by = j.by /\ g.phase = "thrown"
      /\ g.undone = j.undone /\ g.place = j.place /\ g.owner = j.owner /\ g.stalls = j.stalls
      /\ g.open = j.open /\ g.ok = j.ok /\ g.lapsed = j.lapsed /\ g.loose = j.loose
  BY <1>1 DEF JobRecords, JobStates, Finished
<1>4. JobBecomes(k, g)
  BY <1>1, <1>3 DEF HandlerThrows, JobBecomes, IInv, TypeOK
<1> HIDE DEF g
<1>5. /\ job' \in [JobIds -> JobRecords] /\ job'[k] = g /\ \A i \in JobIds \ {k} : job'[i] = job[i]
  BY <1>4, JobBecomesOK
<1>6. ran' \in [JobIds -> Nat] /\ ran'[k] \in {ran[k], ran[k] + 1} /\ \A i \in JobIds \ {k} : ran'[i] = ran[i]
  BY <1>2 DEF IInv, TypeOK
<1>7. ChainOK(k)'
  <2>1. JobShape(k)'
    BY <1>1, <1>3, <1>5 DEF JobShape, Finished
  <2>2. ListsEffects(k)'
    BY <1>1, <1>2, <1>3, <1>5 DEF ChainOK, ListsEffects, Broken
  <2>3. CountsRuns(k)'
    <3>1. ran[k] <= j.stalls /\ j.place = Top(k)
      BY <1>1 DEF ChainOK, CountsRuns, HandlerBehind, Finished
    <3> QED BY <1>1, <1>3, <1>5, <1>6, <3>1 DEF CountsRuns, HandlerBehind
  <2>4. LapseShape(k)'
    <3>1. j.place = Top(k) /\ StepsAt(k, Top(k)) = {}
      BY <1>1, Places
    <3> QED BY <1>1, <1>3, <1>5, <3>1 DEF ChainOK, LapseShape, Broken
  <2> QED BY <2>1, <2>2, <2>3, <2>4 DEF ChainOK
<1>8. ran[k] >= 1 => ran'[k] >= 1
  BY <1>1, <1>6
<1>9. CASE request' = request
  <2>1. TypeOK'
    BY <1>2, <1>5, <1>6, <1>9 DEF IInv, TypeOK
  <2> QED BY <1>1, <1>2, <1>3, <1>5, <1>6, <1>7, <1>8, <1>9, <2>1, JobStepOK DEF Finished, Leads
<1>10. CASE /\ StatusAt(j.by, k) # "none"
            /\ request' = [request EXCEPT ![j.owner].status = "failed"]
  <2>1. j.by \in Procs
    BY <1>1 DEF JobShape, JobRecords
  <2>2. PICK r \in Requests, q \in RequestRecords :
          r = j.owner /\ q = request[r] /\ q.status # "none" /\ q.key = k /\ q.proc = j.by
    <3>1. PICK p \in Procs : p = j.by
      BY <2>1
    <3>2. /\ j.owner \in Requests /\ request[j.owner].status # "none"
          /\ request[j.owner].proc = j.by
      BY <1>10, <3>1, StatusIsOwners
    <3> QED BY <1>1, <3>2 DEF IInv, TypeOK, OwnerOK
  <2>3. PICK h : h = [q EXCEPT !.status = "failed"] /\ request' = [request EXCEPT ![r] = h]
    BY <1>10, <2>2
  <2>4. /\ h \in RequestRecords /\ h.proc = q.proc /\ h.key = q.key /\ h.stage = q.stage
        /\ h.promise = q.promise /\ h.status = "failed" /\ h.timer = q.timer
    BY <2>3 DEF RequestRecords, Finished
  <2>5. /\ request' \in [Requests -> RequestRecords] /\ request'[r] = h
        /\ \A s \in Requests \ {r} : request'[s] = request[s]
    BY <2>3, <2>4, RequestBecomesOK
  <2>6. TypeOK'
    BY <1>2, <1>5, <1>6, <2>5 DEF IInv, TypeOK
  <2>7. \A p \in Procs, i \in JobIds : pending'[p][i] = pending[p][i]
    BY <1>2
  <2>8. ASSUME q.promise # "pending", NEW p \in Procs, NEW i \in JobIds PROVE pending[p][i] # r
    BY <2>2, <2>8, WorkflowAssumption DEF IInv, PendingOK
  <2>9. j.place = Top(k)
    BY <1>1
  <2> QED BY <2>9, <1>1, <1>2, <1>3, <1>5, <1>6, <1>7, <1>8, <2>2, <2>4, <2>5, <2>6, <2>7, <2>8,
             OwnerStepOK
<1> QED BY <1>9, <1>10 DEF HandlerThrows

-----------------------------------------------------------------------------
(* stop() and crashes. *)

(* The executions whose listener is still connecting throw. *)
LEMMA StopBeginsIInv ==
  ASSUME IInv, NEW p \in Procs, StopBegins(p)
  PROVE  IInv'
<1>1. /\ UNCHANGED <<redis, listener, stream, pending, handle>>
      /\ stops < MaxStops /\ stops' = stops + 1 /\ life' = [life EXCEPT ![p] = "stopping"]
  BY DEF StopBegins
<1>2. reader' \in ReaderRecords
  <2>1. "threw" \in Answers /\ reader \in ReaderRecords
    BY DEF Answers, IInv, TypeOK
  <2> QED BY <2>1, TellOK DEF StopBegins
<1>3. request' \in [Requests -> RequestRecords]
      /\ \A r \in Requests :
           \/ request'[r] = request[r]
           \/ /\ request[r].stage = "connecting" /\ request'[r].stage = "threw"
              /\ request'[r].proc = request[r].proc /\ request'[r].key = request[r].key
              /\ request'[r].promise = request[r].promise
              /\ request'[r].status = request[r].status /\ request'[r].timer = request[r].timer
  <2> DEFINE Threw(q) == [q EXCEPT !.stage = "threw"]
  <2>1. \A q \in RequestRecords :
          /\ Threw(q) \in RequestRecords /\ Threw(q).stage = "threw"
          /\ Threw(q).proc = q.proc /\ Threw(q).key = q.key /\ Threw(q).promise = q.promise
          /\ Threw(q).status = q.status /\ Threw(q).timer = q.timer
    BY DEF RequestRecords
  <2>2. request' = [r \in Requests |->
          IF request[r].proc = p /\ request[r].stage = "connecting" /\ listener[p] = "connecting"
          THEN Threw(request[r]) ELSE request[r]]
    BY DEF StopBegins
  <2> HIDE DEF Threw
  <2>3. \A r \in Requests : request[r] \in RequestRecords
    BY DEF IInv, TypeOK
  <2> QED BY <2>1, <2>2, <2>3
<1>4. TypeOK'
  <2>1. life' \in [Procs -> {"running", "stopping", "stopped", "crashed"}]
    BY <1>1 DEF IInv, TypeOK
  <2>2. stops' \in 0 .. MaxStops
    BY <1>1, WorkflowAssumption DEF IInv, TypeOK
  <2> QED BY <1>1, <1>2, <1>3, <2>1, <2>2 DEF IInv, TypeOK, redis
<1>5. Onward
  BY <1>1, <1>3 DEF Onward, Keeps, NotYet, Leads, redis
<1>6. ASSUME NEW r \in Requests, request'[r] # request[r]
      PROVE  RequestShape(r)' /\ Sincere(r)' /\ Tracked(r)'
  <2>1. RequestShape(r) /\ request[r].stage = "connecting" /\ request'[r].stage = "threw"
    BY <1>3, <1>6 DEF IInv
  <2>2. RequestShape(r)'
    BY <1>3, <1>6, <2>1 DEF RequestShape, Known
  <2>3. Sincere(r)'
    BY <1>3, <1>5, <1>6, <2>1, StaysSincere
  <2>4. \A k \in JobIds : ~Owns(r, k)'
    BY <1>1, <2>1, NotYetOK DEF Owns, NotYet, redis
  <2> QED BY <2>1, <2>2, <2>3, <2>4 DEF Tracked, Known
<1>7. ASSUME NEW q \in Procs, NEW k \in JobIds PROVE PendingOK(q, k)'
  <2>1. PendingOK(q, k) /\ pending[q][k] \in Requests \union {None}
    BY DEF IInv, TypeOK
  <2> QED BY <1>1, <1>3, <2>1 DEF PendingOK, NotYet
<1>8. UNCHANGED redis /\ \A q \in Procs : stream'[q] \subseteq stream[q]
  BY <1>1
<1>9. \A r \in Requests, q \in Procs, k \in JobIds : pending[q][k] = r => pending'[q][k] = r
  BY <1>1
<1> QED BY <1>4, <1>5, <1>6, <1>7, <1>8, <1>9, RequestsStepOK

LEMMA GoneOK ==
  ASSUME NEW p \in Procs, NEW q \in RequestRecords, NEW how \in {"stopped", "crashed"}
  PROVE  LET g == Gone(p, q, how)
         IN  /\ g \in RequestRecords /\ g.proc = q.proc /\ g.key = q.key
             /\ \/ g.promise = q.promise
                \/ q.promise = "loading" /\ g.promise = "pending"
             /\ q.proc # p => g = q
             /\ q.proc = p => /\ g.status = "none" /\ g.timer = "off" /\ g.stage \notin Known
                              /\ g.stage \in {"threw", "abandoned", q.stage}
                              /\ g.stage # "connecting"
<1>1. CASE q.proc # p
  BY <1>1 DEF Gone
<1>2. CASE q.proc = p
  <2>1. PICK s \in {"unsent", "joined", "durable", "threw", "abandoned"} :
          s = CASE q.stage \in {"looking", "connecting", "adding"} -> "threw"
                [] q.stage \in {"verifying", "returning", "returned"} -> "abandoned"
                [] OTHER -> q.stage
    BY DEF RequestRecords
  <2>2. s \in {"threw", "abandoned", q.stage}
    BY <2>1
  <2>3. PICK u \in {q.promise, "pending"} :
          /\ u = (IF q.promise = "loading" /\ how = "crashed" THEN "pending" ELSE q.promise)
          /\ u = q.promise \/ q.promise = "loading"
    OBVIOUS
  <2>4. Gone(p, q, how) = [q EXCEPT !.status = "none", !.timer = "off", !.promise = u, !.stage = s]
    BY <1>2, <2>1, <2>3 DEF Gone
  <2>5. LET g == Gone(p, q, how)
        IN  /\ g \in RequestRecords /\ g.proc = q.proc /\ g.key = q.key /\ g.promise = u
            /\ g.status = "none" /\ g.timer = "off" /\ g.stage = s
    BY <2>3, <2>4 DEF RequestRecords
  <2> QED BY <1>2, <2>1, <2>2, <2>3, <2>5 DEF Known
<1> QED BY <1>1, <1>2

(* What is left when a process is gone: its executions are over, whatever they were at. *)
LEMMA VanishesOK ==
  ASSUME IInv, NEW p \in Procs, NEW how \in {"stopped", "crashed"}, Vanishes(p, how),
         job' \in [JobIds -> JobRecords], UNCHANGED <<effect, ran>>, stops' \in 0 .. MaxStops,
         \A k \in JobIds : ChainOK(k)',
         \A k \in JobIds :
           /\ job'[k].owner = job[k].owner
           /\ \/ /\ job'[k].state = job[k].state /\ job'[k].phase = job[k].phase
                 /\ job'[k].place = job[k].place /\ job'[k].by = job[k].by
              \/ /\ job[k].state = "active" /\ job'[k].state = "waiting"
                 /\ job'[k].phase = "idle" /\ job[k].by = p
  PROVE  IInv'
<1>1. request' \in [Requests -> RequestRecords]
      /\ \A r \in Requests :
           /\ request'[r].proc = request[r].proc /\ request'[r].key = request[r].key
           /\ \/ request'[r].promise = request[r].promise
              \/ request[r].promise = "loading" /\ request'[r].promise = "pending"
           /\ \/ request[r].proc # p /\ request'[r] = request[r]
              \/ /\ request[r].proc = p /\ request'[r].status = "none"
                 /\ request'[r].timer = "off" /\ request'[r].stage \notin Known
                 /\ request'[r].stage \in {"threw", "abandoned", request[r].stage}
                 /\ request'[r].stage # "connecting"
  <2>1. request' = [r \in Requests |-> Gone(p, request[r], how)]
    BY DEF Vanishes
  <2>2. \A r \in Requests : request[r] \in RequestRecords
    BY DEF IInv, TypeOK
  <2> QED BY <2>1, <2>2, GoneOK
<1>2. /\ pending' \in [Procs -> [JobIds -> Requests \union {None}]]
      /\ \A q \in Procs, k \in JobIds : pending'[q][k] = IF q = p THEN None ELSE pending[q][k]
  BY DEF Vanishes, IInv, TypeOK
<1>3. /\ stream' \in [Procs -> SUBSET (JobIds \X Finished)]
      /\ \A q \in Procs : stream'[q] \subseteq stream[q]
  BY DEF Vanishes, IInv, TypeOK
<1>4. TypeOK'
  <2>1. /\ life' \in [Procs -> {"running", "stopping", "stopped", "crashed"}]
        /\ listener' \in [Procs -> {"none", "connecting", "ready"}]
        /\ handle' \in [Procs -> [Keyed -> Requests \union {None}]]
    BY DEF Vanishes, IInv, TypeOK
  <2>2. reader' \in ReaderRecords
    BY DEF Vanishes, IInv, TypeOK, ReaderRecords
  <2> QED BY <1>1, <1>2, <1>3, <2>1, <2>2 DEF IInv, TypeOK
<1>5. Onward
  <2>1. \A r \in Requests : Keeps(r)
    BY <1>1 DEF Keeps, NotYet
  <2>2. \A r \in Requests : request[r].proc = p => request'[r].status # "failed"
    BY <1>1
  <2> QED BY <2>1, <2>2 DEF Onward, Leads, Finished
<1>6. ASSUME NEW r \in Requests PROVE RequestShape(r)' /\ Sincere(r)' /\ Tracked(r)'
  <2>1. RequestShape(r) /\ Sincere(r) /\ Tracked(r)
    BY DEF IInv
  <2>2. Raced(r) => Raced(r)'
    BY <1>5, HasHeardStays
  <2>3. CASE request[r].stage = "unsent"
    <3>1. request[r] = Unsent /\ request'[r] = request[r]
      BY <1>1, <2>1, <2>3, WorkflowAssumption DEF RequestShape, Unsent
    <3> QED BY <2>1, <3>1 DEF RequestShape, Sincere, Tracked, Unsent, Known
  <2>4. CASE request[r].stage # "unsent"
    <3>1. request[r].proc \in Procs /\ request[r].key \in JobIds
      BY <2>1, <2>4 DEF RequestShape
    <3>2. RequestShape(r)'
      BY <1>1, <2>1, <2>4 DEF RequestShape, Known
    <3>3. Sincere(r)'
      BY <1>1, <1>5, <2>4, StaysSincere
    <3>4. \A k \in JobIds : Owns(r, k)' => Owns(r, k)
      BY DEF Owns
    <3>5. Tracked(r)'
      BY <1>1, <1>2, <2>1, <2>2, <3>1, <3>4 DEF Tracked
    <3> QED BY <3>2, <3>3, <3>5
  <2> QED BY <2>3, <2>4
<1>7. ASSUME NEW q \in Procs, NEW k \in JobIds PROVE PendingOK(q, k)'
  <2>1. PendingOK(q, k) /\ pending[q][k] \in Requests \union {None}
    BY DEF IInv, TypeOK
  <2>2. CASE q = p
    BY <1>2, <2>2 DEF PendingOK
  <2>3. CASE q # p
    BY <1>1, <1>2, <2>1, <2>3 DEF PendingOK
  <2> QED BY <2>2, <2>3
<1>8. /\ \A k \in JobIds : job[k].state = "none" => job'[k].state = "none"
      /\ \A k \in JobIds : job'[k].phase = "skipped" /\ ran'[k] = 0 =>
           job[k].phase = "skipped" /\ ran[k] = 0
      /\ \A q \in Procs : \A a \in stream'[q] : a \in stream[q]
  BY <1>3
<1> QED BY <1>4, <1>5, <1>6, <1>7, <1>8, StepOK

LEMMA StopEndsIInv ==
  ASSUME IInv, NEW p \in Procs, StopEnds(p)
  PROVE  IInv'
<1>1. UNCHANGED <<redis, stops>> /\ Vanishes(p, "stopped")
  BY DEF StopEnds
<1>2. \A k \in JobIds : ChainOK(k)'
  BY <1>1 DEF redis, IInv, ChainOK, JobShape, LapseShape, Broken, ListsEffects, CountsRuns,
         HandlerBehind
<1> QED BY <1>1, <1>2, VanishesOK DEF redis, IInv, TypeOK

(* BullMQ hands the jobs of a dead worker to another one. *)
LEMMA CrashIInv ==
  ASSUME IInv, NEW p \in Procs, Crash(p)
  PROVE  IInv'
<1>1. UNCHANGED <<effect, ran>> /\ Vanishes(p, "crashed") /\ stops < MaxStops /\ stops' = stops + 1
  BY DEF Crash
<1>2. stops' \in 0 .. MaxStops
  BY <1>1, WorkflowAssumption DEF IInv, TypeOK
<1>3. ASSUME NEW k \in JobIds
      PROVE  /\ job'[k] \in JobRecords /\ ChainOK(k)'
             /\ job'[k].owner = job[k].owner
             /\ \/ /\ job'[k].state = job[k].state /\ job'[k].phase = job[k].phase
                   /\ job'[k].place = job[k].place /\ job'[k].by = job[k].by
                \/ /\ job[k].state = "active" /\ job'[k].state = "waiting"
                   /\ job'[k].phase = "idle" /\ job[k].by = p
  <2>1. PICK j \in JobRecords : j = job[k]
    BY DEF IInv, TypeOK
  <2>2. ChainOK(k) /\ JobShape(k) /\ j.stalls \in Nat /\ j.tries \in Nat /\ j.place \in Nat
        /\ j.owner \in Requests \union {None} /\ "waiting" \in JobStates
    BY <2>1 DEF IInv, ChainOK, JobRecords, JobStates
  <2>5. PICK alive \in SUBSET (Procs \X AllSteps) :
          alive \subseteq j.loose /\ alive = {x \in j.loose : x[1] # p}
    BY <2>1 DEF JobRecords
  <2>6. LapseShape(k)
    BY <2>2 DEF ChainOK
  <2>3. CASE j.by # p
    <3>1. PICK g : g = job'[k] /\ g = [j EXCEPT !.loose = alive]
      BY <2>1, <2>3, <2>5 DEF Crash
    <3>2. /\ g \in JobRecords /\ g.state = j.state /\ g.place = j.place /\ g.by = j.by
          /\ g.owner = j.owner /\ g.stalls = j.stalls /\ g.phase = j.phase /\ g.open = j.open
          /\ g.ok = j.ok /\ g.undone = j.undone /\ g.lapsed = j.lapsed /\ g.loose = alive
      BY <3>1 DEF JobRecords
    <3>3. JobShape(k)'
      <4>1. CASE j.state = "none"
        <5>1. j = NoJob /\ alive = NoJob.loose
          BY <2>1, <2>2, <2>5, <4>1 DEF JobShape, NoJob
        <5>2. g = NoJob
          BY <3>1, <5>1 DEF NoJob
        <5> QED BY <2>1, <2>2, <3>1, <5>1, <5>2 DEF JobShape
      <4>2. CASE j.state # "none"
        BY <2>1, <2>2, <3>1, <3>2, <4>2 DEF JobShape
      <4> QED BY <4>1, <4>2
    <3>4. LapseShape(k)'
      BY <2>1, <2>5, <2>6, <3>1, <3>2 DEF LapseShape, Broken
    <3>5. ListsEffects(k)' /\ CountsRuns(k)'
      BY <1>1, <2>1, <2>2, <3>1, <3>2 DEF ChainOK, ListsEffects, Broken, CountsRuns, HandlerBehind
    <3> QED BY <2>1, <3>1, <3>2, <3>3, <3>4, <3>5 DEF ChainOK
  <2>4. CASE j.by = p
    <3>11. PICK state \in JobStates : state = "waiting"
      BY <2>2
    <3>12. PICK tries \in Nat, place \in Nat, stalls \in Nat :
             tries = j.tries /\ place = j.place /\ stalls = j.stalls + 1
      <4>1. j.stalls + 1 \in Nat
        BY <2>2
      <4> QED BY <2>2, <4>1
    <3>13. PICK owner \in Requests \union {None} : owner = j.owner
      BY <2>2
    <3>1. /\ state = "waiting" /\ tries = j.tries /\ owner = j.owner /\ place = j.place
          /\ stalls = j.stalls + 1
      BY <3>11, <3>12, <3>13
    <3>2. PICK g : g = job'[k] /\ g = Orphan(state, tries, owner, place, stalls, alive)
      <4>1. job[k].by = p
        BY <2>1, <2>4
      <4>2. job'[k] =
              [NoJob EXCEPT !.state = "waiting", !.tries = job[k].tries, !.owner = job[k].owner,
                 !.place = job[k].place, !.stalls = job[k].stalls + 1,
                 !.loose = {x \in job[k].loose : x[1] # p}]
        BY <4>1 DEF Crash
      <4>3. {x \in job[k].loose : x[1] # p} = alive
        BY <2>1, <2>5
      <4>4. job'[k] =
              [NoJob EXCEPT !.state = "waiting", !.tries = j.tries, !.owner = j.owner,
                 !.place = j.place, !.stalls = j.stalls + 1, !.loose = alive]
        BY <2>1, <4>2, <4>3, Zenon
      <4> QED BY <3>1, <4>4 DEF Orphan
    <3>3. /\ g \in JobRecords /\ g.state = state /\ g.by = None /\ g.phase = "idle"
          /\ g.undone = {} /\ g.place = place /\ g.owner = owner /\ g.stalls = stalls
          /\ g.loose = alive
      <4>1. IsIdle(g, state, owner, place, stalls, NoJob.lapsed, alive)
        BY <3>2, OrphanOK
      <4> QED BY <4>1 DEF IsIdle
    <3>4. j.state = "active"
      BY <2>1, <2>2, <2>4, WorkflowAssumption DEF JobShape
    <3>5. JobShape(k)'
      BY <2>1, <2>2, <3>1, <3>2, <3>3 DEF JobShape, Finished
    <3>6. ListsEffects(k)'
      BY <2>2, <3>1, <3>2, <3>3 DEF ListsEffects
    <3>7. CountsRuns(k)'
      <4>1. ran[k] <= 1 + j.stalls /\ ran[k] \in Nat
        BY <2>1, <2>2 DEF ChainOK, CountsRuns, IInv, TypeOK
      <4> QED BY <1>1, <2>2, <3>1, <3>2, <3>3, <4>1 DEF CountsRuns, HandlerBehind, Finished
    <3>8. LapseShape(k)'
      <4>1. job'[k].place = job[k].place /\ job'[k].loose \subseteq job[k].loose
            /\ job'[k].phase = "idle" /\ job'[k].state = "waiting" /\ job'[k].undone = {}
        BY <2>1, <2>5, <3>1, <3>2, <3>3
      <4>2. Broken(k)' <=> Broken(k)
        BY <4>1 DEF Broken
      <4>3. \A x \in job'[k].loose : x \in job[k].loose
        BY <4>1
      <4>4. job'[k].loose # {} => Broken(k)
        BY <2>6, <4>3 DEF LapseShape
      <4>5. \A x \in job'[k].loose : x[2] \in StepsAt(k, job[k].place)
        BY <2>6, <4>3 DEF LapseShape
      <4>6. \A x \in job'[k].loose : x[2] \in StepsAt(k, job'[k].place)
        BY <4>1, <4>5
      <4>7. job'[k].undone = {} /\ job'[k].phase = "idle" /\ job'[k].state = "waiting"
        BY <4>1
      <4> QED BY ONLY <4>2, <4>4, <4>6, <4>7 DEF LapseShape
    <3> QED BY <2>1, <2>4, <3>1, <3>2, <3>3, <3>4, <3>5, <3>6, <3>7, <3>8 DEF ChainOK
  <2> QED BY <2>3, <2>4
<1>4. job' \in [JobIds -> JobRecords]
  <2>1. job' = [k \in JobIds |-> job'[k]]
    BY DEF Crash
  <2> QED BY <1>3, <2>1
<1> QED BY <1>1, <1>2, <1>3, <1>4, VanishesOK

-----------------------------------------------------------------------------
(* The theorems. *)

LEMMA InitIInv == Init => IInv
<1> SUFFICES ASSUME Init PROVE IInv
  OBVIOUS
<1>1. NoJob \in JobRecords /\ Unsent \in RequestRecords
  BY DEF NoJob, JobRecords, JobStates, Unsent, RequestRecords
<1>2. reader \in ReaderRecords
  <2>1. Unread \in ReaderRecords /\ [Unread EXCEPT !.stage = "absent"] \in ReaderRecords
    BY DEF Unread, ReaderRecords
  <2> QED BY <2>1 DEF Init
<1>3. /\ \A k \in JobIds : job[k] = NoJob /\ ran[k] = 0 /\ \A s \in Undoable : effect[k][s] = "none"
      /\ \A r \in Requests : request[r] = Unsent
      /\ \A p \in Procs : stream[p] = {} /\ \A k \in JobIds : pending[p][k] = None
  BY DEF Init
<1>4. TypeOK
  BY <1>1, <1>2, WorkflowAssumption DEF Init, TypeOK
<1>5. ASSUME NEW k \in JobIds PROVE ChainOK(k) /\ OwnerOK(k)
  <2>1. 1 \in 1 .. Top(k)
    BY Places
  <2>2. JobShape(k)
    <3>1. /\ NoJob.state = "none" /\ NoJob.by = None /\ NoJob.phase = "idle" /\ NoJob.place = 1
      BY DEF NoJob
    <3>2. job[k] = NoJob
      BY <1>3
    <3> QED BY <2>1, <3>1, <3>2 DEF JobShape, Finished
  <2>3. ListsEffects(k) /\ CountsRuns(k) /\ OwnerOK(k)
    BY <1>3 DEF ListsEffects, CountsRuns, HandlerBehind, OwnerOK, NoJob, Finished
  <2>4. LapseShape(k)
    BY <1>3 DEF LapseShape, NoJob
  <2> QED BY <2>2, <2>3, <2>4 DEF ChainOK
<1>6. ASSUME NEW r \in Requests PROVE RequestShape(r) /\ Sincere(r) /\ Tracked(r)
  BY <1>3 DEF RequestShape, Sincere, Tracked, Known, Unsent
<1>7. (\A p \in Procs, k \in JobIds : PendingOK(p, k)) /\ StreamTrue
  BY <1>3 DEF PendingOK, StreamTrue
<1> QED BY <1>4, <1>5, <1>6, <1>7 DEF IInv

LEMMA NextIInv == IInv /\ [Next]_vars => IInv'
<1> SUFFICES ASSUME IInv, [Next]_vars PROVE IInv'
  OBVIOUS
<1>1. ASSUME NEW r \in Requests,
             \/ ExecuteStep(r) \/ TimeoutFires(r) \/ TimeoutActs(r) \/ Rejects(r) \/ CleansUp(r)
      PROVE  IInv'
  BY <1>1, LooksUpIInv, RegistersIInv, AddsIInv, VerifiesIInv, ReturnsIInv, TimeoutActsIInv,
     RejectsIInv DEF ExecuteStep
<1>2. ASSUME NEW p \in Procs,
             Connect(p) \/ StopBegins(p) \/ StopEnds(p) \/ Crash(p) \/ Start(p)
      PROVE  IInv'
  BY <1>2, QuietIInv, StopBeginsIInv, StopEndsIInv, CrashIInv
<1>3. ASSUME NEW p \in Procs, NEW k \in JobIds, Take(p, k) \/ TakeWorkflow(p, k) \/ Reads(p, k)
      PROVE  IInv'
  BY <1>3, TakeIInv, TakeWorkflowIInv, QuietIInv
<1>4. ASSUME NEW k \in JobIds, JobSettles(k) \/ HandlerReturns(k) \/ HandlerThrows(k)
      PROVE  IInv'
  BY <1>4, StepCompletesIInv, StepReportsIInv, StepFailsIInv, CascadeIInv, WorkflowEndsIInv,
     HandlerReturnsIInv, HandlerThrowsIInv DEF JobSettles
<1>5. ASSUME NEW k \in JobIds, NEW s \in AllSteps,
             RollbackEnds(k, s) \/ \E how \in Outcomes(s) : StepEnds(k, s, how)
      PROVE  IInv'
  BY <1>5, RollbackEndsIInv, StepEndsIInv
<1>6. CASE ReaderStep
  BY <1>6, QuietIInv
<1>8. ASSUME NEW k \in JobIds,
             \/ HandlerMissing(k) \/ ReadFails(k)
             \/ \E x \in job[k].loose : \E how \in Outcomes(x[2]) : LooseEnds(k, x, how)
      PROVE  IInv'
  BY <1>8, LapsesIInv, LooseEndsIInv
<1>9. ASSUME NEW p \in Procs, NEW a \in stream[p], Hear(p, a[1], a[2]) PROVE IInv'
  <2>1. a[1] \in JobIds /\ a[2] \in Finished
    BY DEF IInv, TypeOK
  <2> QED BY <1>9, <2>1, HearIInv
<1>7. CASE UNCHANGED vars
  <2>1. UNCHANGED <<redis, request, pending>> /\ UNCHANGED stream /\ TypeOK'
    BY <1>7 DEF vars, redis, IInv, TypeOK
  <2> QED BY <2>1, QuietOK
<1> QED BY <1>1, <1>2, <1>3, <1>4, <1>5, <1>6, <1>7, <1>8, <1>9, ExecuteIInv DEF Next

THEOREM IInvHolds == Spec => []IInv
BY InitIInv, NextIInv, PTL DEF Spec

(* Jobs, tables and executions keep their types through every step, stop() and crash.       *)
THEOREM TypeCorrect == Spec => []TypeOK
<1>1. IInv => TypeOK
  BY DEF IInv
<1> QED BY <1>1, IInvHolds, PTL

(* A flow that failed at a step has undone what its steps did, whichever workers ran and    *)
(* undid them, unless its last attempt lapsed: for want of a handler or of the results of   *)
(* the steps before it, a job throws without its rollbacks.  Otherwise the rollbacks of a   *)
(* failed attempt are through before the attempt counts, so that the next one, or the end   *)
(* of the flow, finds no effect that stands.                                                *)
THEOREM FailedAreCompensated == Spec => []FailedIsCompensated
<1>1. IInv => FailedIsCompensated
  BY DEF IInv, ChainOK, ListsEffects, FailedIsCompensated, Lapsed
<1> QED BY <1>1, IInvHolds, PTL

(* The completion handler runs once for every worker that took the workflow's own job and   *)
(* no more, it is skipped only for a caller that was told of a failure, and no process      *)
(* reports a flow as completed before it is.                                                *)
THEOREM CompletionRunsOnce == Spec => []CompletionRuns
<1>1. ASSUME IInv, NEW k \in JobIds
      PROVE  /\ ran[k] <= 1 + job[k].stalls
             /\ \A p \in Procs : GetStatus(p, k) = "completed" => job[k].state = "completed"
             /\ job[k].state = "completed" /\ ran[k] = 0
                  => \/ request[job[k].owner].promise \in {"failed", "reported", "timeout"}
                     \/ Raced(job[k].owner)
  <2>1. /\ JobShape(k) /\ CountsRuns(k) /\ OwnerOK(k) /\ ran[k] \in Nat /\ job[k].stalls \in Nat
    BY <1>1 DEF IInv, ChainOK, TypeOK, JobRecords
  <2>2. ran[k] <= 1 + job[k].stalls
    BY <2>1 DEF CountsRuns
  <2>3. ASSUME NEW p \in Procs, GetStatus(p, k) = "completed" PROVE job[k].state = "completed"
    <3>1. CASE StatusAt(p, k) \in {"none", "pending"}
      BY <2>3, <3>1 DEF GetStatus, StatusOf, Finished
    <3>2. CASE StatusAt(p, k) \notin {"none", "pending"}
      <4>1. StatusAt(p, k) = "completed"
        BY <2>3, <3>2 DEF GetStatus
      <4>2. PICK r \in Requests : r = job[k].owner /\ request[r].status = "completed"
        BY <1>1, <4>1, StatusIsOwners
      <4>3. job[k].state # "none"
        BY <2>1, <4>2, WorkflowAssumption DEF JobShape, NoJob
      <4> QED BY <1>1, <2>1, <4>2, <4>3 DEF IInv, OwnerOK, Sincere
    <3> QED BY <3>1, <3>2
  <2>4. job[k].state = "completed" /\ ran[k] = 0 => HasHeard(job[k].owner)
    BY <2>1 DEF JobShape, CountsRuns, OwnerOK
  <2> QED BY <2>2, <2>3, <2>4 DEF HasHeard
<1>2. IInv => CompletionRuns
  BY <1>1 DEF CompletionRuns
<1> QED BY <1>2, IInvHolds, PTL

(* pendingResults holds exactly the callers that nobody has begun to tell: an execution     *)
(* that has registered is found under its job id until its promise settles or the reason    *)
(* of its failure is loaded, and the flow of a caller for whom it is loaded did fail.       *)
THEOREM CallersTracked == Spec => []CallersAreTracked
<1>1. ASSUME IInv, NEW r \in Requests, request[r].stage \in Known, ~Raced(r)
      PROVE  request[r].promise = "pending" <=> pending[request[r].proc][request[r].key] = r
  <2>1. RequestShape(r) /\ Tracked(r)
    BY <1>1 DEF IInv
  <2>2. PICK p \in Procs, k \in JobIds : p = request[r].proc /\ k = request[r].key
    BY <1>1, <2>1 DEF RequestShape, Known
  <2>3. PendingOK(p, k)
    BY <1>1 DEF IInv
  <2> QED BY <1>1, <2>1, <2>2, <2>3, WorkflowAssumption DEF Tracked, PendingOK
<1>2. IInv => CallersAreTracked
  <2> SUFFICES ASSUME IInv PROVE CallersAreTracked
    OBVIOUS
  <2>2. \A r \in Requests : request[r].promise = "loading" => job[request[r].key].state = "failed"
    BY DEF IInv, Sincere
  <2>1. \A p \in Procs, k \in JobIds :
          pending[p][k] # None =>
            /\ request[pending[p][k]].proc = p /\ request[pending[p][k]].key = k
            /\ request[pending[p][k]].promise = "pending"
    BY DEF IInv, PendingOK
  <2> QED BY <1>1, <2>1, <2>2 DEF CallersAreTracked, Known
<1> QED BY <1>2, IInvHolds, PTL
=============================================================================
