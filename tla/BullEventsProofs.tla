-------------------------- MODULE BullEventsProofs --------------------------
(***************************************************************************)
(* Proofs about request-response events over BullMQ, for any number of     *)
(* processes, jobs, requests, attempts, stops and crashes.                 *)
(*                                                                         *)
(* CallersAreKnown is not inductive: that an answer is never lost needs    *)
(* that the process of whoever waits listens from before its job is added  *)
(* until its tracker has stopped, and that what waits is mapped to its job *)
(* id by then; RequestSound says both, stage by stage of the enqueue task. *)
(***************************************************************************)
EXTENDS BullEvents, TLAPS

(* What the tracker and the enqueue task hold of one request. *)
RequestOK(q) ==
  /\ q.pending <=> q.outcome = "pending"
  /\ q.mapped => q.pending \/ q.outcome = "timeout"
  /\ q.stage = "unsent" => q = Unsent
  /\ q.stage # "unsent" => q.proc \in Procs /\ q.key \in Jobs
  /\ q.stage = "connecting" => ~q.mapped /\ q.outcome \in {"pending", "timeout"}
  /\ q.pending /\ q.stage # "connecting" => q.mapped

(* The stages in which the completion stream of the request's process must be connected. *)
Listens(q) == q.stage \in {"adding", "checking"} \union Finished \/ (q.pending /\ q.stage = "done")

(* What holds of a request and the process and the job it belongs to. *)
RequestSound(r) ==
  LET q == request[r] IN
  /\ Listens(q) => listener[q.proc] = "ready"
  /\ q.proc \in Procs /\ life[q.proc] \in {"closing", "stopped"} => q.stage = "done"
  /\ q.proc \in Procs /\ life[q.proc] = "stopped" => ~q.pending
  /\ q.pending /\ q.stage = "done" /\ job[q.key].state \in Finished
       => \E outcome \in Finished : <<q.key, outcome>> \in stream[q.proc]

NoJobAfterStop == \A p \in Procs : life[p] = "stopped" => \A k \in Jobs : job[k].by # p

IInv ==
  /\ TypeOK
  /\ \A r \in Requests : RequestOK(request[r])
  /\ \A r \in Requests : RequestSound(r)
  /\ NoJobAfterStop

-----------------------------------------------------------------------------
(* The tracker's operations. *)

Verdicts == {"timeout"} \union Finished

LEMMA SettleOK ==
  ASSUME NEW q \in RequestRecords, RequestOK(q), NEW outcome \in Verdicts
  PROVE  LET g == Settle(q, outcome)
         IN  /\ g \in RequestRecords /\ ~g.pending /\ (g.mapped => g.outcome = "timeout")
             /\ g.stage = q.stage /\ g.proc = q.proc /\ g.key = q.key
             /\ g.outcome # "pending"
             /\ q.stage # "connecting" \/ outcome = "timeout" => RequestOK(g)
             /\ ~q.pending => g = q
<1>1. CASE q.pending
  <2> DEFINE g == [q EXCEPT !.outcome = outcome, !.pending = FALSE, !.mapped = FALSE]
  <2>1. Settle(q, outcome) = g
    BY <1>1 DEF Settle
  <2>2. /\ g \in RequestRecords /\ g.pending = FALSE /\ g.mapped = FALSE /\ g.outcome = outcome
        /\ g.stage = q.stage /\ g.proc = q.proc /\ g.key = q.key
    BY DEF RequestRecords, Verdicts, Outcomes
  <2>3. q.stage # "unsent"
    BY <1>1 DEF RequestOK, Unsent
  <2>4. outcome # "pending"
    BY DEF Verdicts, Finished
  <2>5. q.stage # "connecting" \/ outcome = "timeout" => RequestOK(g)
    BY <2>2, <2>3, <2>4 DEF RequestOK
  <2> QED BY <1>1, <2>1, <2>2, <2>4, <2>5
<1>2. CASE ~q.pending
  BY <1>2 DEF Settle, RequestOK
<1> QED BY <1>1, <1>2

(* A request that is settled because its task, its process or the tracker ends. *)
LEMMA SettleDoneOK ==
  ASSUME NEW q \in RequestRecords, RequestOK(q), NEW outcome \in Verdicts, q.stage # "unsent"
  PROVE  LET g == [Settle(q, outcome) EXCEPT !.stage = "done"]
             h == [Settle(q, outcome) EXCEPT !.stage = "done", !.mapped = FALSE]
             i == [Settle(q, outcome) EXCEPT !.mapped = FALSE]
         IN  /\ g \in RequestRecords /\ RequestOK(g) /\ ~g.pending /\ g.stage = "done"
             /\ h \in RequestRecords /\ RequestOK(h) /\ ~h.pending /\ h.stage = "done"
             /\ i \in RequestRecords /\ (q.stage = "done" => RequestOK(i))
             /\ ~i.pending /\ i.stage = q.stage
             /\ \A j \in {g, h, i} : j.proc = q.proc /\ j.key = q.key
<1> DEFINE s == Settle(q, outcome)
<1>1. /\ s \in RequestRecords /\ ~s.pending /\ (s.mapped => s.outcome = "timeout")
      /\ s.stage = q.stage /\ s.proc = q.proc /\ s.key = q.key /\ s.outcome # "pending"
  BY SettleOK
<1>2. s.proc \in Procs /\ s.key \in Jobs
  BY <1>1 DEF RequestOK
<1> HIDE DEF s
<1> DEFINE g == [s EXCEPT !.stage = "done"]
           h == [s EXCEPT !.stage = "done", !.mapped = FALSE]
           i == [s EXCEPT !.mapped = FALSE]
<1>3. /\ g \in RequestRecords /\ ~g.pending /\ g.stage = "done" /\ g.mapped = s.mapped
      /\ g.outcome = s.outcome /\ g.proc = s.proc /\ g.key = s.key
  BY <1>1 DEF RequestRecords, Stages
<1>4. /\ h \in RequestRecords /\ ~h.pending /\ h.stage = "done" /\ h.mapped = FALSE
      /\ h.outcome = s.outcome /\ h.proc = s.proc /\ h.key = s.key
  BY <1>1 DEF RequestRecords, Stages
<1>5. /\ i \in RequestRecords /\ ~i.pending /\ i.stage = s.stage /\ i.mapped = FALSE
      /\ i.outcome = s.outcome /\ i.proc = s.proc /\ i.key = s.key
  BY <1>1 DEF RequestRecords
<1> HIDE DEF g, h, i
<1>6. RequestOK(g) /\ RequestOK(h) /\ (q.stage = "done" => RequestOK(i))
  BY <1>1, <1>2, <1>3, <1>4, <1>5 DEF RequestOK
<1> QED BY <1>1, <1>3, <1>4, <1>5, <1>6 DEF g, h, i, s

(* completeJob() and failJob(): no request of the process stays attached to the job. *)
LEMMA SettleJobOK ==
  ASSUME IInv, NEW p \in Procs, NEW k \in Jobs, NEW outcome \in Finished
  PROVE  LET settled == SettleJob(p, k, outcome)
         IN  /\ settled \in [Requests -> RequestRecords]
             /\ \A r \in Requests :
                  LET q == request[r]
                      g == settled[r]
                  IN  /\ RequestOK(g) /\ g.stage = q.stage /\ g.proc = q.proc /\ g.key = q.key
                      /\ g.pending => g = q /\ ~(q.proc = p /\ q.key = k /\ q.mapped)
<1> DEFINE settled == SettleJob(p, k, outcome)
<1>1. ASSUME NEW r \in Requests
      PROVE  LET q == request[r]
                 g == settled[r]
             IN  /\ g \in RequestRecords /\ RequestOK(g)
                 /\ g.stage = q.stage /\ g.proc = q.proc /\ g.key = q.key
                 /\ g.pending => g = q /\ ~(q.proc = p /\ q.key = k /\ q.mapped)
  <2>1. request[r] \in RequestRecords /\ RequestOK(request[r]) /\ outcome \in Verdicts
    BY DEF IInv, TypeOK, Verdicts
  <2>2. settled[r] = IF request[r].proc = p /\ request[r].key = k /\ request[r].mapped
                     THEN Settle(request[r], outcome) ELSE request[r]
    BY DEF SettleJob
  <2>3. CASE request[r].proc = p /\ request[r].key = k /\ request[r].mapped
    <3>1. request[r].stage # "connecting"
      BY <2>1, <2>3 DEF RequestOK
    <3> QED BY <2>1, <2>2, <2>3, <3>1, SettleOK
  <2>4. CASE ~(request[r].proc = p /\ request[r].key = k /\ request[r].mapped)
    BY <2>1, <2>2, <2>4
  <2> QED BY <2>3, <2>4
<1>2. settled \in [Requests -> RequestRecords]
  BY <1>1 DEF SettleJob
<1> QED BY <1>1, <1>2

-----------------------------------------------------------------------------
(* The inductive invariant. *)

LEMMA InitIInv == Init => IInv
<1> SUFFICES ASSUME Init PROVE IInv
  OBVIOUS
<1>1. NoJob \in JobRecords /\ Unsent \in RequestRecords /\ 0 \in 0 .. MaxStops
  BY RequestAssumption DEF NoJob, JobRecords, Unsent, RequestRecords, Stages, Outcomes
<1>2. TypeOK
  BY <1>1 DEF Init, TypeOK, Lives
<1>3. RequestOK(Unsent) /\ ~Listens(Unsent) /\ ~Unsent.pending /\ Unsent.proc = None
  BY DEF RequestOK, Listens, Unsent, Finished
<1>4. \A r \in Requests : RequestOK(request[r]) /\ RequestSound(r)
  BY <1>3, RequestAssumption DEF Init, RequestSound
<1>5. NoJobAfterStop
  BY DEF Init, NoJobAfterStop
<1> QED BY <1>2, <1>4, <1>5 DEF IInv

(* A request that a step leaves alone or settles stays sound, unless the step takes away *)
(* the stream of its process or announces nothing of its finished job.                   *)
LEMMA PassesOK ==
  ASSUME IInv, NEW r \in Requests,
         \/ request'[r] = request[r]
         \/ /\ ~request'[r].pending /\ request'[r].stage \in {request[r].stage, "done"}
            /\ request'[r].proc = request[r].proc /\ request'[r].key = request[r].key,
         \A p \in Procs : life'[p] \in {"closing", "stopped"} => life'[p] = life[p],
         \A p \in Procs : listener[p] = "ready" => listener'[p] = "ready",
         request'[r].pending /\ job'[request[r].key].state \in Finished =>
           \/ /\ job[request[r].key].state \in Finished
              /\ \A outcome \in Finished : <<request[r].key, outcome>> \in stream[request[r].proc]
                   => <<request[r].key, outcome>> \in stream'[request[r].proc]
           \/ \E outcome \in Finished : <<request[r].key, outcome>> \in stream'[request[r].proc]
  PROVE  RequestSound(r)'
<1>1. RequestOK(request[r]) /\ RequestSound(r)
  BY DEF IInv
<1>2. Listens(request'[r]) => Listens(request[r])
  BY <1>1 DEF Listens, Finished
<1>3. Listens(request'[r]) => listener'[request'[r].proc] = "ready"
  <2>1. Listens(request[r]) => request[r].proc \in Procs
    BY <1>1 DEF Listens, RequestOK, Unsent, Finished
  <2> QED BY <1>1, <1>2, <2>1 DEF RequestSound
<1>4. /\ request'[r].proc \in Procs /\ life'[request'[r].proc] \in {"closing", "stopped"}
           => request'[r].stage = "done"
      /\ request'[r].proc \in Procs /\ life'[request'[r].proc] = "stopped"
           => ~request'[r].pending
  BY <1>1 DEF RequestSound
<1>5. request'[r].pending /\ request'[r].stage = "done"
        /\ job'[request'[r].key].state \in Finished
        => \E outcome \in Finished : <<request'[r].key, outcome>> \in stream'[request'[r].proc]
  BY <1>1 DEF RequestSound
<1> QED BY <1>3, <1>4, <1>5 DEF RequestSound

(* Steps that only settle requests, or move the stages of nothing but the process. *)
LEMMA QuietOK ==
  ASSUME IInv, TypeOK', UNCHANGED job,
         \A r \in Requests :
           /\ RequestOK(request'[r])
           /\ \/ request'[r] = request[r]
              \/ /\ ~request'[r].pending /\ request'[r].stage \in {request[r].stage, "done"}
                 /\ request'[r].proc = request[r].proc /\ request'[r].key = request[r].key
           /\ request'[r].pending => \A outcome \in Finished :
                <<request[r].key, outcome>> \in stream[request[r].proc]
                  => <<request[r].key, outcome>> \in stream'[request[r].proc],
         \A p \in Procs : life'[p] \in {"closing", "stopped"} => life'[p] = life[p],
         \A p \in Procs : listener[p] = "ready" => listener'[p] = "ready"
  PROVE  IInv'
<1>1. \A r \in Requests : RequestSound(r)'
  BY PassesOK
<1>2. NoJobAfterStop'
  BY DEF IInv, NoJobAfterStop
<1> QED BY <1>1, <1>2 DEF IInv

(* Steps of BullMQ: the requests and the processes stay, a finished job is announced. *)
LEMMA JobStepOK ==
  ASSUME IInv, TypeOK', UNCHANGED <<life, listener, request>>,
         NEW k \in Jobs, \A j \in Jobs \ {k} : job'[j] = job[j],
         \A p \in Procs : job'[k].by = p => job[k].by = p \/ life[p] # "stopped",
         \A p \in Procs : stream[p] \subseteq stream'[p],
         job'[k].state \in Finished => \E outcome \in Finished : \A p \in Procs :
           listener[p] = "ready" => <<k, outcome>> \in stream'[p]
  PROVE  IInv'
<1>1. ASSUME NEW r \in Requests PROVE RequestSound(r)'
  <2>1. RequestSound(r) /\ RequestOK(request[r]) /\ request' = request
    BY DEF IInv
  <2>2. CASE ~(request[r].pending /\ request[r].stage = "done")
    BY <2>1, <2>2 DEF RequestSound
  <2>3. CASE request[r].pending /\ request[r].stage = "done"
    <3>1. /\ request[r].proc \in Procs /\ request[r].key \in Jobs
          /\ listener[request[r].proc] = "ready"
      BY <2>1, <2>3 DEF RequestOK, RequestSound, Listens
    <3>2. CASE request[r].key = k
      BY <2>1, <3>1, <3>2 DEF RequestSound
    <3>3. CASE request[r].key # k
      BY <2>1, <3>1, <3>3 DEF RequestSound
    <3> QED BY <3>2, <3>3
  <2> QED BY <2>2, <2>3
<1>2. NoJobAfterStop'
  BY DEF IInv, NoJobAfterStop
<1> QED BY <1>1, <1>2 DEF IInv

(* A step of one request's enqueue task that touches no other request. *)
LEMMA TaskStepOK ==
  ASSUME IInv, TypeOK', UNCHANGED <<life, stream, job>>, NEW r \in Requests,
         \A s \in Requests \ {r} : request'[s] = request[s],
         RequestOK(request'[r]), RequestSound(r)',
         \A p \in Procs : listener[p] = "ready" => listener'[p] = "ready"
  PROVE  IInv'
<1>1. \A s \in Requests : RequestSound(s)' /\ RequestOK(request'[s])
  BY PassesOK DEF IInv
<1>2. NoJobAfterStop'
  BY DEF IInv, NoJobAfterStop
<1> QED BY <1>1, <1>2 DEF IInv

(* emit() and its enqueue task, step by step. *)
LEMMA EnqueueIInv ==
  ASSUME IInv, NEW r \in Requests, EnqueueStep(r)
  PROVE  IInv'
<1>1. /\ request \in [Requests -> RequestRecords] /\ request[r] \in RequestRecords
      /\ RequestOK(request[r]) /\ RequestSound(r)
  BY DEF IInv, TypeOK
<1>2. request[r].stage # "unsent" /\ request[r].proc \in Procs /\ request[r].key \in Jobs
  BY <1>1 DEF EnqueueStep, OwnsCompletions, AddJob, ReadState, ApplyState, EnqueueFails,
              RequestOK, Finished
<1>3. CASE OwnsCompletions(r)
  <2> DEFINE g == MapJobId([request[r] EXCEPT !.stage = "adding"])
  <2>1. /\ request' = [request EXCEPT ![r] = g] /\ listener[request[r].proc] = "ready"
        /\ request[r].stage = "connecting" /\ UNCHANGED <<job, life, worker, listener, stream, stops>>
    BY <1>3 DEF OwnsCompletions
  <2>2. /\ g \in RequestRecords /\ g.stage = "adding" /\ g.mapped = TRUE
        /\ g.pending = request[r].pending /\ g.outcome = request[r].outcome
        /\ g.proc = request[r].proc /\ g.key = request[r].key
    BY <1>1 DEF MapJobId, RequestRecords, Stages
  <2> HIDE DEF g
  <2>3. RequestOK(g)
    BY <1>1, <1>2, <2>1, <2>2 DEF RequestOK
  <2>4. /\ request'[r] = g /\ \A s \in Requests \ {r} : request'[s] = request[s]
        /\ request' \in [Requests -> RequestRecords]
    BY <1>1, <2>1, <2>2
  <2>5. RequestSound(r)'
    BY <1>1, <1>2, <2>1, <2>2, <2>4 DEF RequestSound
  <2>6. TypeOK'
    BY <2>1, <2>4 DEF IInv, TypeOK
  <2> QED BY <2>1, <2>3, <2>4, <2>5, <2>6, TaskStepOK
<1>4. CASE AddJob(r)
  <2> DEFINE g == [request[r] EXCEPT !.stage = "checking"]
             k == request[r].key
  <2>1. /\ request' = [request EXCEPT ![r] = g] /\ request[r].stage = "adding"
        /\ job' = [job EXCEPT ![k] = IF @.state = "none" THEN [NoJob EXCEPT !.state = "waiting"]
                                     ELSE @]
        /\ UNCHANGED <<life, worker, listener, stream, stops>>
    BY <1>1, <1>4 DEF AddJob
  <2>2. /\ g \in RequestRecords /\ g.stage = "checking" /\ g.mapped = request[r].mapped
        /\ g.pending = request[r].pending /\ g.outcome = request[r].outcome
        /\ g.proc = request[r].proc /\ g.key = request[r].key
    BY <1>1 DEF RequestRecords, Stages
  <2> HIDE DEF g
  <2>3. RequestOK(g)
    BY <1>1, <1>2, <2>1, <2>2 DEF RequestOK
  <2>4. /\ request'[r] = g /\ \A s \in Requests \ {r} : request'[s] = request[s]
        /\ request' \in [Requests -> RequestRecords]
    BY <1>1, <2>1, <2>2
  <2>5. /\ job' \in [Jobs -> JobRecords]
        /\ \A j \in Jobs : job'[j] = job[j] \/ (job'[j].state = "waiting" /\ job'[j].by = None)
    <3>1. /\ [NoJob EXCEPT !.state = "waiting"] \in JobRecords
          /\ [NoJob EXCEPT !.state = "waiting"].state = "waiting"
          /\ [NoJob EXCEPT !.state = "waiting"].by = None
      BY DEF NoJob, JobRecords
    <3> QED BY <2>1, <3>1 DEF IInv, TypeOK
  <2>6. TypeOK'
    BY <2>1, <2>4, <2>5 DEF IInv, TypeOK
  <2>7. RequestSound(r)'
    BY <1>1, <1>2, <2>1, <2>2, <2>4 DEF RequestSound, Listens, Finished
  <2>8. \A s \in Requests \ {r} : RequestSound(s)' /\ RequestOK(request'[s])
    <3> SUFFICES ASSUME NEW s \in Requests \ {r}
                 PROVE  RequestSound(s)' /\ RequestOK(request'[s])
      OBVIOUS
    <3>a. request'[s] = request[s] /\ RequestOK(request[s])
      BY <2>4 DEF IInv
    <3>1. request[s].pending => request[s].key \in Jobs
      BY <3>a DEF RequestOK, Unsent
    <3>2. request'[s].pending /\ job'[request[s].key].state \in Finished =>
            job[request[s].key].state \in Finished
      BY <2>5, <3>a, <3>1 DEF Finished
    <3> QED BY <2>1, <3>a, <3>2, PassesOK
  <2>9. NoJobAfterStop'
    <3> SUFFICES ASSUME NEW p \in Procs, life[p] = "stopped", NEW j \in Jobs
                 PROVE  job'[j].by # p
      BY <2>1 DEF NoJobAfterStop
    <3>1. job[j].by # p
      BY DEF IInv, NoJobAfterStop
    <3> QED BY <2>5, <3>1, RequestAssumption
  <2> QED BY <2>3, <2>4, <2>6, <2>7, <2>8, <2>9 DEF IInv
<1>5. CASE ReadState(r)
  <2> DEFINE state == job[request[r].key].state
             g == [request[r] EXCEPT !.stage = IF state \in Finished THEN state ELSE "done"]
  <2>1. /\ request' = [request EXCEPT ![r] = g] /\ request[r].stage = "checking"
        /\ UNCHANGED <<job, life, worker, listener, stream, stops>>
    BY <1>1, <1>5 DEF ReadState
  <2>2. /\ g \in RequestRecords /\ g.stage = (IF state \in Finished THEN state ELSE "done")
        /\ g.mapped = request[r].mapped
        /\ g.pending = request[r].pending /\ g.outcome = request[r].outcome
        /\ g.proc = request[r].proc /\ g.key = request[r].key
    BY <1>1 DEF RequestRecords, Stages
  <2> HIDE DEF g
  <2>3. RequestOK(g)
    BY <1>1, <1>2, <2>1, <2>2 DEF RequestOK, Finished
  <2>4. /\ request'[r] = g /\ \A s \in Requests \ {r} : request'[s] = request[s]
        /\ request' \in [Requests -> RequestRecords]
    BY <1>1, <2>1, <2>2
  <2>5. RequestSound(r)'
    BY <1>1, <1>2, <2>1, <2>2, <2>4 DEF RequestSound, Listens, Finished
  <2>6. TypeOK'
    BY <2>1, <2>4 DEF IInv, TypeOK
  <2> QED BY <2>1, <2>3, <2>4, <2>5, <2>6, TaskStepOK
<1>6. CASE ApplyState(r)
  <2> DEFINE settled == SettleJob(request[r].proc, request[r].key, request[r].stage)
             g == [settled[r] EXCEPT !.stage = "done"]
  <2>1. /\ request' = [settled EXCEPT ![r].stage = "done"] /\ request[r].stage \in Finished
        /\ UNCHANGED <<job, life, worker, listener, stream, stops>>
    BY <1>6 DEF ApplyState
  <2>2. /\ settled \in [Requests -> RequestRecords]
        /\ \A s \in Requests :
             LET q == request[s]
                 h == settled[s]
             IN  /\ RequestOK(h) /\ h.stage = q.stage /\ h.proc = q.proc /\ h.key = q.key
                 /\ h.pending =>
                      h = q /\ ~(q.proc = request[r].proc /\ q.key = request[r].key /\ q.mapped)
    BY <1>2, <2>1, SettleJobOK
  <2> HIDE DEF settled
  <2>3. ~settled[r].pending
    BY <1>1, <2>1, <2>2 DEF RequestOK, Finished
  <2>4. /\ g \in RequestRecords /\ g.stage = "done" /\ g.mapped = settled[r].mapped
        /\ g.pending = settled[r].pending /\ g.outcome = settled[r].outcome
        /\ g.proc = settled[r].proc /\ g.key = settled[r].key
    BY <2>2 DEF RequestRecords, Stages
  <2>5. request' = [settled EXCEPT ![r] = g]
    BY <2>1, <2>2
  <2> HIDE DEF g
  <2>6. RequestOK(g)
    BY <1>2, <2>2, <2>3, <2>4 DEF RequestOK
  <2>7. request' \in [Requests -> RequestRecords]
    BY <2>2, <2>4, <2>5
  <2>8. \A s \in Requests :
          /\ RequestOK(request'[s])
          /\ \/ request'[s] = request[s]
             \/ /\ ~request'[s].pending /\ request'[s].stage \in {request[s].stage, "done"}
                /\ request'[s].proc = request[s].proc /\ request'[s].key = request[s].key
    <3> SUFFICES ASSUME NEW s \in Requests
                 PROVE  /\ RequestOK(request'[s])
                        /\ \/ request'[s] = request[s]
                           \/ /\ ~request'[s].pending
                              /\ request'[s].stage \in {request[s].stage, "done"}
                              /\ request'[s].proc = request[s].proc
                              /\ request'[s].key = request[s].key
      OBVIOUS
    <3>1. request'[s] = IF s = r THEN g ELSE settled[s]
      BY <2>2, <2>5
    <3> QED BY <2>2, <2>3, <2>4, <2>6, <3>1
  <2>9. TypeOK'
    BY <2>1, <2>7 DEF IInv, TypeOK
  <2> QED BY <2>1, <2>8, <2>9, QuietOK
<1>7. CASE EnqueueFails(r)
  <2> DEFINE g == [Settle(request[r], "failed") EXCEPT !.stage = "done"]
  <2>1. /\ request' = [request EXCEPT ![r] = g]
        /\ UNCHANGED <<job, life, worker, listener, stream, stops>>
    BY <1>1, <1>7 DEF EnqueueFails
  <2>2. /\ g \in RequestRecords /\ RequestOK(g) /\ ~g.pending /\ g.stage = "done"
        /\ g.proc = request[r].proc /\ g.key = request[r].key
    BY <1>1, <1>2, SettleDoneOK DEF Verdicts, Finished
  <2> HIDE DEF g
  <2>3. /\ request'[r] = g /\ \A s \in Requests \ {r} : request'[s] = request[s]
        /\ request' \in [Requests -> RequestRecords]
    BY <1>1, <2>1, <2>2
  <2>4. RequestSound(r)'
    BY <1>1, <2>1, <2>2, <2>3, PassesOK
  <2>5. TypeOK'
    BY <2>1, <2>3 DEF IInv, TypeOK
  <2> QED BY <2>1, <2>2, <2>3, <2>4, <2>5, TaskStepOK
<1> QED BY <1>3, <1>4, <1>5, <1>6, <1>7 DEF EnqueueStep

(* The steps of BullMQ and of its workers. *)
LEMMA JobIInv ==
  ASSUME IInv, NEW k \in Jobs,
         \/ RemoveJob(k)
         \/ \E p \in Procs : Take(p, k) \/ HandlerSettles(p, k)
  PROVE  IInv'
<1> USE DEF IInv
<1>1. job \in [Jobs -> JobRecords] /\ job[k] \in JobRecords /\ NoJob \in JobRecords
  BY DEF TypeOK, NoJob, JobRecords
<1>2. CASE RemoveJob(k)
  <2>1. /\ job' = [job EXCEPT ![k] = NoJob]
        /\ UNCHANGED <<life, worker, listener, stream, request, stops>>
    BY <1>2 DEF RemoveJob
  <2>2. TypeOK' /\ job'[k] = NoJob
    BY <1>1, <2>1 DEF TypeOK
  <2>3. NoJob.state = "none" /\ NoJob.by = None
    BY DEF NoJob
  <2> QED BY <1>1, <2>1, <2>2, <2>3, RequestAssumption, JobStepOK DEF Finished
<1>3. ASSUME NEW p \in Procs, Take(p, k) PROVE IInv'
  <2> DEFINE j == [job[k] EXCEPT !.state = "active", !.by = p]
  <2>1. /\ job' = [job EXCEPT ![k] = j] /\ life[p] \in {"running", "stopping"}
        /\ UNCHANGED <<life, worker, listener, stream, request, stops>>
    BY <1>1, <1>3 DEF Take
  <2>2. j \in JobRecords /\ j.state = "active" /\ j.by = p
    BY <1>1 DEF JobRecords
  <2> HIDE DEF j
  <2>3. TypeOK' /\ job'[k] = j /\ \A i \in Jobs \ {k} : job'[i] = job[i]
    BY <1>1, <2>1, <2>2 DEF TypeOK
  <2>4. \A q \in Procs : job'[k].by = q => job[k].by = q \/ life[q] # "stopped"
    BY <2>1, <2>2, <2>3
  <2>5. job'[k].state \notin Finished
    BY <2>2, <2>3 DEF Finished
  <2> QED BY <2>1, <2>3, <2>4, <2>5, JobStepOK
<1>4. ASSUME NEW p \in Procs, HandlerSettles(p, k) PROVE IInv'
  <2> DEFINE completed == [NoJob EXCEPT !.state = "completed"]
             failed == [NoJob EXCEPT !.state = "failed"]
             again == [state |-> "waiting", tries |-> job[k].tries + 1, by |-> None]
  <2>1. /\ completed \in JobRecords /\ completed.by = None
        /\ failed \in JobRecords /\ failed.by = None
        /\ again \in JobRecords /\ again.by = None /\ again.state = "waiting"
    BY <1>1 DEF NoJob, JobRecords, Finished
  <2>2. UNCHANGED <<life, worker, listener, request, stops>>
    BY <1>4 DEF HandlerSettles, HandlerReturns, HandlerThrows
  <2>3. \/ job' = [job EXCEPT ![k] = completed] /\ Announce(k, "completed", p)
        \/ job' = [job EXCEPT ![k] = failed] /\ Announce(k, "failed", p)
        \/ job' = [job EXCEPT ![k] = again] /\ UNCHANGED stream
    BY <1>1, <1>4 DEF HandlerSettles, HandlerReturns, HandlerThrows
  <2> HIDE DEF completed, failed, again
  <2>4. /\ job' \in [Jobs -> JobRecords] /\ job'[k].by = None
        /\ \A i \in Jobs \ {k} : job'[i] = job[i]
    BY <1>1, <2>1, <2>3
  <2>5. /\ stream' \in [Procs -> SUBSET (Jobs \X Finished)]
        /\ \A q \in Procs : stream[q] \subseteq stream'[q]
    <3>1. ASSUME NEW outcome \in Finished, Announce(k, outcome, p)
          PROVE  /\ stream' \in [Procs -> SUBSET (Jobs \X Finished)]
                 /\ \A q \in Procs : stream[q] \subseteq stream'[q]
      BY <3>1 DEF Announce, TypeOK
    <3>2. CASE UNCHANGED stream
      BY <3>2 DEF TypeOK
    <3> QED BY <2>3, <3>1, <3>2 DEF Finished
  <2>6. TypeOK'
    BY <2>2, <2>4, <2>5 DEF TypeOK
  <2>7. \A q \in Procs : job'[k].by # q
    BY <2>4, RequestAssumption
  <2>8. job'[k].state \in Finished => \E outcome \in Finished : \A q \in Procs :
          listener[q] = "ready" => <<k, outcome>> \in stream'[q]
    <3>1. \A outcome \in Finished : Announce(k, outcome, p) =>
            \A q \in Procs : listener[q] = "ready" => <<k, outcome>> \in stream'[q]
      BY DEF Announce
    <3>2. CASE UNCHANGED stream /\ job' = [job EXCEPT ![k] = again]
      BY <1>1, <2>1, <3>2 DEF Finished
    <3> QED BY <2>3, <3>1, <3>2 DEF Finished
  <2> QED BY <2>2, <2>4, <2>5, <2>6, <2>7, <2>8, JobStepOK
<1> QED BY <1>2, <1>3, <1>4

(* Processes end: stop() reaches its last step, or the process crashes. *)
LEMMA ProcessEnds ==
  ASSUME IInv, TypeOK', NEW p \in Procs, life'[p] \in {"stopped", "crashed"},
         \A s \in Procs \ {p} : /\ life'[s] = life[s] /\ listener'[s] = listener[s]
                                /\ stream'[s] = stream[s],
         \A r \in Requests :
           IF request[r].proc = p
           THEN /\ RequestOK(request'[r]) /\ request'[r].proc = p
                /\ ~request'[r].pending /\ request'[r].stage = "done"
           ELSE request'[r] = request[r],
         \A k \in Jobs : job'[k] = job[k] \/ (job'[k].state = "waiting" /\ job'[k].by = None),
         life'[p] = "stopped" => \A k \in Jobs : job[k].by # p
  PROVE  IInv'
<1>1. ASSUME NEW r \in Requests, request[r].proc = p PROVE RequestSound(r)' /\ RequestOK(request'[r])
  BY <1>1 DEF RequestSound, Listens, Finished
<1>2. ASSUME NEW r \in Requests, request[r].proc # p PROVE RequestSound(r)' /\ RequestOK(request'[r])
  <2>1. /\ request'[r] = request[r] /\ RequestOK(request[r]) /\ RequestSound(r)
    BY <1>2 DEF IInv
  <2>2. CASE request[r].stage = "unsent"
    <3>1. request'[r] = Unsent /\ Unsent.proc = None /\ ~Unsent.pending /\ Unsent.stage = "unsent"
      BY <2>1, <2>2 DEF RequestOK, Unsent
    <3> QED BY <2>1, <3>1, RequestAssumption DEF RequestSound, Listens, Finished
  <2>3. CASE request[r].stage # "unsent"
    <3>1. /\ request[r].proc \in Procs \ {p} /\ request[r].key \in Jobs
      BY <1>2, <2>1, <2>3 DEF RequestOK
    <3>2. /\ life'[request[r].proc] = life[request[r].proc]
          /\ listener'[request[r].proc] = listener[request[r].proc]
          /\ stream'[request[r].proc] = stream[request[r].proc]
          /\ job'[request[r].key].state \in Finished => job[request[r].key].state \in Finished
      BY <3>1 DEF Finished
    <3> QED BY <2>1, <3>1, <3>2 DEF RequestSound
  <2> QED BY <2>2, <2>3
<1>3. NoJobAfterStop'
  <2> SUFFICES ASSUME NEW s \in Procs, life'[s] = "stopped", NEW k \in Jobs PROVE job'[k].by # s
    BY DEF NoJobAfterStop
  <2>1. job[k].by # s
    BY DEF IInv, NoJobAfterStop
  <2> QED BY <2>1, RequestAssumption
<1> QED BY <1>1, <1>2, <1>3 DEF IInv

LEMMA StopIInv ==
  ASSUME IInv, NEW p \in Procs, StopBegins(p) \/ StopStep(p) \/ Start(p) \/ Crash(p)
  PROVE  IInv'
<1>1. /\ request \in [Requests -> RequestRecords] /\ stops \in Nat /\ stops <= MaxStops
      /\ \A r \in Requests : request[r] \in RequestRecords /\ RequestOK(request[r])
      /\ \A r \in Requests : request[r].proc = p => request[r].stage # "unsent"
      /\ "failed" \in Verdicts
  BY RequestAssumption DEF IInv, TypeOK, RequestOK, Unsent, Verdicts, Finished
<1> DEFINE done(r) == [Settle(request[r], "failed") EXCEPT !.stage = "done"]
           gone(r) == [Settle(request[r], "failed") EXCEPT !.stage = "done", !.mapped = FALSE]
           told(r) == [Settle(request[r], "failed") EXCEPT !.mapped = FALSE]
<1>2. \A r \in Requests : request[r].proc = p =>
        /\ done(r) \in RequestRecords /\ RequestOK(done(r)) /\ ~done(r).pending
        /\ done(r).stage = "done" /\ done(r).proc = p /\ done(r).key = request[r].key
        /\ gone(r) \in RequestRecords /\ RequestOK(gone(r)) /\ ~gone(r).pending
        /\ gone(r).stage = "done" /\ gone(r).proc = p
        /\ told(r) \in RequestRecords /\ (request[r].stage = "done" => RequestOK(told(r)))
        /\ ~told(r).pending /\ told(r).stage = request[r].stage /\ told(r).proc = p
  <2> SUFFICES ASSUME NEW r \in Requests, request[r].proc = p
               PROVE  /\ done(r) \in RequestRecords /\ RequestOK(done(r)) /\ ~done(r).pending
                      /\ done(r).stage = "done" /\ done(r).proc = p
                      /\ done(r).key = request[r].key
                      /\ gone(r) \in RequestRecords /\ RequestOK(gone(r)) /\ ~gone(r).pending
                      /\ gone(r).stage = "done" /\ gone(r).proc = p
                      /\ told(r) \in RequestRecords
                      /\ (request[r].stage = "done" => RequestOK(told(r)))
                      /\ ~told(r).pending /\ told(r).stage = request[r].stage
                      /\ told(r).proc = p
    BY Zenon
  <2>1. /\ request[r] \in RequestRecords /\ RequestOK(request[r])
        /\ request[r].stage # "unsent"
    BY <1>1
  <2>2. LET g == [Settle(request[r], "failed") EXCEPT !.stage = "done"]
            h == [Settle(request[r], "failed") EXCEPT !.stage = "done", !.mapped = FALSE]
            i == [Settle(request[r], "failed") EXCEPT !.mapped = FALSE]
        IN  /\ g \in RequestRecords /\ RequestOK(g) /\ ~g.pending /\ g.stage = "done"
            /\ h \in RequestRecords /\ RequestOK(h) /\ ~h.pending /\ h.stage = "done"
            /\ i \in RequestRecords /\ (request[r].stage = "done" => RequestOK(i))
            /\ ~i.pending /\ i.stage = request[r].stage
            /\ \A j \in {g, h, i} : j.proc = request[r].proc /\ j.key = request[r].key
    BY <1>1, <2>1, SettleDoneOK
  <2> QED BY <2>2
<1> HIDE DEF done, gone, told
<1>3. CASE StopBegins(p)
  <2>1. /\ UNCHANGED <<job, worker, listener, stream>> /\ stops' = stops + 1 /\ stops < MaxStops
        /\ life' = [life EXCEPT ![p] = "stopping"]
        /\ request' = [r \in Requests |-> IF request[r].proc = p /\ request[r].stage = "connecting"
                                          THEN done(r) ELSE request[r]]
    BY <1>3 DEF StopBegins, done
  <2>2. request' \in [Requests -> RequestRecords]
    BY <1>1, <1>2, <2>1
  <2>c. stops' = stops + 1 /\ stops < MaxStops
    BY <2>1
  <2>a. stops' \in 0 .. MaxStops
    BY <1>1, <2>c, RequestAssumption
  <2>b. life' \in [Procs -> Lives]
    BY <2>1 DEF IInv, TypeOK, Lives
  <2>3. TypeOK'
    BY <2>1, <2>2, <2>a, <2>b DEF IInv, TypeOK
  <2>4. \A r \in Requests :
          /\ RequestOK(request'[r])
          /\ \/ request'[r] = request[r]
             \/ /\ ~request'[r].pending /\ request'[r].stage \in {request[r].stage, "done"}
                /\ request'[r].proc = request[r].proc /\ request'[r].key = request[r].key
    BY <1>1, <1>2, <2>1
  <2>5. \A s \in Procs : life'[s] \in {"closing", "stopped"} => life'[s] = life[s]
    BY <2>1 DEF IInv, TypeOK
  <2> QED BY <2>1, <2>3, <2>4, <2>5, QuietOK
<1>4. CASE CloseWorkers(p)
  <2>1. /\ UNCHANGED <<job, worker, listener, stream, request, stops>>
        /\ life' = [life EXCEPT ![p] = "closing"]
        /\ \A r \in Requests : request[r].proc = p => request[r].stage = "done"
    BY <1>4 DEF CloseWorkers, RequestsOf
  <2>2. TypeOK'
    BY <2>1 DEF IInv, TypeOK, Lives
  <2>3. \A s \in Procs : life'[s] = IF s = p THEN "closing" ELSE life[s]
    BY <2>1 DEF IInv, TypeOK
  <2>4. \A r \in Requests : RequestSound(r)'
    BY <2>1, <2>3 DEF IInv, RequestSound
  <2>5. NoJobAfterStop'
    BY <2>1, <2>3 DEF IInv, NoJobAfterStop
  <2> QED BY <2>1, <2>2, <2>4, <2>5 DEF IInv
<1>5. CASE StopTracker(p)
  <2>1. /\ life[p] = "closing" /\ \A k \in Jobs : job[k].by # p /\ UNCHANGED <<job, stops>>
        /\ life' = [life EXCEPT ![p] = "stopped"] /\ worker' = [worker EXCEPT ![p] = FALSE]
        /\ request' = [r \in Requests |-> IF request[r].proc = p THEN told(r) ELSE request[r]]
        /\ listener' = [listener EXCEPT ![p] = "none"] /\ stream' = [stream EXCEPT ![p] = {}]
    BY <1>5 DEF StopTracker, told
  <2>2. \A r \in Requests : request[r].proc = p => request[r].stage = "done"
    BY <2>1 DEF IInv, RequestSound
  <2>3. request' \in [Requests -> RequestRecords]
    BY <1>1, <1>2, <2>1
  <2>a. /\ life' \in [Procs -> Lives] /\ worker' \in [Procs -> BOOLEAN]
        /\ listener' \in [Procs -> {"none", "connecting", "ready"}]
        /\ stream' \in [Procs -> SUBSET (Jobs \X Finished)]
    BY <2>1 DEF IInv, TypeOK, Lives
  <2>b. job' = job /\ stops' = stops
    BY <1>5 DEF StopTracker
  <2>4. TypeOK'
    BY <2>3, <2>a, <2>b DEF IInv, TypeOK
  <2>5. /\ life'[p] = "stopped"
        /\ \A s \in Procs \ {p} : /\ life'[s] = life[s] /\ listener'[s] = listener[s]
                                  /\ stream'[s] = stream[s]
    BY <2>1 DEF IInv, TypeOK
  <2>6. \A r \in Requests :
          IF request[r].proc = p
          THEN /\ RequestOK(request'[r]) /\ request'[r].proc = p
               /\ ~request'[r].pending /\ request'[r].stage = "done"
          ELSE request'[r] = request[r]
    BY <1>2, <2>1, <2>2
  <2>7. job' = job /\ \A k \in Jobs : job[k].by # p
    BY <1>5 DEF StopTracker
  <2> QED BY <2>4, <2>5, <2>6, <2>7, ProcessEnds
<1>6. CASE Start(p)
  <2>1. /\ UNCHANGED <<job, worker, listener, stream, request, stops>>
        /\ life' = [life EXCEPT ![p] = "running"]
    BY <1>6 DEF Start
  <2>2. TypeOK' /\ \A s \in Procs : life'[s] = IF s = p THEN "running" ELSE life[s]
    BY <2>1 DEF IInv, TypeOK, Lives
  <2>3. \A s \in Procs : life'[s] \in {"closing", "stopped"} => life'[s] = life[s]
    BY <2>2
  <2> QED BY <1>1, <2>1, <2>2, <2>3, QuietOK
<1>7. CASE Crash(p)
  <2>1. /\ stops' = stops + 1 /\ stops < MaxStops
        /\ life' = [life EXCEPT ![p] = "crashed"] /\ worker' = [worker EXCEPT ![p] = FALSE]
        /\ listener' = [listener EXCEPT ![p] = "none"] /\ stream' = [stream EXCEPT ![p] = {}]
        /\ request' = [r \in Requests |-> IF request[r].proc = p THEN gone(r) ELSE request[r]]
        /\ job' = [k \in Jobs |-> IF job[k].by = p
                                  THEN [job[k] EXCEPT !.state = "waiting", !.by = None]
                                  ELSE job[k]]
    BY <1>7 DEF Crash, gone
  <2>2. request' \in [Requests -> RequestRecords]
    BY <1>1, <1>2, <2>1
  <2>3. \A k \in Jobs : /\ job'[k] \in JobRecords
                        /\ \/ job'[k] = job[k]
                           \/ job'[k].state = "waiting" /\ job'[k].by = None
    BY <2>1 DEF IInv, TypeOK, JobRecords
  <2>4. job' \in [Jobs -> JobRecords]
    BY <2>1, <2>3
  <2>c. stops' = stops + 1 /\ stops < MaxStops
    BY <2>1
  <2>a. stops' \in 0 .. MaxStops
    BY <1>1, <2>c, RequestAssumption
  <2>b. /\ life' \in [Procs -> Lives] /\ worker' \in [Procs -> BOOLEAN]
        /\ listener' \in [Procs -> {"none", "connecting", "ready"}]
        /\ stream' \in [Procs -> SUBSET (Jobs \X Finished)]
    BY <2>1 DEF IInv, TypeOK, Lives
  <2>5. TypeOK'
    BY <2>2, <2>4, <2>a, <2>b DEF TypeOK
  <2>6. /\ life'[p] = "crashed"
        /\ \A s \in Procs \ {p} : /\ life'[s] = life[s] /\ listener'[s] = listener[s]
                                  /\ stream'[s] = stream[s]
    BY <2>1 DEF IInv, TypeOK
  <2>7. \A r \in Requests :
          IF request[r].proc = p
          THEN /\ RequestOK(request'[r]) /\ request'[r].proc = p
               /\ ~request'[r].pending /\ request'[r].stage = "done"
          ELSE request'[r] = request[r]
    BY <1>2, <2>1
  <2> QED BY <2>3, <2>5, <2>6, <2>7, ProcessEnds
<1> QED BY <1>3, <1>4, <1>5, <1>6, <1>7 DEF StopStep

(* The registration of a request, and of one that comes too late. *)
LEMMA EmitIInv ==
  ASSUME IInv, NEW r \in Requests, NEW p \in Procs, NEW k \in Jobs, Emit(r, p, k)
  PROVE  IInv'
<1> DEFINE g == IF life[p] = "running" THEN Registered(p, k)
                ELSE [Settle(Registered(p, k), "failed") EXCEPT !.stage = "done"]
<1>1. /\ request' = [request EXCEPT ![r] = g]
      /\ listener' = [listener EXCEPT ![p] = IF @ = "none" THEN "connecting" ELSE @]
      /\ UNCHANGED <<job, life, worker, stream, stops>>
  BY DEF Emit
<1>2. /\ g \in RequestRecords /\ g.proc = p /\ g.key = k /\ ~g.mapped
      /\ \/ life[p] = "running" /\ g.stage = "connecting" /\ g.pending /\ g.outcome = "pending"
         \/ g.stage = "done" /\ ~g.pending /\ g.outcome = "failed"
  BY DEF Registered, Settle, RequestRecords, Stages, Outcomes, Finished
<1> HIDE DEF g
<1>3. RequestOK(g)
  BY <1>2 DEF RequestOK
<1>4. /\ request'[r] = g /\ \A s \in Requests \ {r} : request'[s] = request[s]
      /\ request' \in [Requests -> RequestRecords]
  BY <1>1, <1>2 DEF IInv, TypeOK
<1>5. /\ listener' \in [Procs -> {"none", "connecting", "ready"}]
      /\ \A s \in Procs : listener[s] = "ready" => listener'[s] = "ready"
  BY <1>1 DEF IInv, TypeOK
<1>6. TypeOK'
  BY <1>1, <1>4, <1>5 DEF IInv, TypeOK
<1>7. RequestSound(r)'
  BY <1>1, <1>2, <1>4 DEF RequestSound, Listens, Finished
<1> QED BY <1>1, <1>3, <1>4, <1>5, <1>6, <1>7, TaskStepOK

LEMMA TimeoutIInv ==
  ASSUME IInv, NEW r \in Requests, Timeout(r)
  PROVE  IInv'
<1> DEFINE g == Settle(request[r], "timeout")
<1>1. /\ request' = [request EXCEPT ![r] = g]
      /\ UNCHANGED <<job, life, worker, listener, stream, stops>>
  BY DEF Timeout
<1>2. /\ g \in RequestRecords /\ RequestOK(g) /\ ~g.pending
      /\ g.stage = request[r].stage /\ g.proc = request[r].proc /\ g.key = request[r].key
  <2>1. request[r] \in RequestRecords /\ RequestOK(request[r]) /\ "timeout" \in Verdicts
    BY DEF IInv, TypeOK, Verdicts
  <2> QED BY <2>1, SettleOK
<1> HIDE DEF g
<1>3. /\ request'[r] = g /\ \A s \in Requests \ {r} : request'[s] = request[s]
      /\ request' \in [Requests -> RequestRecords]
  BY <1>1, <1>2 DEF IInv, TypeOK
<1>4. TypeOK'
  BY <1>1, <1>3 DEF IInv, TypeOK
<1>5. \A s \in Requests :
        /\ RequestOK(request'[s])
        /\ \/ request'[s] = request[s]
           \/ /\ ~request'[s].pending /\ request'[s].stage \in {request[s].stage, "done"}
              /\ request'[s].proc = request[s].proc /\ request'[s].key = request[s].key
  BY <1>2, <1>3 DEF IInv
<1> QED BY <1>1, <1>4, <1>5, QuietOK

(* An announcement is used up by a process in which nobody waits for the job any more. *)
LEMMA HearIInv ==
  ASSUME IInv, NEW p \in Procs, NEW k \in Jobs, NEW outcome \in Finished, Hear(p, k, outcome)
  PROVE  IInv'
<1>1. /\ request' = SettleJob(p, k, outcome)
      /\ stream' = [stream EXCEPT ![p] = @ \ {<<k, outcome>>}]
      /\ UNCHANGED <<job, life, worker, listener, stops>>
  BY DEF Hear
<1>2. /\ request' \in [Requests -> RequestRecords]
      /\ \A r \in Requests :
           LET q == request[r]
               g == request'[r]
           IN  /\ RequestOK(g) /\ g.stage = q.stage /\ g.proc = q.proc /\ g.key = q.key
               /\ g.pending => g = q /\ ~(q.proc = p /\ q.key = k /\ q.mapped)
  BY <1>1, SettleJobOK
<1>3. stream' \in [Procs -> SUBSET (Jobs \X Finished)]
  BY <1>1 DEF IInv, TypeOK
<1>4. TypeOK'
  BY <1>1, <1>2, <1>3 DEF IInv, TypeOK
<1>5. ASSUME NEW r \in Requests PROVE RequestSound(r)'
  <2> DEFINE q == request[r]
  <2>1. RequestOK(q) /\ RequestSound(r)
    BY DEF IInv
  <2>2. /\ request'[r].stage = q.stage /\ request'[r].proc = q.proc /\ request'[r].key = q.key
        /\ request'[r].pending =>
             request'[r] = q /\ ~(q.proc = p /\ q.key = k /\ q.mapped)
    BY <1>2
  <2>3. CASE ~request'[r].pending
    BY <1>1, <2>1, <2>2, <2>3 DEF RequestSound, Listens
  <2>4. CASE request'[r].pending
    <3>1. request'[r] = q /\ q.pending /\ ~(q.proc = p /\ q.key = k /\ q.mapped)
      BY <2>2, <2>4
    <3>2. CASE q.stage = "done"
      <4>1. q.mapped /\ q.proc \in Procs /\ q.key \in Jobs
        BY <2>1, <3>1, <3>2 DEF RequestOK
      <4>2. \A o \in Finished : <<q.key, o>> \in stream[q.proc] => <<q.key, o>> \in stream'[q.proc]
        BY <1>1, <3>1, <4>1 DEF IInv, TypeOK
      <4> QED BY <1>1, <2>1, <3>1, <4>2 DEF RequestSound
    <3>3. CASE q.stage # "done"
      BY <1>1, <2>1, <3>1, <3>3 DEF RequestSound
    <3> QED BY <3>2, <3>3
  <2> QED BY <2>3, <2>4
<1>6. NoJobAfterStop'
  BY <1>1 DEF IInv, NoJobAfterStop
<1> QED BY <1>2, <1>4, <1>5, <1>6 DEF IInv

(* The worker and the completion stream of a process come up. *)
LEMMA ConnectIInv ==
  ASSUME IInv, NEW p \in Procs, Connect(p) \/ Subscribe(p)
  PROVE  IInv'
<1>1. UNCHANGED <<job, life, stream, request, stops>>
  BY DEF Connect, Subscribe
<1>2. /\ listener' \in [Procs -> {"none", "connecting", "ready"}]
      /\ \A s \in Procs : listener[s] = "ready" => listener'[s] = "ready"
      /\ worker' \in [Procs -> BOOLEAN]
  BY DEF Connect, Subscribe, IInv, TypeOK
<1>3. TypeOK'
  BY <1>1, <1>2 DEF IInv, TypeOK
<1>4. \A r \in Requests : RequestOK(request'[r]) /\ request'[r] = request[r]
  BY <1>1 DEF IInv
<1> QED BY <1>1, <1>2, <1>3, <1>4, QuietOK

LEMMA NextIInv == IInv /\ [Next]_vars => IInv'
<1> SUFFICES ASSUME IInv, [Next]_vars PROVE IInv'
  OBVIOUS
<1>1. ASSUME NEW r \in Requests, NEW p \in Procs, NEW k \in Jobs, Emit(r, p, k) PROVE IInv'
  BY <1>1, EmitIInv
<1>2. ASSUME NEW r \in Requests, EnqueueStep(r) PROVE IInv'
  BY <1>2, EnqueueIInv
<1>3. ASSUME NEW r \in Requests, Timeout(r) PROVE IInv'
  BY <1>3, TimeoutIInv
<1>4. ASSUME NEW p \in Procs, Connect(p) \/ Subscribe(p) PROVE IInv'
  BY <1>4, ConnectIInv
<1>5. ASSUME NEW p \in Procs, StopBegins(p) \/ StopStep(p) \/ Start(p) \/ Crash(p) PROVE IInv'
  BY <1>5, StopIInv
<1>6. ASSUME NEW p \in Procs, NEW k \in Jobs, Take(p, k) \/ HandlerSettles(p, k) PROVE IInv'
  BY <1>6, JobIInv
<1>7. ASSUME NEW p \in Procs, NEW k \in Jobs, NEW outcome \in Finished, Hear(p, k, outcome)
      PROVE IInv'
  BY <1>7, HearIInv
<1>8. ASSUME NEW k \in Jobs, RemoveJob(k) PROVE IInv'
  BY <1>8, JobIInv
<1>9. CASE UNCHANGED vars
  BY <1>9 DEF vars, IInv, TypeOK, RequestSound, NoJobAfterStop
<1> QED BY <1>1, <1>2, <1>3, <1>4, <1>5, <1>6, <1>7, <1>8, <1>9 DEF Next

THEOREM IInvHolds == Spec => []IInv
<1> QED BY InitIInv, NextIInv, PTL DEF Spec

(* Types: what the requests, the workers, stop() and crashes leave in the tracker's maps  *)
(* and in Redis, in any number of processes.                                               *)
THEOREM TypeCorrect == Spec => []TypeOK
<1>1. IInv => TypeOK
  BY DEF IInv
<1> QED BY <1>1, IInvHolds, PTL

(* emit(), the completion tracker and stop(): nobody who waits is forgotten.  The tracker *)
(* knows exactly the callers that wait, the answer of a finished job is on its way to     *)
(* each of them, and no caller and no job outlives stop().                                 *)
THEOREM CallersKnown == Spec => []CallersAreKnown
<1>1. IInv => CallersAreKnown
  <2> SUFFICES ASSUME IInv PROVE CallersAreKnown
    OBVIOUS
  <2>1. TrackerAgrees
    BY DEF IInv, RequestOK, TrackerAgrees
  <2>2. NoLostAnswer
    BY DEF IInv, RequestSound, NoLostAnswer
  <2>3. StopIsOrderly
    BY DEF IInv, RequestSound, NoJobAfterStop, StopIsOrderly, RequestsOf
  <2> QED BY <2>1, <2>2, <2>3 DEF CallersAreKnown
<1> QED BY <1>1, IInvHolds, PTL
=============================================================================
