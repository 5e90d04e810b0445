---------------------------- MODULE Application ----------------------------
(* The application (application.ts) from Ori.create() to the end of the     *)
(* process: listen() and its stages, the hooks of the context               *)
(* (app-context.ts), the start and stop of its systems through the          *)
(* coordinators of events and workflows, and shutdown by stop() or by a     *)
(* signal (lifecycle-manager.ts).  It extends the container, which it       *)
(* fills, validates and resolves from.                                      *)
(*                                                                          *)
(* listen(), the work of a shutdown and the call of stop() that waits for   *)
(* it run side by side: `stage` is where listen() is, `work` where the      *)
(* shutdown is, `shutting` whether a call of stop() waits for it.           *)
EXTENDS Container

CONSTANTS
  Controller,      \* classes that are registered after the validation
  EventConsumer,
  WorkflowConsumer,
  Wirings,         \* what a program may register, with a bound on its events
  Extensions,      \* functions given to use()
  StartupHooks,    \* how many hooks there are of each kind
  ReadyHooks,
  ShutdownHooks

Systems == {"events", "workflows", "websocket"}

ASSUME ApplicationAssumption ==
  /\ {Controller, EventConsumer, WorkflowConsumer} \subseteq Services
  /\ {StartupHooks, ReadyHooks, ShutdownHooks} \subseteq Nat
  /\ \A w \in Wirings :
       /\ DOMAIN w.deps \subseteq Services /\ w.deps \in [DOMAIN w.deps -> Seq(Keys)]
       /\ {w.controller, w.consumer} \subseteq Seq(Keys)
       /\ w.eager \subseteq Services /\ w.uses \subseteq Systems /\ w.budget \in Nat
       /\ {w.token, w.installed, w.factory, w.handling, w.matching} \subseteq BOOLEAN

VARIABLES app, budget

appVars == <<di, wiring, asked, app, budget>>

\* What listen() and the shutdown do to the systems, in this order.
After(sys) == CASE sys = "events" -> "workflows"
                [] sys = "workflows" -> "websocket"
                [] OTHER -> "end"

\* What a coordinator does with the provider it may have.
ProviderStarts(a, sys) == [a EXCEPT !.up = @ \cup ({sys} \cap wiring.uses)]
ProviderStops(a, sys) == [a EXCEPT !.up = @ \ {sys}]

Spend == budget > 0 /\ budget' = budget - 1

AppInit ==
  /\ di = Empty
  /\ wiring \in Wirings
  /\ budget = wiring.budget
  /\ asked = [s \in Services |-> [out |-> "no", alone |-> FALSE]]
  /\ app = [stage |-> "created", hook |-> 0, phase |-> "created",
            deferred |-> <<>>, applied |-> {}, used |-> {}, late |-> {},
            up |-> {}, server |-> FALSE, handlers |-> FALSE, waiting |-> FALSE,
            shutting |-> FALSE, work |-> "none", todo |-> 0, forced |-> FALSE,
            process |-> "alive"]

-----------------------------------------------------------------------------
(* Extensions.                                                              *)

\* The list of what is deferred has not been gone through.  (An extension that
\* itself calls use() adds to the list being iterated.)
ListAhead == app.stage \in {"created", "config"}

\* use(), by the program, an extension, a hook or a handler: run now, or kept for
\* listen() when a factory makes the config, which stays recorded ever after.
Use(e) ==
  /\ app.process = "alive"
  /\ e \notin app.used
  /\ app' = IF ~ wiring.factory
            THEN [app EXCEPT !.used = @ \cup {e}, !.applied = @ \cup {e}]
            ELSE [app EXCEPT !.used = @ \cup {e}, !.deferred = Append(@, e),
                             !.late = IF ListAhead THEN @ ELSE @ \cup {e}]
  /\ UNCHANGED <<di, wiring, asked, budget>>

-----------------------------------------------------------------------------
(* listen().                                                                *)

\* A class that is registered and resolved at once, after the validation and
\* without one of its own.
RegisterLate(acc, s, deps, ends) ==
  IF acc.out # "ok" THEN acc
  ELSE Resolve(Register(acc.st, s, deps), <<s>>, ends)

RegisterControllers(acc, ends) == RegisterLate(acc, Controller, wiring.controller, ends)

RegisterEventConsumers(acc, ends) ==
  IF "events" \in wiring.uses
  THEN RegisterLate(acc, EventConsumer, wiring.consumer, ends) ELSE acc

\* The steps a definition names and those its consumer has must match.
RegisterWorkflowConsumers(acc, ends) ==
  IF "workflows" \notin wiring.uses THEN acc
  ELSE LET done == RegisterLate(acc, WorkflowConsumer, wiring.consumer, ends)
       IN  [done EXCEPT !.out = IF @ = "ok" /\ ~ wiring.matching THEN "mismatch" ELSE @]

InstantiateEager(st, ends) == Resolve(st, SetToSeq(wiring.eager), ends)

\* bootstrap() up to its only await.
Wired(throwing) ==
  LET filled == RegisterProviders(di)
      ends == Ends(throwing)
      eager == InstantiateEager(filled, ends)
      controllers == RegisterControllers(eager, ends)
      consumers == RegisterEventConsumers(controllers, ends)
  IN  IF ~ Validates(filled) THEN [st |-> filled, out |-> "invalid"]
      ELSE RegisterWorkflowConsumers(consumers, ends)

\* The deferred extensions and the whole of bootstrap(), in one turn.
Bootstrap(throwing) ==
  LET wired == Wired(throwing) IN
  /\ di' = wired.st
  /\ app' = [app EXCEPT !.applied = @ \cup Range(app.deferred),
                        !.phase = "bootstrapped",
                        !.stage = IF wired.out = "ok" THEN "subscribing" ELSE "failed"]
  /\ UNCHANGED <<wiring, asked>>

\* The call of listen().  A config factory that is still running is awaited.
Listen ==
  /\ app.process = "alive"
  /\ app.stage = "created"
  /\ IF wiring.factory
     THEN /\ app' = [app EXCEPT !.stage = "config"]
          /\ UNCHANGED <<di, wiring, asked, budget>>
     ELSE \/ Bootstrap({}) /\ UNCHANGED budget
          \/ Spend /\ \E s \in Services : Bootstrap({s})

ConfigReady ==
  /\ app.process = "alive"
  /\ app.stage = "config"
  /\ \/ Bootstrap({}) /\ UNCHANGED budget
     \/ Spend /\ \E s \in Services : Bootstrap({s})

\* What listen() awaits is rejected: it ends there, and takes nothing back.
ListenFails ==
  /\ app.process = "alive"
  /\ app.stage \in {"config", "subscribing", "startup", "ready"} \cup Systems
  /\ Spend
  /\ app' = [app EXCEPT !.stage = "failed"]
  /\ UNCHANGED <<di, wiring, asked>>

\* The systems are started: the startup hooks begin.
StartSystems(a) ==
  [a EXCEPT !.stage = IF StartupHooks = 0 THEN "events" ELSE "startup",
            !.hook = StartupHooks, !.phase = "starting"]

\* The subscriptions of the consumers are there, and bootstrap() is over.
Subscribed ==
  /\ app.process = "alive"
  /\ app.stage = "subscribing"
  /\ app' = StartSystems(app)
  /\ UNCHANGED <<di, wiring, asked, budget>>

\* A startup hook ends; the next one runs, or the systems are started.
StartupHook ==
  /\ app.process = "alive"
  /\ app.stage = "startup"
  /\ app' = [app EXCEPT !.hook = @ - 1, !.stage = IF app.hook = 1 THEN "events" ELSE @]
  /\ UNCHANGED <<di, wiring, asked, budget>>

\* Mutant: the server is opened before the WebSocket provider has started.
StartedServesEarly(sys) ==
  /\ app.process = "alive"
  /\ app.stage = sys
  /\ app' = [ProviderStarts(app, sys) EXCEPT
                        !.stage = IF After(sys) = "end" THEN "ready" ELSE After(sys),
                        !.hook = ReadyHooks,
                        !.server = @ \/ After(sys) = "websocket"]
  /\ UNCHANGED <<di, wiring, asked, budget>>

\* One system has started; after the last one the server is opened and the
\* ready hooks begin.
Started(sys) ==
  /\ app.process = "alive"
  /\ app.stage = sys
  /\ app' = [ProviderStarts(app, sys) EXCEPT
                        !.stage = IF After(sys) = "end" THEN "ready" ELSE After(sys),
                        !.hook = ReadyHooks,
                        !.server = After(sys) = "end"]
  /\ UNCHANGED <<di, wiring, asked, budget>>

ReadyHook ==
  /\ app.process = "alive"
  /\ app.stage = "ready"
  /\ app.hook > 0
  /\ app' = [app EXCEPT !.hook = @ - 1]
  /\ UNCHANGED <<di, wiring, asked, budget>>

RegisterSignalHandlers(a) == [a EXCEPT !.handlers = wiring.handling]

\* finalizeStartup() after the ready hooks, whatever happened meanwhile.
Finalize ==
  /\ app.process = "alive"
  /\ app.stage = "ready"
  /\ app.hook = 0
  /\ app' = [RegisterSignalHandlers(app) EXCEPT !.stage = "listening", !.phase = "ready"]
  /\ UNCHANGED <<di, wiring, asked, budget>>

\* Code that was given the context resolves a service while listen() goes on.
HookResolves(s) ==
  /\ app.process = "alive"
  /\ app.stage = "startup"
  /\ Spend
  /\ \/ ResolveAsync(s) /\ UNCHANGED <<wiring, app>>
     \/ /\ di' = Resolve(di, <<s>>, Ends({})).st
        /\ UNCHANGED <<wiring, asked, app>>

Resolving ==
  /\ app.process = "alive"
  /\ \/ ResolutionStep /\ UNCHANGED budget
     \/ Spend /\ \E s \in Services : ConstructorFails(s)
  /\ UNCHANGED <<wiring, app>>

-----------------------------------------------------------------------------
(* stop() and the shutdown it begins.                                       *)

\* stop() does nothing without a server or while it is already at work.
Stops(a) == a.server /\ ~ a.shutting

Stopping(a) == [a EXCEPT !.shutting = TRUE, !.phase = "stopping", !.forced = FALSE,
                         !.work = "hooks", !.todo = ShutdownHooks]

Stop ==
  /\ app.process = "alive"
  /\ app.stage \in {"ready", "listening", "failed"}
  /\ Stops(app)
  /\ Spend
  /\ app' = Stopping(app)
  /\ UNCHANGED <<di, wiring, asked>>

\* SIGTERM or SIGINT.  Without the handlers the process is killed; with them
\* it exits when the call of stop() returns, which it does at once when
\* another shutdown is under way.
Signal ==
  /\ app.process = "alive"
  /\ Spend
  /\ app' = IF ~ app.handlers THEN [app EXCEPT !.process = "killed"]
            ELSE IF Stops(app) THEN [Stopping(app) EXCEPT !.waiting = TRUE]
            ELSE [app EXCEPT !.process = "exited"]
  /\ UNCHANGED <<di, wiring, asked>>

\* The end of executeGracefulShutdown() and of the stop() that called it:
\* signal handlers and server are gone, and a signal's process exits.
Ended(a) ==
  [a EXCEPT !.shutting = FALSE, !.handlers = FALSE, !.server = FALSE,
            !.process = IF a.waiting THEN "exited" ELSE @]

\* The shutdown work is over; whoever still waits for it goes on.
WorkEnds(a) == app' = IF a.shutting THEN Ended(a) ELSE a

\* A shutdown hook ends or throws, which is logged; after the last one the
\* phase is stopped and the systems follow.
ShutdownHook ==
  /\ app.process = "alive"
  /\ app.work = "hooks"
  /\ app' = IF app.todo > 1 THEN [app EXCEPT !.todo = @ - 1]
            ELSE [app EXCEPT !.todo = 0, !.work = "events", !.phase = "stopped"]
  /\ UNCHANGED <<di, wiring, asked, budget>>

\* A system has stopped.  (Closing the sockets, before the WebSocket
\* provider stops, is part of that step.)
Stopped(sys) ==
  /\ app.process = "alive"
  /\ app.work = sys
  /\ IF After(sys) = "end"
     THEN WorkEnds([ProviderStops(app, sys) EXCEPT !.work = "done"])
     ELSE app' = [ProviderStops(app, sys) EXCEPT !.work = After(sys)]
  /\ UNCHANGED <<di, wiring, asked, budget>>

\* The stop of a system throws: the systems after it are never stopped.
StopFails(sys) ==
  /\ app.process = "alive"
  /\ app.work = sys
  /\ Spend
  /\ WorkEnds([app EXCEPT !.work = "failed"])
  /\ UNCHANGED <<di, wiring, asked>>

\* Mutant: the timeout only gives up waiting and leaves the server open.
TimeoutKeepsServer ==
  /\ app.process = "alive"
  /\ app.shutting
  /\ app' = [app EXCEPT !.shutting = FALSE, !.forced = TRUE, !.handlers = FALSE]
  /\ UNCHANGED <<di, wiring, asked, budget>>

\* The shutdown takes too long: stop() goes on, and so does the work.
Timeout ==
  /\ app.process = "alive"
  /\ app.shutting
  /\ app' = Ended([app EXCEPT !.forced = TRUE])
  /\ UNCHANGED <<di, wiring, asked, budget>>

-----------------------------------------------------------------------------
ListenStep ==
  \/ ConfigReady \/ Subscribed \/ StartupHook \/ ReadyHook \/ Finalize
  \/ \E sys \in Systems : Started(sys)

AppNext ==
  \/ \E e \in Extensions : Use(e)
  \/ Listen
  \/ ListenStep
  \/ ListenFails
  \/ \E s \in DOMAIN wiring.deps : HookResolves(s)
  \/ Resolving
  \/ Stop
  \/ Signal
  \/ ShutdownHook
  \/ \E sys \in Systems : Stopped(sys) \/ StopFails(sys)
  \/ Timeout

AppFairness ==
  /\ WF_appVars(Timeout)
  /\ WF_appVars(app.process = "alive" /\ ResolutionStep /\ UNCHANGED <<wiring, app, budget>>)

AppSpec == AppInit /\ [][AppNext]_appVars /\ AppFairness

-----------------------------------------------------------------------------
Working == app.work \in {"hooks"} \cup Systems

\* Whatever mixture of failing hooks, failing systems, stops, signals and
\* timeouts: an open server has all its systems, consumers and extensions (but
\* what was given to use() after the deferred ones had run, which nothing runs)
\* and no shutdown behind it; a system runs only while listen() is on its way, the
\* server is open or a shutdown still works, unless listen() itself failed
\* before there was a server or the stop of an earlier system threw; and a
\* process that exits by itself has finished its shutdown or run out of time,
\* unless a second signal arrived during the shutdown.
Orderly ==
  /\ app.server /\ ~ app.shutting =>
       /\ app.work = "none"
       /\ app.up = wiring.uses
       /\ app.used \subseteq app.applied \cup app.late
       /\ wiring.eager \cup {Controller} \subseteq di.instances
       /\ "events" \in wiring.uses => EventConsumer \in di.instances
       /\ "workflows" \in wiring.uses => WorkflowConsumer \in di.instances
  /\ app.process = "alive" /\ app.up # {} =>
       \/ app.server
       \/ app.stage \in Systems
       \/ app.stage = "failed" /\ app.work = "none"
       \/ Working
       \/ app.work = "failed"
  /\ app.process = "exited" => ~ Working \/ app.forced \/ app.shutting

\* A signal that is handled ends the process even if a hook or the stop of a
\* system never returns, and every resolveAsync() is answered.
EveryCallEnds ==
  /\ []<>(app.waiting => app.process # "alive")
  /\ []<>(\A s \in Services : asked[s].out = "pending" => app.process # "alive")
=============================================================================
