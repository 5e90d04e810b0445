---------------------------- MODULE Singleflight ----------------------------
(***************************************************************************)
(* Singleflight (packages/cache/src/singleflight.ts) for one key: callers  *)
(* of do() share the flight in the map or start one, errors are cached for *)
(* errorTtlMs, and forget(), forgetError() and clear() may come at any     *)
(* time.  Keys do not interact, so clear() is forget() of this key.        *)
(***************************************************************************)
EXTENDS Integers, FiniteSets

CONSTANTS
  MaxFlights,   \* bound: functions started in a behaviour
  Callers,      \* calls of do()
  ErrorTtl,     \* errorTtlMs, in ticks
  SyncThrows,   \* may the function throw before it returns a promise?
  MaxForgets,   \* bound: calls of forget() and clear()
  NoFlight

Flights == 1 .. MaxFlights
Cached == 0    \* no flight: the cached error was thrown

ASSUME SingleflightAssumption ==
  /\ MaxFlights \in Nat /\ ErrorTtl \in Nat /\ MaxForgets \in Nat
  /\ SyncThrows \in BOOLEAN
  /\ NoFlight \notin Int

VARIABLES
  entry,    \* flights.get(key): a flight, or NoFlight
  errorAge, \* errors.get(key): ticks since the error was cached, or NoFlight
  flights,  \* per flight: "unused", "running", "succeeded", "failed" or "threw"
  caller,   \* per caller: NoFlight, the flight it joined, or Cached
  forgets   \* how often forget() or clear() was called

flightVars == <<entry, errorAge, flights, caller, forgets>>

FlightInit ==
  /\ entry = NoFlight
  /\ errorAge = NoFlight
  /\ flights = [f \in Flights |-> "unused"]
  /\ caller = [c \in Callers |-> NoFlight]
  /\ forgets = 0

Running == {f \in Flights : flights[f] = "running"}

IsNext(f) == flights[f] = "unused" /\ \A g \in 1 .. f - 1 : flights[g] # "unused"

\* cachedError && cachedError.until > Date.now()
HasError == errorAge # NoFlight /\ errorAge < ErrorTtl

DoThrowsCached(c) ==
  /\ caller[c] = NoFlight /\ HasError
  /\ caller' = [caller EXCEPT ![c] = Cached]
  /\ UNCHANGED <<entry, errorAge, flights, forgets>>

DoJoins(c) ==
  /\ caller[c] = NoFlight /\ ~HasError /\ entry # NoFlight
  /\ caller' = [caller EXCEPT ![c] = entry]
  /\ UNCHANGED <<entry, errorAge, flights, forgets>>

\* Mutant: a caller starts its own flight without a look at the map.
DoStartsAlways(c, f) ==
  /\ caller[c] = NoFlight /\ ~HasError /\ IsNext(f)
  /\ flights' = [flights EXCEPT ![f] = "running"]
  /\ entry' = f
  /\ caller' = [caller EXCEPT ![c] = f]
  /\ UNCHANGED <<errorAge, forgets>>

DoStarts(c, f) ==
  /\ caller[c] = NoFlight /\ ~HasError /\ entry = NoFlight /\ IsNext(f)
  /\ flights' = [flights EXCEPT ![f] = "running"]
  /\ entry' = f
  /\ caller' = [caller EXCEPT ![c] = f]
  /\ UNCHANGED <<errorAge, forgets>>

\* The function throws before its first await: the whole flight, its finally included,
\* ends before the flight is put into the map, where it stays.
DoStartsAndThrows(c, f) ==
  /\ SyncThrows
  /\ caller[c] = NoFlight /\ ~HasError /\ entry = NoFlight /\ IsNext(f)
  /\ flights' = [flights EXCEPT ![f] = "threw"]
  /\ errorAge' = 0
  /\ entry' = f
  /\ caller' = [caller EXCEPT ![c] = f]
  /\ UNCHANGED forgets

FlightSucceeds(f) ==
  /\ flights[f] = "running"
  /\ flights' = [flights EXCEPT ![f] = "succeeded"]
  /\ errorAge' = NoFlight
  /\ entry' = NoFlight
  /\ UNCHANGED <<caller, forgets>>

\* Mutant: the clean-up runs on success only.
FlightFailsKeepingEntry(f) ==
  /\ flights[f] = "running"
  /\ flights' = [flights EXCEPT ![f] = "failed"]
  /\ errorAge' = 0
  /\ UNCHANGED <<entry, caller, forgets>>

\* The finally deletes the entry of the key, whichever flight holds it.
FlightFails(f) ==
  /\ flights[f] = "running"
  /\ flights' = [flights EXCEPT ![f] = "failed"]
  /\ errorAge' = 0
  /\ entry' = NoFlight
  /\ UNCHANGED <<caller, forgets>>

FlightEnds(f) == FlightSucceeds(f) \/ FlightFails(f)

\* forget(key), and clear() as far as this key goes.
Forget ==
  /\ forgets < MaxForgets
  /\ forgets' = forgets + 1
  /\ entry' = NoFlight
  /\ errorAge' = NoFlight
  /\ UNCHANGED <<flights, caller>>

ForgetError ==
  /\ errorAge' = NoFlight
  /\ UNCHANGED <<entry, flights, caller, forgets>>

Tick ==
  /\ errorAge # NoFlight /\ errorAge < ErrorTtl
  /\ errorAge' = errorAge + 1
  /\ UNCHANGED <<entry, flights, caller, forgets>>

FlightNext ==
  \/ \E c \in Callers :
       \/ DoThrowsCached(c)
       \/ DoJoins(c)
       \/ \E f \in Flights : DoStarts(c, f) \/ DoStartsAndThrows(c, f)
  \/ \E f \in Flights : FlightEnds(f)
  \/ Forget
  \/ ForgetError
  \/ Tick

FlightSpec == FlightInit /\ [][FlightNext]_flightVars

\* The functions settle (an assumption on the caller's code) and time passes.
Fairness == WF_flightVars(Tick \/ \E f \in Flights : FlightEnds(f))

-----------------------------------------------------------------------------
(* Properties. *)

\* Types: what do(), forget() and the end of a flight leave in the two maps.
FlightTypeOK ==
  /\ entry \in Flights \union {NoFlight}
  /\ errorAge \in (0 .. ErrorTtl) \union {NoFlight}
  /\ flights \in [Flights -> {"unused", "running", "succeeded", "failed", "threw"}]
  /\ caller \in [Callers -> Flights \union {NoFlight, Cached}]
  /\ forgets \in 0 .. MaxForgets

\* The herd that do() prevents: one function runs at a time, and each forget() or clear()
\* adds at most one, although the end of a forgotten flight deletes the entry of its
\* successor and lets a third one start.
HerdBound == Cardinality(Running) <= 1 + forgets

\* A flight found in the map is still running, so joining it is worth the wait; a
\* function that threw synchronously is the exception. (the finally of do())
JoinsRunning == entry # NoFlight => flights[entry] \in {"running", "threw"}

\* A call of do() would get an error that is there already: the cached one, or that of
\* the rejected flight that the map still holds.
WouldFail == HasError \/ (entry # NoFlight /\ flights[entry] \in {"failed", "threw"})

\* The map holds a flight that threw synchronously, which only forget() removes.
Stuck == entry # NoFlight /\ flights[entry] = "threw"

\* An old error is not served for ever: again and again a call of do() would run the
\* function or wait for it, and no caller is left with a running flight.  The exception
\* is Stuck: after a function that threw before its first await every call is given that
\* error, long after errorTtlMs, although the documentation says otherwise. (do())
Recovers ==
  /\ []<>(~WouldFail \/ Stuck)
  /\ []<>(\A c \in Callers : caller[c] \in Flights =>
            flights[caller[c]] \in {"succeeded", "failed", "threw"})
=============================================================================
