------------------------------- MODULE Logging -------------------------------
(***************************************************************************)
(* The log of a process (packages/logging/src): Logger's global            *)
(* configuration and the lines logged before it, LogBuffer, which hands    *)
(* lines to the transports at a threshold or on a timer, and the file      *)
(* transport, which batches lines in a microtask, appends the batches      *)
(* concurrently and rotates the file as lines are written to it.           *)
(*                                                                         *)
(* Every line has size 1.  A line is its number at the logger, and its     *)
(* number at the file transport once it gets there.  The file transport's  *)
(* sync mode, and transports that throw, are left out.                     *)
(***************************************************************************)
EXTENDS Integers, FiniteSets, FiniteSetsExt, SequencesExt

CONSTANTS
  Budgets,   \* bounds: how many lines, configure() calls, failing appends and
             \* renames, logging transports and shutdowns a behaviour may have
  FlushAt,   \* bufferSizeThreshold
  MaxBuffer, \* maxBufferSize
  MaxSize,   \* rotate.size
  Keep,      \* rotate.keep
  Breaker    \* MAX_WRITE_FAILURES

ASSUME LoggingAssumption ==
  /\ \A b \in Budgets :
       {b.lines, b.configures, b.failures, b.echoes, b.shutdowns} \subseteq Nat
  /\ {FlushAt, MaxBuffer, Keep, Breaker} \subseteq Nat \ {0}
  /\ MaxSize \in Nat /\ MaxSize > 1

VARIABLES
  logger,   \* Logger's statics and LogBuffer
  file,     \* the file transport, with the counts of what it wrote and deleted
  disk,     \* the existing files, 0 the current one: the last line in each
  shutdown, \* Logger.shutdown(): its step and what had been logged at its call
  left      \* what is left of the budget

logVars == <<logger, file, disk, shutdown, left>>

Unopened == -1        \* an append that has not opened its file
Deleted == Keep + 1   \* an append whose file rotation has unlinked

LogInit ==
  /\ logger = [initialized |-> FALSE, transports |-> "console", pending |-> {},
               enabled |-> TRUE, timer |-> FALSE, buffer |-> {}, dropped |-> 0,
               logged |-> 0]
  /\ file = [size |-> 0, writeBuffer |-> {}, scheduled |-> FALSE, tasks |-> 0,
             flights |-> {}, failures |-> 0, written |-> 0, gone |-> 0,
             botched |-> FALSE, tripped |-> FALSE]
  /\ disk = [i \in {} |-> 0]
  /\ shutdown = [step |-> "no", mark |-> 0, fileMark |-> 0]
  /\ left \in Budgets

\* A step of the log works on s, a record of all it may change.
State == [l |-> logger, f |-> file, d |-> disk]
Becomes(s) == logger' = s.l /\ file' = s.f /\ disk' = s.d

-----------------------------------------------------------------------------
(* The file transport.                                                     *)

\* What rotateFiles can do: 0 is success, Deleted a failure to unlink the
\* oldest file, any other value the failure to rename the file before it.
Rotations(s) ==
  {0} \cup (IF left.failures > 0
            THEN {Deleted} \cup {i + 1 : i \in DOMAIN s.d \ {Keep}} ELSE {})

RotateFiles(s, how) ==
  LET survivors == IF how = Deleted THEN DOMAIN s.d ELSE DOMAIN s.d \ {Keep}
      To(i) == IF i >= how THEN i + 1 ELSE i
      Follows(at) == IF at \in survivors THEN To(at)
                     ELSE IF at = Keep THEN Deleted ELSE at
      lost == IF Keep \in DOMAIN s.d \ survivors
              THEN {s.d[Keep]} \cup {f.last : f \in {g \in s.f.flights : g.at = Keep}}
              ELSE {}
  IN [s EXCEPT
       !.d = [i \in {To(j) : j \in survivors} |->
                s.d[CHOOSE j \in survivors : To(j) = i]],
       !.f.flights = {[f EXCEPT !.at = Follows(@)] : f \in @},
       !.f.size = IF how = 0 THEN 0 ELSE @,
       !.f.gone = Max({@} \cup lost),
       !.f.botched = @ \/ how \in 1 .. Keep]

\* Mutant: currentSize is not reset.
CheckRotationKeepingSize(s, how) ==
  IF s.f.size + 1 >= MaxSize THEN [RotateFiles(s, how) EXCEPT !.f.size = s.f.size] ELSE s

CheckRotation(s, how) ==
  IF s.f.size + 1 >= MaxSize THEN RotateFiles(s, how) ELSE s

\* scheduleFlush
ScheduleFlush(s) ==
  IF s.f.scheduled THEN s
  ELSE [s EXCEPT !.f.scheduled = TRUE, !.f.tasks = @ + 1]

FileWrite(s, how) ==
  LET r == CheckRotation(s, how)
  IN ScheduleFlush([r EXCEPT !.f.size = @ + 1,
                             !.f.written = @ + 1,
                             !.f.writeBuffer = @ \cup {s.f.written + 1}])

\* flush(): the write buffer becomes an append, started by the microtask or
\* by Logger.shutdown().
FileFlush(s, by) ==
  IF s.f.writeBuffer = {} THEN s
  ELSE [s EXCEPT !.f.writeBuffer = {},
                 !.f.scheduled = FALSE,
                 !.f.flights = @ \cup {[last |-> Max(s.f.writeBuffer), by |-> by,
                                        at |-> Unopened]}]

Microtask ==
  /\ file.tasks > 0
  /\ Becomes(FileFlush([State EXCEPT !.f.tasks = @ - 1], "task"))
  /\ UNCHANGED <<shutdown, left>>

\* appendFile opens the current file, which rotation may rename under it.
AppendOpens ==
  /\ file.tasks = 0
  /\ \E f \in file.flights :
       /\ f.at = Unopened
       /\ file' = [file EXCEPT !.flights = (@ \ {f}) \cup {[f EXCEPT !.at = 0]}]
       /\ disk' = [i \in DOMAIN disk \cup {0} |-> IF i \in DOMAIN disk THEN disk[i] ELSE 0]
  /\ UNCHANGED <<logger, shutdown, left>>

AppendSucceeds ==
  /\ file.tasks = 0
  /\ \E f \in file.flights :
       /\ f.at # Unopened
       /\ file' = [file EXCEPT !.flights = @ \ {f},
                               !.failures = IF f.by = "task" THEN 0 ELSE @]
       /\ disk' = [i \in DOMAIN disk |->
                     IF i = f.at THEN Max({disk[i], f.last}) ELSE disk[i]]
  /\ UNCHANGED <<logger, shutdown, left>>

-----------------------------------------------------------------------------
(* LogBuffer.                                                              *)

\* lines are handed to a transport.
Sent(s, transport, count, how) ==
  IF transport = "console" THEN s
  ELSE FoldLeft(LAMBDA t, i : FileWrite(t, how), s, [i \in 1 .. count |-> i])

\* Mutant: a full buffer does not start the timer.
AppendedUntimed(s) ==
  LET n == s.l.logged + 1
      t == [s EXCEPT !.l.logged = n]
  IN IF Cardinality(t.l.buffer) + 1 > MaxBuffer THEN [t EXCEPT !.l.dropped = @ + 1]
     ELSE [t EXCEPT !.l.buffer = @ \cup {n}]

\* LogBuffer.write up to its look at the threshold: the timer is started
\* lazily, and a line that does not fit is dropped and counted.
Appended(s) ==
  LET n == s.l.logged + 1
      t == [s EXCEPT !.l.logged = n, !.l.timer = TRUE]
  IN IF Cardinality(t.l.buffer) + 1 > MaxBuffer THEN [t EXCEPT !.l.dropped = @ + 1]
     ELSE [t EXCEPT !.l.buffer = @ \cup {n}]

\* How many lines a transport may log while it is written to: `writing` keeps
\* their threshold from flushing.
Echoes ==
  {n \in {0, MaxBuffer + 1} :
     n > 0 => logger.enabled /\ left.echoes > 0 /\ left.lines > MaxBuffer + 1}

Echoed(s, echo) == FoldLeft(LAMBDA t, i : Appended(t), s, [i \in 1 .. echo |-> i])

\* LogBuffer.flush: the buffer is swapped, and a warning stands for what was
\* dropped.
Flushed(s, how, echo) ==
  IF s.l.buffer = {} /\ s.l.dropped = 0 THEN s
  ELSE LET count == Cardinality(s.l.buffer) + (IF s.l.dropped > 0 THEN 1 ELSE 0)
           swapped == [s EXCEPT !.l.buffer = {}, !.l.dropped = 0]
       IN Sent(Echoed(swapped, echo), s.l.transports, count, how)

\* What a step takes from the budget.
Spends(lines, how, echo) ==
  left' = [left EXCEPT !.lines = @ - lines - echo,
                       !.failures = @ - (IF how = 0 THEN 0 ELSE 1),
                       !.echoes = @ - (IF echo = 0 THEN 0 ELSE 1)]

TimerTick ==
  /\ logger.timer /\ file.tasks = 0
  /\ \E how \in Rotations(State), echo \in Echoes :
       Becomes(Flushed(State, how, echo)) /\ Spends(0, how, echo)
  /\ UNCHANGED shutdown

-----------------------------------------------------------------------------
(* Logger.                                                                 *)

\* writeLogObject of a logger with the global transports.
LogLine(s, how, echo) ==
  LET n == s.l.logged + 1
      t == [s EXCEPT !.l.logged = n]
  IN IF ~s.l.initialized THEN [t EXCEPT !.l.pending = @ \cup {n}]
     ELSE IF ~s.l.enabled THEN Sent(t, s.l.transports, 1, how)
     ELSE LET a == Appended(s)
          IN IF n \in a.l.buffer /\ Cardinality(a.l.buffer) >= FlushAt
             THEN Flushed(a, how, echo) ELSE a

Log ==
  /\ left.lines > 0
  /\ \E how \in Rotations(State), echo \in Echoes :
       Becomes(LogLine(State, how, echo)) /\ Spends(1, how, echo)
  /\ UNCHANGED shutdown

\* writeLogObject of a logger that was given the file transport.
LogToFile ==
  /\ left.lines > 0
  /\ \E how \in Rotations(State) :
       /\ Becomes(Sent([State EXCEPT !.l.logged = @ + 1], "file", 1, how))
       /\ Spends(1, how, 0)
  /\ UNCHANGED shutdown

\* A failed batch is lost.  onError may log; then the breaker clears what has
\* been written since.
AppendFails ==
  /\ file.tasks = 0 /\ left.failures > 0
  /\ \E f \in file.flights, logs \in BOOLEAN :
       LET failed == [State EXCEPT
                        !.f.flights = @ \ {f},
                        !.f.failures = IF f.by = "task" THEN @ + 1 ELSE @]
           told == IF logs THEN LogLine(failed, 0, 0) ELSE failed
       IN /\ logs => f.by = "task" /\ left.lines > 0
          /\ IF f.by = "task" /\ told.f.failures >= Breaker
             THEN Becomes([told EXCEPT !.f.writeBuffer = {}, !.f.tripped = TRUE])
             ELSE Becomes(told)
          /\ Spends(IF logs THEN 1 ELSE 0, 1, 0)
  /\ UNCHANGED shutdown

\* Logger.configure, with the transports given or not, async or not.
Configured(s, given, async, how) ==
  LET transports == IF given THEN "file" ELSE s.l.transports
      c == [s EXCEPT !.l.transports = transports,
                     !.l.enabled = async,
                     !.l.timer = async,
                     !.l.initialized = TRUE]
  IN IF s.l.initialized THEN c
     ELSE Sent([c EXCEPT !.l.pending = {}], transports, Cardinality(s.l.pending), how)

Configure ==
  /\ left.configures > 0
  /\ \E given, async \in BOOLEAN, how \in Rotations(State) :
       /\ Becomes(Configured(State, given, async, how))
       /\ left' = [left EXCEPT !.configures = @ - 1,
                            !.failures = @ - (IF how = 0 THEN 0 ELSE 1)]
  /\ UNCHANGED shutdown

\* Logger.flush: what was logged before configure() goes to the console.
LoggerFlushed(s, how, echo) == [Flushed(s, how, echo) EXCEPT !.l.pending = {}]

FlushLogger ==
  /\ \E how \in Rotations(State), echo \in Echoes :
       Becomes(LoggerFlushed(State, how, echo)) /\ Spends(0, how, echo)
  /\ UNCHANGED shutdown

-----------------------------------------------------------------------------
(* Logger.shutdown.                                                        *)

\* LogBuffer.shutdown, Logger.flush, and flush() of the transports: the file
\* transport is a global one or was passed, as Logger.shutdown asks for.
ShutdownBegins ==
  /\ shutdown.step = "no" /\ left.shutdowns > 0
  /\ \E how \in Rotations(State), echo \in Echoes :
       LET stopped == Flushed([State EXCEPT !.l.timer = FALSE], how, echo)
           drained == LoggerFlushed(stopped, how, 0)
       IN /\ Becomes(FileFlush(drained, "shutdown"))
          /\ shutdown' = [step |-> "flushing", mark |-> logger.logged,
                          fileMark |-> drained.f.written]
          /\ Spends(0, how, echo)

OwnAppends == {f \in file.flights : f.by = "shutdown"}

\* close() of every transport, once each has flushed or failed to.
ShutdownCloses ==
  /\ shutdown.step = "flushing" /\ OwnAppends = {}
  /\ Becomes(FileFlush(State, "shutdown"))
  /\ shutdown' = [shutdown EXCEPT !.step = "closing"]
  /\ UNCHANGED left

ShutdownEnds ==
  /\ shutdown.step = "closing" /\ OwnAppends = {}
  /\ shutdown' = [shutdown EXCEPT !.step = "done"]
  /\ UNCHANGED <<logger, file, disk, left>>

\* What the event loop does by itself, as long as there is anything of it to
\* do.
EventLoop ==
  \/ Microtask \/ TimerTick
  \/ AppendOpens \/ AppendSucceeds \/ AppendFails
  \/ ShutdownCloses \/ ShutdownEnds

LogNext == Log \/ LogToFile \/ Configure \/ FlushLogger \/ ShutdownBegins \/ EventLoop

LogFairness == WF_logVars(EventLoop)

LogSpec == LogInit /\ [][LogNext]_logVars /\ LogFairness

-----------------------------------------------------------------------------
(* Rotation never deletes one of the last Keep * (MaxSize - 1) lines        *)
(* written, whatever is still buffered or being appended when the files     *)
(* move, unless a rotation failed after it had begun to shift them.         *)
RotationKeepsRecent ==
  file.gone = 0 \/ file.botched \/ file.written - file.gone > Keep * (MaxSize - 1)

(* When Logger.shutdown() resolves, nothing logged before its call waits in *)
(* a buffer: not before configure(), not in LogBuffer, not in the file      *)
(* transport.                                                               *)
ShutdownDrains ==
  shutdown.step = "done" =>
    /\ \A n \in logger.pending \cup logger.buffer : n > shutdown.mark
    /\ \A n \in file.writeBuffer : n > shutdown.fileMark

(* What was logged is neither deleted too early nor left in a buffer.       *)
LinesAreKept == RotationKeepsRecent /\ ShutdownDrains

(* Again and again nothing is held back: with buffering on, what LogBuffer  *)
(* holds or dropped is handed over, and what the file transport holds is    *)
(* appended, unless its breaker ever tripped.                               *)
LinesMoveOn == []<>~(
  \/ logger.enabled /\ (logger.buffer # {} \/ logger.dropped > 0)
  \/ ~file.tripped /\ file.writeBuffer # {})
=============================================================================
