------------------------------- MODULE Logging -------------------------------
(***************************************************************************)
(* Logging across processes.  The main process configures log4js four      *)
(* times before its children start: for the command line, twice in         *)
(* Stryker's constructor, and as a server.  A child knows one level only,  *)
(* and sends what it logs to that server over a socket, where each         *)
(* appender filters it by its own level.  A child flushes before it says   *)
(* that it is disposed of.  Every event has its number in its process.     *)
(***************************************************************************)
EXTENDS Naturals, Sequences, SequencesExt

CONSTANTS UserLevels,     \* the levels that a user may set
          EventLevels,    \* the levels of the events that a process may log
          LogWorkers,     \* the child processes
          WorkerEvents    \* how many events a child logs, at most

VARIABLES levelsGiven,    \* on the command line, and by the options that are made of it and the config file
          logPhase,       \* which of its configurations the main process has, or how far its shutdown is
          appenders,      \* the levels of the main process's console and file
          level,          \* of its loggers, and of its children's
          events,         \* what was logged, with the levels that the main process had then
          logWorkers,     \* "none", "running", "shuttingDown", "disposed", "dead", or "killed" before it was disposed
          buffered, sent, \* each child's events that are not written yet, and those in its socket
          lostEvents,     \* those that were not written when their process was killed
          console, logFile, unfiled  \* what the appenders have written, and what came when the file was closed

logVars ==
  <<levelsGiven, logPhase, appenders, level, events, logWorkers, buffered, sent, lostEvents, console, logFile, unfiled>>
destinations == <<console, logFile, unfiled>>
childProcesses == <<logWorkers, buffered, sent, lostEvents>>

Severity == [trace |-> 1, debug |-> 2, info |-> 3, warn |-> 4, error |-> 5, fatal |-> 6, off |-> 7]
IsGreaterThanOrEqualTo(a, b) == Severity[a] >= Severity[b]

ASSUME LoggingAssumption == /\ UserLevels \cup EventLevels \subseteq DOMAIN Severity
                            /\ LogWorkers \cap {"main", "log4js"} = {}

BugMaxLevel(a, b) == IF IsGreaterThanOrEqualTo(b, a) THEN b ELSE a
MinLevel(a, b) == IF IsGreaterThanOrEqualTo(b, a) THEN a ELSE b

Default == [console |-> "info", file |-> "off"]
\* What the command line does not set it leaves to the config file, and that to the default.
OverDefault(levels) == [a \in {"console", "file"} |-> IF levels[a] = "unset" THEN Default[a] ELSE levels[a]]
Given == [{"console", "file"} -> UserLevels \cup {"unset"}]

LevelsGiven ==
  {[cli |-> cli, options |-> [a \in {"console", "file"} |-> IF cli[a] = "unset" THEN OverDefault(configFile)[a] ELSE cli[a]]]
     : cli \in Given, configFile \in Given}

InitLogging ==
  /\ logPhase = "start" /\ appenders = Default /\ level = "off" /\ events = {}
  /\ logWorkers = [w \in LogWorkers |-> "none"]
  /\ buffered = [w \in LogWorkers |-> << >>] /\ sent = buffered /\ lostEvents = {}
  /\ console = << >> /\ logFile = << >> /\ unfiled = {}

----------------------------------------------------------------------------
(* The main process *)

ConfigureMainProcess(levels) ==
  /\ appenders' = levels
  /\ level' = MinLevel(levels.console, levels.file)

Configurations == [start |-> "cli", cli |-> "constructing", constructing |-> "configured", configured |-> "serving"]
Configure ==
  /\ logPhase \in DOMAIN Configurations
  /\ logPhase' = Configurations[logPhase]
  /\ ConfigureMainProcess(CASE logPhase = "start" -> OverDefault([levelsGiven.cli EXCEPT !.file = "unset"])
                            [] logPhase = "cli"   -> OverDefault(levelsGiven.cli)
                            [] OTHER              -> levelsGiven.options)
  /\ UNCHANGED <<levelsGiven, events, childProcesses, destinations>>

\* MultiAppender: each appender has its own level; the console excludes log4js's own events, the file may be closed.
IsFor(e, appender) == appenders[appender] # "off" /\ IsGreaterThanOrEqualTo(e.level, appenders[appender])
MultiAppend(e) ==
  LET onFile == IsFor(e, "file") IN
  /\ console' = IF IsFor(e, "console") /\ e.by # "log4js" THEN Append(console, e) ELSE console
  /\ logFile' = IF onFile /\ logPhase # "closing" THEN Append(logFile, e) ELSE logFile
  /\ unfiled' = IF onFile /\ logPhase = "closing" THEN unfiled \cup {e} ELSE unfiled

Event(process, n, l) == [by |-> process, n |-> n, level |-> l]
EventsOf(process) == {x \in events : x.event.by = process}
Log(process, e) == events' = events \cup {[event |-> e, levels |-> appenders]}

\* The bound: one event of the main process.
MainLogs(l) ==
  /\ logPhase \in {"cli", "constructing", "configured", "serving"} /\ EventsOf("main") = {}
  /\ LET e == Event("main", 1, l) IN
       /\ Log("main", e)
       /\ IF IsGreaterThanOrEqualTo(l, level) THEN MultiAppend(e) ELSE UNCHANGED destinations
  /\ UNCHANGED <<levelsGiven, logPhase, appenders, level, childProcesses>>

\* log4js tells all appenders to shut down at once: the file is closed, the server waits for its connections.
ShutdownMain ==
  /\ logPhase = "serving" /\ \A w \in LogWorkers : logWorkers[w] # "running"
  /\ logPhase' = "closing"
  /\ UNCHANGED <<levelsGiven, appenders, level, events, childProcesses, destinations>>

ShutdownDone ==
  /\ logPhase = "closing" /\ \A w \in LogWorkers : logWorkers[w] \in {"none", "dead", "killed"} /\ sent[w] = << >>
  /\ logPhase' = "shutDown"
  /\ UNCHANGED <<levelsGiven, appenders, level, events, childProcesses, destinations>>

----------------------------------------------------------------------------
(* A child process *)

ConfigureChildProcess(w) ==
  /\ logPhase = "serving" /\ logWorkers[w] = "none"
  /\ logWorkers' = [logWorkers EXCEPT ![w] = "running"]
  /\ UNCHANGED <<levelsGiven, logPhase, appenders, level, events, buffered, sent, lostEvents, destinations>>

WorkerLogs(w, l) ==
  /\ logWorkers[w] = "running" /\ Cardinality(EventsOf(w)) < WorkerEvents
  /\ LET e == Event(w, Cardinality(EventsOf(w)) + 1, l) IN
       /\ Log(w, e)
       /\ buffered' = IF IsGreaterThanOrEqualTo(l, level) THEN [buffered EXCEPT ![w] = Append(@, e)] ELSE buffered
  /\ UNCHANGED <<levelsGiven, logPhase, appenders, level, logWorkers, sent, lostEvents, destinations>>

WorkerWrites(w) ==
  /\ logWorkers[w] \in {"running", "shuttingDown"} /\ buffered[w] # << >>
  /\ sent' = [sent EXCEPT ![w] = Append(@, Head(buffered[w]))]
  /\ buffered' = [buffered EXCEPT ![w] = Tail(@)]
  /\ UNCHANGED <<levelsGiven, logPhase, appenders, level, events, logWorkers, lostEvents, destinations>>

ServerReceives(w) ==
  /\ sent[w] # << >>
  /\ MultiAppend(Head(sent[w]))
  /\ sent' = [sent EXCEPT ![w] = Tail(@)]
  /\ UNCHANGED <<levelsGiven, logPhase, appenders, level, events, logWorkers, buffered, lostEvents>>

\* LogConfigurator.shutdown() in the child, after which nothing more is logged; then DisposeCompleted.
BeginDispose(w) ==
  /\ logWorkers[w] = "running"
  /\ logWorkers' = [logWorkers EXCEPT ![w] = "shuttingDown"]
  /\ UNCHANGED <<levelsGiven, logPhase, appenders, level, events, buffered, sent, lostEvents, destinations>>

Flushed(w) == buffered[w] = << >>
DisposeCompleted(w) ==
  /\ logWorkers[w] = "shuttingDown" /\ Flushed(w)
  /\ logWorkers' = [logWorkers EXCEPT ![w] = "disposed"]
  /\ UNCHANGED <<levelsGiven, logPhase, appenders, level, events, buffered, sent, lostEvents, destinations>>

\* A child that crashes, or is killed: after DisposeCompleted, or when it took too long.  The server tells of
\* a connection that breaks off by an event of its own.
WorkerDies(w) ==
  /\ logWorkers[w] \in {"running", "shuttingDown", "disposed"}
  /\ logWorkers' = [logWorkers EXCEPT ![w] = IF @ = "disposed" THEN "dead" ELSE "killed"]
  /\ lostEvents' = lostEvents \cup ToSet(buffered[w])
  /\ buffered' = [buffered EXCEPT ![w] = << >>]
  /\ \/ UNCHANGED <<events, destinations>>
     \/ /\ logWorkers[w] # "disposed" /\ EventsOf("log4js") = {}
        /\ LET e == Event("log4js", 1, "error") IN Log("log4js", e) /\ MultiAppend(e)
  /\ UNCHANGED <<levelsGiven, logPhase, appenders, level, sent>>

LoggingStep ==
  \/ Configure \/ ShutdownMain \/ ShutdownDone
  \/ \E l \in EventLevels : MainLogs(l) \/ \E w \in LogWorkers : WorkerLogs(w, l)
  \/ \E w \in LogWorkers : \/ ConfigureChildProcess(w) \/ WorkerWrites(w) \/ ServerReceives(w)
                           \/ BeginDispose(w) \/ DisposeCompleted(w) \/ WorkerDies(w)

----------------------------------------------------------------------------
Asks(x, appender) == x.levels[appender] # "off" /\ IsGreaterThanOrEqualTo(x.event.level, x.levels[appender])
OnTheWay == (UNION {ToSet(buffered[w]) \cup ToSet(sent[w]) : w \in LogWorkers}) \cup lostEvents
InOrder(written) ==
  \A i, j \in DOMAIN written : i < j /\ written[i].by = written[j].by => written[i].n < written[j].n

\* Whichever process logs an event, the console and the file show it exactly if its level is at least the one the
\* options set for them, once and in the order of its process; log4js's own events are not for the console.  An event
\* is missing only while it is on its way, or because its process was killed before it had flushed its log: never
\* that of a process that said it was disposed of, but the file may be closed when it arrives.
LogsAreComplete ==
  /\ InOrder(console) /\ InOrder(logFile)
  /\ ToSet(console) \cup ToSet(logFile) \subseteq {x.event : x \in events}
  /\ \A x \in events :
       /\ (x.event \in ToSet(console) \cup OnTheWay) \/ ~Asks(x, "console") \/ x.event.by = "log4js"
       /\ x.event \in ToSet(console) => Asks(x, "console") /\ x.event.by # "log4js"
       /\ (x.event \in ToSet(logFile) \cup unfiled \cup OnTheWay) \/ ~Asks(x, "file")
       /\ x.event \in ToSet(logFile) => Asks(x, "file")
  /\ \A e \in lostEvents : logWorkers[e.by] = "killed"
  /\ logPhase = "shutDown" => OnTheWay = lostEvents
=============================================================================
