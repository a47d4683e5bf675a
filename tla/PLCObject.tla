----------------------------- MODULE PLCObject -----------------------------
(***************************************************************************)
(* runtime/PLCObject.py: the life of the PLC in the runtime.               *)
(*                                                                         *)
(* Jobs run one at a time in the worker (module Worker): StartPLC, StopPLC,*)
(* NewPLC, PurgePLC and the trace requests, as the IDE sends them.  Beside *)
(* it run the PLC thread inside the loaded library, the python thread      *)
(* (PythonThreadProc), which obeys the worker through PythonThreadCmd and  *)
(* PythonThreadAck, and the trace thread.  A step of a job ends where it   *)
(* waits for, or can be overtaken by, another thread.                      *)
(*                                                                         *)
(* A library with python blocks ("pyext") has the PythonIterator of module *)
(* PyEval; for one without ("plain") PLCObject puts an Event in its place. *)
(*                                                                         *)
(* A definition under "Slip:" is no part of the model: it is a variant of  *)
(* the one that follows with a mistake in it, which a property must notice.*)
(***************************************************************************)
EXTENDS Naturals

CONSTANTS Kinds,        \* kinds of PLC program that NewPLC is given
          Failures      \* what may go wrong in the environment

ASSUME PLCObjectAssumption ==
    /\ Kinds \subseteq {"pyext", "plain"}
    /\ Failures \subseteq {"files",     \* NewPLC cannot write a file
                           "dlopen",    \* the library does not load
                           "pyinit",    \* a runtime_*.py file raises an exception
                           "startPLC",  \* startPLC() returns an error
                           "slow",      \* python code outlasts StopPLC's timeout
                           "killed",    \* the PLC thread is ended in python_mutex
                           "debug",     \* the PLC thread is ended in debug_mutex
                           "text",      \* python text cannot be encoded or decoded
                           "endless"}   \* python code never ends

VARIABLES
    PLCStatus,
    CurrentPLCFilename,     \* the kind of the latest program, or "none"
    PLClibraryHandle,       \* the kind of the loaded program, or "none"
    python_runtime_vars,    \* is it other than None?
    PythonThreadCmd, PythonThreadAck,
    PlcStopped, PlcStopping,    \* Events
    TraceThread,            \* is it other than None?
    plc,                    \* is the PLC thread running?
    job,                    \* what the worker is doing, or "none"
    at,                     \* where it is in its job
    quit,                   \* RepairPLC's way to worker.quit()
    python,                 \* program counter of the python thread
    cmd,                    \* PythonThreadProc: the latest command it took
    trace                   \* program counter of the trace thread

workerVars == <<job, at>>
statusVars == <<PLCStatus, CurrentPLCFilename, PLClibraryHandle, python_runtime_vars>>
pythonVars == <<PythonThreadCmd, PythonThreadAck, python, cmd>>
eventVars == <<PlcStopped, PlcStopping>>
traceVars == <<TraceThread, trace>>
vars == <<workerVars, statusVars, pythonVars, eventVars, traceVars, plc, quit>>

Cmds == {"PreStart", "Start", "Finish"}

FlagsOK ==
    /\ python_runtime_vars \in BOOLEAN
    /\ PlcStopped \in BOOLEAN
    /\ PlcStopping \in BOOLEAN
    /\ TraceThread \in BOOLEAN
    /\ plc \in BOOLEAN

ValuesOK ==
    /\ PLCStatus \in {"Empty", "Stopped", "Started", "Broken"}
    /\ CurrentPLCFilename \in Kinds \cup {"none"}
    /\ PLClibraryHandle \in Kinds \cup {"none"}
    /\ PythonThreadCmd \in Cmds \cup {"none"}
    /\ PythonThreadAck \in Cmds \cup {"none"}
    /\ job \in {"none", "AutoLoad", "StartPLC", "StopPLC", "NewPLC", "Shutdown"}
    /\ at \in {"begin", "load", "launch", "started", "stopping", "trace", "join",
               "joined", "wait", "unload", "purge", "exit", "exited"} \cup Cmds
    /\ quit \in {"no", "purged", "marked", "disabled"}
    /\ python \in {"none", "take", "prestart", "ack", "start", "iterator", "blocked",
                   "stuck", "stop", "hung", "dead"}
    /\ cmd \in Cmds \cup {"none"}
    /\ trace \in {"off", "loop", "leave", "stuck"}

TypeOK == FlagsOK /\ ValuesOK

Init ==
    /\ PLCStatus = "Empty"
    /\ CurrentPLCFilename \in Kinds \cup {"none"}   \* left by an earlier run
    /\ PLClibraryHandle = "none"
    /\ python_runtime_vars = FALSE
    /\ PythonThreadCmd = "none" /\ PythonThreadAck = "none"
    /\ PlcStopped = TRUE /\ PlcStopping = FALSE
    /\ TraceThread = FALSE
    /\ plc = FALSE
    /\ job = "AutoLoad" /\ at = "begin"
    /\ quit = "no"
    /\ python = "none" /\ cmd = "none"
    /\ trace = "off"

----------------------------------------------------------------------------
(* Helpers of the worker's steps.                                           *)

At(j, place) == job = j /\ at = place
Goto(place) == at' = place /\ UNCHANGED job

\* A job begins; after worker.quit() callers get an EOFError instead.
Begin(j, place) == /\ job = "none"
                   /\ quit # "disabled"
                   /\ job' = j
                   /\ at' = place

\* The job returns or raises an exception.  The worker takes the next one unless
\* runloop() has been told to finish.
Return == /\ job' = IF quit = "marked" THEN "Shutdown" ELSE "none"
          /\ at' = "begin"

\* A job that is done in one step.
OneStep == job = "none" /\ quit # "disabled" /\ Return

\* PythonThreadCommand(c), up to the wait for the acknowledgement.
Command(c) == PythonThreadCmd' = c /\ Goto(c) /\ UNCHANGED <<PythonThreadAck, python, cmd>>

\* PythonThreadCommand(c), when the acknowledgement is there.
Acknowledged(c) == /\ at = c
                   /\ PythonThreadAck = c
                   /\ PythonThreadAck' = "none"
                   /\ UNCHANGED <<PythonThreadCmd, python, cmd>>

\* LoadPLC(), successful: _LoadPLC() and PythonRuntimeInit(), which creates the
\* python thread.
LoadPLC ==
    /\ PLClibraryHandle' = CurrentPLCFilename
    /\ PlcStopping' = IF CurrentPLCFilename = "plain" THEN FALSE ELSE PlcStopping
    /\ python_runtime_vars' = TRUE
    /\ PythonThreadCmd' = "none" /\ PythonThreadAck' = "none"
    /\ python' = "take" /\ cmd' = "none"

\* LoadPLC(), returning False: the library does not load and is forgotten, or
\* PythonRuntimeInit() raises once python_runtime_vars is set.
LoadPLCFails ==
    /\ \/ /\ "dlopen" \in Failures
          /\ PLClibraryHandle' = "none"
          /\ UNCHANGED <<python_runtime_vars, PlcStopping>>
       \/ /\ "pyinit" \in Failures
          /\ PLClibraryHandle' = CurrentPLCFilename
          /\ PlcStopping' = IF CurrentPLCFilename = "plain" THEN FALSE ELSE PlcStopping
          /\ python_runtime_vars' = TRUE
    /\ UNCHANGED pythonVars

----------------------------------------------------------------------------
(* AutoLoad, the first job, and StartPLC.                                   *)

AutoLoad ==
    /\ At("AutoLoad", "begin")
    /\ \/ /\ CurrentPLCFilename = "none"
          /\ Return
          /\ UNCHANGED PLCStatus
       \/ /\ CurrentPLCFilename # "none"
          /\ PLCStatus' = "Stopped"
          /\ \/ Return
             \/ job' = "StartPLC" /\ at' = "load"       \* autostart
    /\ UNCHANGED <<CurrentPLCFilename, PLClibraryHandle, python_runtime_vars, pythonVars,
                   eventVars, traceVars, plc, quit>>

\* Returns at once unless the PLC is stopped.
StartPLC ==
    /\ PLCStatus = "Stopped"
    /\ Begin("StartPLC", "load")
    /\ UNCHANGED <<statusVars, pythonVars, eventVars, traceVars, plc, quit>>

StartLoad ==
    /\ At("StartPLC", "load")
    /\ PLClibraryHandle = "none"
    /\ \/ LoadPLC /\ UNCHANGED <<workerVars, PLCStatus>>
       \/ LoadPLCFails /\ Return /\ PLCStatus' = "Broken"
    /\ UNCHANGED <<CurrentPLCFilename, PlcStopped, traceVars, plc, quit>>

StartPreStart ==
    /\ At("StartPLC", "load")
    /\ PLClibraryHandle # "none"
    /\ Command("PreStart")
    /\ UNCHANGED <<statusVars, eventVars, traceVars, plc, quit>>

StartPreStarted ==
    /\ job = "StartPLC"
    /\ Acknowledged("PreStart")
    /\ Goto("launch")
    /\ UNCHANGED <<statusVars, eventVars, traceVars, plc, quit>>

\* The call of the library's startPLC(), and PythonThreadCommand("Start").
StartLaunch ==
    /\ At("StartPLC", "launch")
    /\ \/ /\ plc' = TRUE
          /\ PLCStatus' = "Started"
          /\ Command("Start")
       \/ /\ "startPLC" \in Failures
          /\ PLCStatus' = "Broken"
          /\ Return
          /\ UNCHANGED <<plc, pythonVars>>
    /\ UNCHANGED <<CurrentPLCFilename, PLClibraryHandle, python_runtime_vars, eventVars,
                   traceVars, quit>>

StartStarted ==
    /\ job = "StartPLC"
    /\ Acknowledged("Start")
    /\ Goto("started")
    /\ UNCHANGED <<statusVars, eventVars, traceVars, plc, quit>>

StartEnd ==
    /\ At("StartPLC", "started")
    /\ PlcStopped' = FALSE
    /\ Return
    /\ UNCHANGED <<statusVars, pythonVars, PlcStopping, traceVars, plc, quit>>

----------------------------------------------------------------------------
(* StopPLC, a job of the IDE's or the first thing when the runtime exits.   *)

\* An exception: the caller gets it, the exiting runtime skips UnLoadPLC().
Raises == IF job = "Shutdown" THEN Goto("exit") ELSE Return

StopReturns == IF job = "Shutdown" THEN Goto("unload") ELSE Return

StopBegins == \/ Begin("StopPLC", "stopping")
              \/ At("Shutdown", "begin") /\ Goto("stopping")

\* The library's stopPLC().  The PLC thread may hold python_mutex as it is ended: a
\* python thread that is, or comes, in LockPython() stays there.  And it may hold
\* debug_mutex, with python_mutex or not: a trace thread that nobody has polled for
\* 3 seconds stays in suspendDebug().
StopPLC ==
    /\ PLCStatus = "Started"
    /\ StopBegins
    /\ plc' = FALSE
    /\ \/ UNCHANGED python
       \/ /\ "killed" \in Failures
          /\ PLClibraryHandle = "pyext" /\ plc /\ python \in {"start", "iterator"}
          /\ python' = "stuck"
    /\ \/ UNCHANGED trace
       \/ "debug" \in Failures /\ plc /\ trace # "off" /\ trace' = "stuck"
    /\ UNCHANGED <<statusVars, PythonThreadCmd, PythonThreadAck, cmd, eventVars,
                   TraceThread, quit>>

\* stopPLC() again, after a StopPLC that raised an exception: the signal to a thread
\* that was joined is undefined, so it may as well end the process.
StopPLCTwice ==
    /\ PLCStatus = "Started"
    /\ ~plc
    /\ (job = "none" /\ quit # "disabled") \/ At("Shutdown", "begin")
    /\ job' = "Shutdown" /\ at' = "exited"
    /\ python' = "dead" /\ trace' = "off"
    /\ UNCHANGED <<statusVars, PythonThreadCmd, PythonThreadAck, cmd, eventVars,
                   TraceThread, plc, quit>>

StopNothing ==
    /\ At("Shutdown", "begin")
    /\ PLCStatus # "Started"
    /\ StopReturns
    /\ UNCHANGED <<statusVars, pythonVars, eventVars, traceVars, plc, quit>>

\* __StopPLC() of a library without python blocks.
StopIterator ==
    /\ at = "stopping"
    /\ PlcStopping' = (PlcStopping \/ PLClibraryHandle = "plain")
    /\ Goto("trace")
    /\ UNCHANGED <<statusVars, pythonVars, PlcStopped, traceVars, plc, quit>>

\* if self.TraceThread is not None:
StopTrace ==
    /\ at = "trace"
    /\ Goto(IF TraceThread THEN "join" ELSE "wait")
    /\ UNCHANGED <<statusVars, pythonVars, eventVars, traceVars, plc, quit>>

\* self.TraceThread.join(): None has no join().
StopJoin ==
    /\ at = "join"
    /\ IF TraceThread THEN Goto("joined") ELSE Raises
    /\ UNCHANGED <<statusVars, pythonVars, eventVars, traceVars, plc, quit>>

StopJoined ==
    /\ at = "joined"
    /\ trace = "off"
    /\ TraceThread' = FALSE
    /\ Goto("wait")
    /\ UNCHANGED <<statusVars, pythonVars, eventVars, trace, plc, quit>>

\* The python thread will not set PlcStopped any more.
NeverStops == \/ python \in {"stuck", "hung", "dead"}
              \/ python = "blocked" /\ ~PlcStopping

\* Slip: the timeout is taken for the event.
StopWaitOnce ==
    /\ at = "wait"
    /\ PlcStopped \/ "slow" \in Failures \/ NeverStops
    /\ PLCStatus' = "Stopped"
    /\ StopReturns
    /\ UNCHANGED <<CurrentPLCFilename, PLClibraryHandle, python_runtime_vars, pythonVars,
                   eventVars, traceVars, plc, quit>>

\* Slip: the wait has no timeout.
StopWaitForEver ==
    /\ at = "wait"
    /\ PlcStopped /\ PLCStatus' = "Stopped"
    /\ StopReturns
    /\ UNCHANGED <<CurrentPLCFilename, PLClibraryHandle, python_runtime_vars, pythonVars,
                   eventVars, traceVars, plc, quit>>

\* PlcStopped.wait(timeout=5)
StopWait ==
    /\ at = "wait"
    /\ \/ PlcStopped /\ PLCStatus' = "Stopped"
       \/ ~PlcStopped /\ ("slow" \in Failures \/ NeverStops) /\ PLCStatus' = "Broken"
    /\ StopReturns
    /\ UNCHANGED <<CurrentPLCFilename, PLClibraryHandle, python_runtime_vars, pythonVars,
                   eventVars, traceVars, plc, quit>>

----------------------------------------------------------------------------
(* NewPLC, and UnLoadPLC, with which it begins and the runtime ends.        *)

NewPLC ==
    /\ PLCStatus \in {"Stopped", "Empty", "Broken"}
    /\ Begin("NewPLC", "unload")
    /\ UNCHANGED <<statusVars, pythonVars, eventVars, traceVars, plc, quit>>

\* PythonRuntimeCleanup().  When no python thread was ever created, the command
\* raises an AttributeError.
UnLoadCommand ==
    /\ at = "unload"
    /\ python_runtime_vars
    /\ IF python = "none" THEN Raises /\ UNCHANGED pythonVars ELSE Command("Finish")
    /\ UNCHANGED <<statusVars, eventVars, traceVars, plc, quit>>

UnLoaded == IF job = "Shutdown" THEN Goto("exit") ELSE Goto("purge")

\* Slip: the library goes without the python thread being asked.
UnLoadAtOnce ==
    /\ at = "unload"
    /\ python_runtime_vars' = FALSE
    /\ PLClibraryHandle' = "none"
    /\ UnLoaded
    /\ UNCHANGED <<PLCStatus, CurrentPLCFilename, pythonVars, eventVars, traceVars, plc,
                   quit>>

UnLoadNothing ==
    /\ at = "unload"
    /\ ~python_runtime_vars
    /\ PLClibraryHandle' = "none"
    /\ UnLoaded
    /\ UNCHANGED <<PLCStatus, CurrentPLCFilename, python_runtime_vars, pythonVars, eventVars,
                   traceVars, plc, quit>>

\* The python thread has acknowledged, and ends: join it, and unload the library.
UnLoadFinished ==
    /\ Acknowledged("Finish")
    /\ python_runtime_vars' = FALSE
    /\ PLClibraryHandle' = "none"
    /\ UnLoaded
    /\ UNCHANGED <<PLCStatus, CurrentPLCFilename, eventVars, traceVars, plc, quit>>

\* Slip: a status of its own, which nobody else knows.
NewFilesUnknown ==
    /\ At("NewPLC", "purge")
    /\ PLCStatus' = "Disconnected"
    /\ Return
    /\ UNCHANGED <<CurrentPLCFilename, PLClibraryHandle, python_runtime_vars, pythonVars,
                   eventVars, traceVars, plc, quit>>

\* PurgePLC() and the files of the new PLC.
NewFiles ==
    /\ At("NewPLC", "purge")
    /\ \/ /\ PLCStatus' = "Empty"
          /\ CurrentPLCFilename' \in Kinds
          /\ Goto("load")
       \/ /\ "files" \in Failures
          /\ PLCStatus' = "Broken"
          /\ Return
          /\ UNCHANGED CurrentPLCFilename
    /\ UNCHANGED <<PLClibraryHandle, python_runtime_vars, pythonVars, eventVars, traceVars,
                   plc, quit>>

NewLoad ==
    /\ At("NewPLC", "load")
    /\ \/ LoadPLC /\ PLCStatus' = "Stopped"
       \/ LoadPLCFails /\ PLCStatus' = "Broken"
    /\ Return
    /\ UNCHANGED <<CurrentPLCFilename, PlcStopped, traceVars, plc, quit>>

----------------------------------------------------------------------------
(* Jobs of one step, RepairPLC, and the end of the runtime.                 *)

\* _TracesSwap(), in SetTraceVariablesList and in GetTraceVariables.
TracesSwap ==
    /\ OneStep
    /\ PLCStatus = "Started"
    /\ ~TraceThread
    /\ TraceThread' = TRUE
    /\ trace' = "loop"
    /\ UNCHANGED <<statusVars, pythonVars, eventVars, plc, quit>>

\* GetPLCstatus() and its like, and jobs that PLCStatus refuses, change nothing; but
\* any job may be the last.
OtherJob ==
    /\ OneStep
    /\ UNCHANGED <<statusVars, pythonVars, eventVars, traceVars, plc, quit>>

\* RepairPLC(), in the thread of the RPC server: first the job PurgePLC ...
PurgePLC ==
    /\ quit = "no"
    /\ job = "none"
    /\ quit' = "purged"
    /\ PLCStatus' = "Empty"
    /\ UNCHANGED <<workerVars, CurrentPLCFilename, PLClibraryHandle, python_runtime_vars,
                   pythonVars, eventVars, traceVars, plc>>

\* ... then MainWorker.finish(), that is quit(): mark the queue,
QuitMark ==
    /\ quit = "purged"
    /\ quit' = "marked"
    /\ UNCHANGED <<workerVars, statusVars, pythonVars, eventVars, traceVars, plc>>

\* and once the worker is waiting for a job, disable it.
QuitLock ==
    /\ quit = "marked"
    /\ job = "none"
    /\ quit' = "disabled"
    /\ UNCHANGED <<workerVars, statusVars, pythonVars, eventVars, traceVars, plc>>

\* KeyboardInterrupt while the worker waits for a job ends runloop().
Interrupt ==
    /\ job = "none"
    /\ job' = "Shutdown" /\ at' = "begin"
    /\ UNCHANGED <<statusVars, pythonVars, eventVars, traceVars, plc, quit>>

\* sys.exit() waits for the threads.
Exit ==
    /\ At("Shutdown", "exit")
    /\ python \in {"none", "dead"}
    /\ trace = "off"
    /\ Goto("exited")
    /\ UNCHANGED <<statusVars, pythonVars, eventVars, traceVars, plc, quit>>

----------------------------------------------------------------------------
(* The python thread.                                                       *)

Python(from, to) == python = from /\ python' = to

\* Slip: the command is not taken out.
PythonTakeKeeps ==
    /\ PythonThreadCmd # "none"
    /\ cmd' = PythonThreadCmd
    /\ Python("take", IF PythonThreadCmd = "PreStart" THEN "prestart" ELSE "ack")
    /\ UNCHANGED <<PythonThreadCmd, PythonThreadAck, workerVars, statusVars, eventVars,
                   traceVars, plc, quit>>

\* Slip: PreStart is acknowledged at once, "for responsiveness", like Start.
PythonTakeAcks ==
    /\ PythonThreadCmd # "none"
    /\ cmd' = PythonThreadCmd
    /\ PythonThreadCmd' = "none"
    /\ PythonThreadAck' = IF PythonThreadCmd = "PreStart" THEN "PreStart" ELSE PythonThreadAck
    /\ Python("take", IF PythonThreadCmd = "PreStart" THEN "prestart" ELSE "ack")
    /\ UNCHANGED <<workerVars, statusVars, eventVars, traceVars, plc, quit>>

PythonTake ==
    /\ PythonThreadCmd # "none"
    /\ cmd' = PythonThreadCmd
    /\ PythonThreadCmd' = "none"
    /\ Python("take", IF PythonThreadCmd = "PreStart" THEN "prestart" ELSE "ack")
    /\ UNCHANGED <<PythonThreadAck, workerVars, statusVars, eventVars, traceVars, plc, quit>>

\* PreStartPLC()
PythonPreStart ==
    /\ Python("prestart", "ack")
    /\ UNCHANGED <<PythonThreadCmd, PythonThreadAck, cmd, workerVars, statusVars, eventVars,
                   traceVars, plc, quit>>

\* Slip: "Finish" is not acknowledged.
PythonAckStarts ==
    /\ Python("ack", CASE cmd = "PreStart" -> "take"
                       [] cmd = "Start" -> "start"
                       [] cmd = "Finish" -> "dead")
    /\ PythonThreadAck' = IF cmd = "Finish" THEN PythonThreadAck ELSE cmd
    /\ UNCHANGED <<PythonThreadCmd, cmd, workerVars, statusVars, eventVars, traceVars, plc,
                   quit>>

\* PythonThreadAcknowledge(cmd)
PythonAck ==
    /\ Python("ack", CASE cmd = "PreStart" -> "take"
                       [] cmd = "Start" -> "start"
                       [] cmd = "Finish" -> "dead")
    /\ PythonThreadAck' = cmd
    /\ UNCHANGED <<PythonThreadCmd, cmd, workerVars, statusVars, eventVars, traceVars, plc,
                   quit>>

\* The start methods of the extensions, and _PostStartPLC().
PythonStart ==
    /\ Python("start", "iterator")
    /\ UNCHANGED <<PythonThreadCmd, PythonThreadAck, cmd, workerVars, statusVars, eventVars,
                   traceVars, plc, quit>>

\* PythonThreadLoop(), evaluating commands until the PLC is stopped.
PythonLoop ==
    /\ PLClibraryHandle = "pyext"
    /\ ~plc
    /\ Python("iterator", "stop")
    /\ UNCHANGED <<PythonThreadCmd, PythonThreadAck, cmd, workerVars, statusVars, eventVars,
                   traceVars, plc, quit>>

\* PythonThreadLoop() without python blocks: PlcStopping.clear() ...
PythonBlock ==
    /\ PLClibraryHandle = "plain"
    /\ PlcStopping' = FALSE
    /\ Python("iterator", "blocked")
    /\ UNCHANGED <<PythonThreadCmd, PythonThreadAck, cmd, workerVars, statusVars, PlcStopped,
                   traceVars, plc, quit>>

\* ... and PlcStopping.wait()
PythonUnblock ==
    /\ PlcStopping
    /\ Python("blocked", "stop")
    /\ UNCHANGED <<PythonThreadCmd, PythonThreadAck, cmd, workerVars, statusVars, eventVars,
                   traceVars, plc, quit>>

\* The stop methods of the extensions, and PlcStopped.set()
PythonStop ==
    /\ Python("stop", "take")
    /\ PlcStopped' = TRUE
    /\ UNCHANGED <<PythonThreadCmd, PythonThreadAck, cmd, workerVars, statusVars, PlcStopping,
                   traceVars, plc, quit>>

\* An exception that nobody catches ends the python thread: res.encode(),
\* cmd.decode(), or LogMessage() of a text that cannot be encoded.
PythonDies ==
    /\ "text" \in Failures
    /\ python = "iterator" => PLClibraryHandle = "pyext"
    /\ Python("start", "dead") \/ Python("iterator", "dead") \/ Python("stop", "dead")
    /\ UNCHANGED <<PythonThreadCmd, PythonThreadAck, cmd, workerVars, statusVars, eventVars,
                   traceVars, plc, quit>>

\* A start or stop method, or the code of a block, that never comes back: the stop
\* method of SVGHMI may wait for ever for its send thread.
PythonHangs ==
    /\ "endless" \in Failures
    /\ python = "iterator" => PLClibraryHandle = "pyext"
    /\ Python("start", "hung") \/ Python("iterator", "hung") \/ Python("stop", "hung")
    /\ UNCHANGED <<PythonThreadCmd, PythonThreadAck, cmd, workerVars, statusVars, eventVars,
                   traceVars, plc, quit>>

----------------------------------------------------------------------------
(* The trace thread.                                                        *)

\* The loop of TraceThreadProc ends: the PLC is stopped, or nobody has polled the
\* traces for 3 seconds.
TraceLeave ==
    /\ trace = "loop"
    /\ trace' = "leave"
    /\ UNCHANGED <<workerVars, statusVars, pythonVars, eventVars, TraceThread, plc, quit>>

TraceEnd ==
    /\ trace = "leave"
    /\ trace' = "off"
    /\ TraceThread' = FALSE
    /\ UNCHANGED <<workerVars, statusVars, pythonVars, eventVars, plc, quit>>

----------------------------------------------------------------------------

Requests == \/ StartPLC \/ StopPLC \/ StopPLCTwice \/ NewPLC \/ TracesSwap \/ OtherJob
            \/ PurgePLC \/ QuitMark \/ QuitLock \/ Interrupt

StartStep == \/ AutoLoad \/ StartLoad \/ StartPreStart \/ StartPreStarted \/ StartLaunch
             \/ StartStarted \/ StartEnd

StopStep == \/ StopNothing \/ StopIterator \/ StopTrace \/ StopJoin \/ StopJoined \/ StopWait

NewStep == \/ UnLoadCommand \/ UnLoadNothing \/ UnLoadFinished \/ NewFiles \/ NewLoad

PythonStep == \/ PythonTake \/ PythonPreStart \/ PythonAck \/ PythonStart \/ PythonLoop
              \/ PythonBlock \/ PythonUnblock \/ PythonStop

TraceStep == TraceLeave \/ TraceEnd

Next == \/ Requests \/ StartStep \/ StopStep \/ NewStep \/ Exit
        \/ PythonStep \/ PythonDies \/ PythonHangs \/ TraceStep

Spec == Init /\ [][Next]_vars

\* Threads run, python code ends unless PythonHangs comes first, and no request has
\* to come.
Fairness ==
    /\ WF_vars(StartStep) /\ WF_vars(StopStep) /\ WF_vars(NewStep) /\ WF_vars(Exit)
    /\ WF_vars(StopPLC /\ job = "Shutdown")
    /\ WF_vars(PythonStep)
    /\ WF_vars(TraceStep /\ ~plc)
    /\ WF_vars(TraceEnd)

FairSpec == Spec /\ Fairness

----------------------------------------------------------------------------
(* Properties.                                                              *)

\* Between jobs, a PLC that is reported stopped or broken is not running, and one
\* that is stopped has a python thread that is ready for the next start: its stop
\* methods are over.
StatusIsTrue ==
    job = "none" =>
        /\ PLCStatus \in {"Stopped", "Broken"} => ~plc
        /\ PLCStatus = "Stopped" => python \in {"none", "take"} /\ PlcStopped

\* The library is not unloaded under a thread that runs, or will run, its code (the
\* trace thread: unless RepairPLC has purged the PLC behind its back).
NotUnloadedInUse ==
    PLClibraryHandle = "none" =>
        /\ ~plc
        /\ python \notin {"start", "iterator", "blocked", "stuck", "stop", "hung"}
        /\ quit = "no" => trace = "off"

\* The two conditions of PythonThreadCommand: no command and no acknowledgement is
\* left over for a later job, and whoever starts the PLC is heard.
CommandHeard ==
    /\ PythonThreadCmd # "none" => at = PythonThreadCmd
    /\ PythonThreadAck # "none" => at = PythonThreadAck
    /\ at \in {"PreStart", "Start"} =>
           \/ PythonThreadCmd = at /\ python = "take"
           \/ cmd = at /\ python \in {"prestart", "ack"}
           \/ PythonThreadAck = at

\* "Ack once PreStart done, must be finished before StartPLC": the PLC thread starts
\* while the python thread waits, with PreStartPLC() done for this start.
PreStartFirst == [][~plc /\ plc' => python = "take" /\ cmd = "PreStart"]_vars

\* StartPLC and StopPLC return whatever fails, so that the worker can go on, with one
\* exception: self._suspendDebug(True) keeps the trace thread that StopPLC joins, as
\* the PLC thread was ended holding debug_mutex.
StartStopReturn ==
    \A j \in {"StartPLC", "StopPLC"} : job = j ~> (job # j \/ trace = "stuck")

\* What keeps the python thread from ever acknowledging "Finish": it has died, or was
\* not created anew as a runtime file raised an exception, it is stuck in
\* LockPython(), its code never ends, the PLC was purged while it was running, or
\* PlcStopping was set before it was cleared.
Deaf == \/ python \in {"none", "dead"} /\ python_runtime_vars
        \/ python \in {"stuck", "hung"}
        \/ plc
        \/ PLClibraryHandle = "plain" /\ python \in {"start", "iterator"}
        \/ python = "blocked" /\ ~PlcStopping

\* The python thread died, or its code did not end, while "Finish" was on its way.
Lost == python = "hung" \/ (python = "dead" /\ cmd # "Finish")

\* Nothing else keeps NewPLC, and the end of the runtime, from unloading the PLC, with
\* what the python thread was at being over first.
UnLoadEnds == (at = "unload" /\ ~Deaf) ~> (at \notin {"unload", "Finish"} \/ Lost)

\* "we reuse _PythonIterator as a call that block pythonthread until StopPLC"
IteratorEnds ==
    (python \in {"iterator", "blocked"} /\ ~plc) ~> python \notin {"iterator", "blocked"}
=============================================================================
