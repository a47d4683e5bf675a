------------------------- MODULE PLCObject_proofs -------------------------
(***************************************************************************)
(* Proofs about PLCObject: in every order of requests and failures, its    *)
(* status is true, no library is unloaded in use, no command to the python *)
(* thread is left over, and the PLC starts after PreStartPLC().            *)
(***************************************************************************)
EXTENDS PLCObject, TLAPS

\* What each job goes through.
JobPlaces ==
    /\ job \in {"none", "AutoLoad"} => at = "begin"
    /\ job = "StartPLC" => at \in {"load", "PreStart", "launch", "Start", "started"}
    /\ job = "StopPLC" => at \in {"stopping", "trace", "join", "joined", "wait"}
    /\ job = "NewPLC" => at \in {"unload", "Finish", "purge", "load"}
    /\ job = "Shutdown" => at \in {"begin", "stopping", "trace", "join", "joined", "wait",
                                   "unload", "Finish", "exit", "exited"}

\* The status, seen from within the jobs.
StatusKept ==
    /\ job = "StartPLC" /\ at \in {"load", "PreStart", "launch"} => PLCStatus = "Stopped"
    /\ job = "StartPLC" /\ at \in {"Start", "started"} => PLCStatus = "Started" /\ plc
    /\ at \in {"stopping", "trace", "join", "joined", "wait"} =>
           PLCStatus = "Started" /\ ~plc
    /\ at \in {"unload", "Finish", "purge"} \/ (job = "NewPLC" /\ at = "load") =>
           PLCStatus # "Started"

\* A PLC that runs is started, or was purged; the python thread is, or is about
\* to be, in the part that lasts until it is stopped.
Running ==
    plc => /\ PLCStatus = "Started" \/ (PLCStatus = "Empty" /\ quit # "no")
           /\ python \in {"start", "iterator", "blocked", "hung", "dead"} \/ at = "Start"
           /\ python = "blocked" => ~PlcStopping
           /\ python = "dead" => cmd = "Start"

\* The library and the python thread come and go together.
Loaded ==
    /\ PLClibraryHandle = "none" <=> ~python_runtime_vars
    /\ ~python_runtime_vars =>
           python \in {"none", "dead"} /\ ~plc /\ (PLCStatus # "Started" \/ at = "exited")
    /\ job = "AutoLoad" => python = "none" /\ ~python_runtime_vars /\ PlcStopped
    /\ at = "purge" \/ (job = "NewPLC" /\ at = "load") => ~python_runtime_vars
    /\ at \in {"PreStart", "launch", "Finish"} => python_runtime_vars
    /\ CurrentPLCFilename = "none" =>
           PLCStatus \in {"Empty", "Broken"} /\ ~(job = "NewPLC" /\ at = "load")

\* A python thread that is not over with its stop methods has yet to set PlcStopped,
\* and a PLC that is stopped has one that is ready.
Stopped ==
    /\ ~PlcStopped => \/ python \in {"start", "iterator", "blocked", "stop", "stuck",
                                      "hung"}
                      \/ python = "dead" /\ cmd = "Start" /\ python_runtime_vars
                      \/ at = "exited"
    /\ PLCStatus = "Started" /\ PlcStopped =>
           python = "take" \/ job = "StartPLC" \/ at = "exited"
    /\ PLCStatus = "Stopped" =>
           /\ python_runtime_vars => python = "take" \/ at \in {"PreStart", "Finish"}
           /\ ~python_runtime_vars => python = "none" \/ at \in {"purge", "exit", "exited"}

\* A command is pending, under way, or acknowledged.
Handshake ==
    /\ at \notin Cmds => PythonThreadCmd = "none" /\ PythonThreadAck = "none"
    /\ at \in Cmds =>
           \/ /\ PythonThreadCmd = at /\ PythonThreadAck = "none"
              /\ at # "Finish" => python = "take"
              /\ python \notin {"prestart", "ack"}
           \/ /\ PythonThreadCmd = "none" /\ PythonThreadAck = "none"
              /\ cmd = at
              /\ python = "ack" \/ (at = "PreStart" /\ python = "prestart")
           \/ /\ PythonThreadCmd = "none" /\ PythonThreadAck = at
              /\ cmd = at
              /\ at = "PreStart" => python = "take"
              /\ at = "Start" => python \in {"start", "iterator", "blocked", "hung", "dead"}
              /\ at = "Finish" => python = "dead"
    /\ python \in {"prestart", "ack"} => at \in Cmds
    /\ python \in {"start", "iterator", "blocked", "stop"} => cmd = "Start"
    /\ at = "launch" => python = "take" /\ cmd = "PreStart"

\* The trace thread is joined before the PLC is reported stopped, and waited for at
\* the end.
Traced ==
    /\ ~TraceThread => trace = "off"
    /\ trace # "off" /\ quit = "no" => PLCStatus = "Started"
    /\ at \in {"wait", "exited"} => trace = "off"

IInv == /\ TypeOK /\ JobPlaces /\ StatusKept /\ Running /\ Loaded
        /\ Stopped /\ Handshake /\ Traced

----------------------------------------------------------------------------
\* LoadPLC() fails with or without the library, and without a new python thread.
LEMMA LoadFailure ==
    ASSUME LoadPLCFails
    PROVE  /\ \/ PLClibraryHandle' = "none" /\ UNCHANGED python_runtime_vars
              \/ PLClibraryHandle' = CurrentPLCFilename /\ python_runtime_vars'
           /\ UNCHANGED <<PythonThreadCmd, PythonThreadAck, python, cmd>>
BY DEF LoadPLCFails, pythonVars

LEMMA InitIInv == Init => IInv
<1> SUFFICES ASSUME Init PROVE IInv
  OBVIOUS
<1>1. FlagsOK
  BY Zenon DEF Init, FlagsOK
<1>2. ValuesOK
  BY DEF Init, ValuesOK
<1>3. JobPlaces /\ StatusKept /\ Running /\ Loaded /\ Stopped /\ Handshake /\ Traced
  BY DEF Init, JobPlaces, StatusKept, Running, Loaded, Stopped, Handshake, Traced, Cmds
<1> QED BY <1>1, <1>2, <1>3 DEF IInv, TypeOK

\* Steps keep the types: the flags,
LEMMA FlagsOKKept == IInv /\ [Next]_vars => FlagsOK'
<1> SUFFICES ASSUME IInv, [Next]_vars PROVE FlagsOK'
  OBVIOUS
<1> USE DEF IInv, TypeOK, FlagsOK
<1>1. CASE StopPLC
  BY <1>1, Zenon DEF StopPLC, At, Goto, Begin, StopBegins, statusVars, eventVars,
     traceVars
<1>2. CASE TracesSwap
  BY <1>2, Zenon DEF TracesSwap, Return, OneStep, statusVars, pythonVars, eventVars
<1>3. CASE StartLoad
  BY <1>3, Zenon DEF StartLoad, At, Return, LoadPLC, LoadPLCFails, workerVars,
     pythonVars, traceVars
<1>4. CASE StartLaunch
  BY <1>4, Zenon DEF StartLaunch, At, Goto, Return, Command, pythonVars, eventVars,
     traceVars
<1>5. CASE StartEnd
  BY <1>5, Zenon DEF StartEnd, At, Return, statusVars, pythonVars, traceVars
<1>6. CASE StopIterator
  BY <1>6, Zenon DEF StopIterator, Goto, statusVars, pythonVars, traceVars
<1>7. CASE StopJoined
  BY <1>7, Zenon DEF StopJoined, Goto, statusVars, pythonVars, eventVars
<1>8. CASE UnLoadFinished
  BY <1>8, Zenon DEF UnLoadFinished, Goto, Acknowledged, UnLoaded, eventVars,
     traceVars
<1>9. CASE NewLoad
  BY <1>9, Zenon DEF NewLoad, At, Return, LoadPLC, LoadPLCFails, pythonVars,
     traceVars
<1>10. CASE PythonBlock
  BY <1>10, Zenon DEF PythonBlock, Python, workerVars, statusVars, traceVars
<1>11. CASE PythonStop
  BY <1>11, Zenon DEF PythonStop, Python, workerVars, statusVars, traceVars
<1>12. CASE TraceEnd
  BY <1>12, Zenon DEF TraceEnd, workerVars, statusVars, pythonVars, eventVars
<1>13. CASE StartPLC \/ StopPLCTwice \/ NewPLC \/ OtherJob \/ PurgePLC \/ QuitMark \/
           QuitLock \/ Interrupt \/ AutoLoad \/ StartPreStart \/ StartPreStarted \/
           StartStarted \/ StopNothing \/ StopTrace \/ StopJoin \/ StopWait \/
           UnLoadCommand \/ UnLoadNothing \/ NewFiles \/ Exit \/ PythonTake \/
           PythonPreStart \/ PythonAck \/ PythonStart \/ PythonLoop \/ PythonUnblock
           \/ TraceLeave \/ UNCHANGED vars
  BY <1>13 DEF StartPLC, StopPLCTwice, NewPLC, OtherJob, PurgePLC, QuitMark,
     QuitLock, Interrupt, AutoLoad, StartPreStart, StartPreStarted, StartStarted,
     StopNothing, StopTrace, StopJoin, StopWait, UnLoadCommand, UnLoadNothing,
     NewFiles, Exit, PythonTake, PythonPreStart, PythonAck, PythonStart, PythonLoop,
     PythonUnblock, TraceLeave, Begin, At, Return, OneStep, Goto, Command,
     Acknowledged, StopReturns, Raises, NeverStops, UnLoaded, Python, workerVars,
     statusVars, pythonVars, eventVars, traceVars, vars
<1>14. CASE PythonDies \/ PythonHangs
  BY <1>14 DEF PythonDies, PythonHangs, Python, workerVars, statusVars, eventVars,
     traceVars
<1> QED BY <1>1, <1>2, <1>3, <1>4, <1>5, <1>6, <1>7, <1>8, <1>9, <1>10, <1>11,
            <1>12, <1>13, <1>14 DEF Next, Requests, StartStep, StopStep, NewStep,
            Exit, PythonStep, TraceStep

\* and the other variables.
LEMMA ValuesOKKept == IInv /\ [Next]_vars => ValuesOK'
<1> SUFFICES ASSUME IInv, [Next]_vars PROVE ValuesOK'
  OBVIOUS
<1> USE DEF IInv, TypeOK, ValuesOK, Handshake, Cmds
<1>1. CASE StartPLC
  BY <1>1 DEF StartPLC, Begin, statusVars, pythonVars, eventVars, traceVars
<1>2. CASE StopPLC
  BY <1>2 DEF StopPLC, At, Goto, Begin, StopBegins, statusVars, eventVars, traceVars
<1>3. CASE StopPLCTwice
  BY <1>3 DEF StopPLCTwice, At, statusVars, eventVars
<1>4. CASE NewPLC
  BY <1>4 DEF NewPLC, Begin, statusVars, pythonVars, eventVars, traceVars
<1>5. CASE TracesSwap
  BY <1>5 DEF TracesSwap, Return, OneStep, statusVars, pythonVars, eventVars
<1>6. CASE OtherJob
  BY <1>6 DEF OtherJob, Return, OneStep, statusVars, pythonVars, eventVars,
     traceVars
<1>7. CASE PurgePLC
  BY <1>7 DEF PurgePLC, workerVars, pythonVars, eventVars, traceVars
<1>8. CASE QuitMark
  BY <1>8 DEF QuitMark, workerVars, statusVars, pythonVars, eventVars, traceVars
<1>9. CASE QuitLock
  BY <1>9 DEF QuitLock, workerVars, statusVars, pythonVars, eventVars, traceVars
<1>10. CASE Interrupt
  BY <1>10 DEF Interrupt, statusVars, pythonVars, eventVars, traceVars
<1>11. CASE AutoLoad
  BY <1>11 DEF AutoLoad, At, Return, pythonVars, eventVars, traceVars
<1>12. CASE StartLoad
  <2>1. job' \in {"StartPLC", "none", "Shutdown"} /\ at' \in {"load", "begin"}
    BY <1>12 DEF StartLoad, At, Return, workerVars
  <2>2. PLCStatus' = PLCStatus \/ PLCStatus' = "Broken"
    BY <1>12 DEF StartLoad
  <2>3. CASE LoadPLC
    BY <1>12, <2>1, <2>2, <2>3 DEF StartLoad, LoadPLC, traceVars
  <2>4. CASE LoadPLCFails
    BY <1>12, <2>1, <2>2, <2>4, LoadFailure DEF StartLoad, traceVars
  <2> QED BY <1>12, <2>3, <2>4 DEF StartLoad
<1>13. CASE StartPreStart
  BY <1>13 DEF StartPreStart, At, Goto, Command, statusVars, eventVars, traceVars
<1>14. CASE StartPreStarted
  BY <1>14 DEF StartPreStarted, Goto, Acknowledged, statusVars, eventVars, traceVars
<1>15. CASE StartLaunch
  <2>1. CASE Command("Start") /\ PLCStatus' = "Started"
    BY <1>15, <2>1 DEF StartLaunch, Command, Goto, eventVars, traceVars
  <2>2. CASE Return /\ UNCHANGED pythonVars /\ PLCStatus' = "Broken"
    BY <1>15, <2>2 DEF StartLaunch, Return, pythonVars, eventVars, traceVars
  <2> QED BY <1>15, <2>1, <2>2 DEF StartLaunch
<1>16. CASE StartStarted
  BY <1>16 DEF StartStarted, Goto, Acknowledged, statusVars, eventVars, traceVars
<1>17. CASE StartEnd
  BY <1>17 DEF StartEnd, At, Return, statusVars, pythonVars, traceVars
<1>18. CASE StopNothing
  BY <1>18 DEF StopNothing, At, Goto, Return, StopReturns, statusVars, pythonVars,
     eventVars, traceVars
<1>19. CASE StopIterator
  BY <1>19 DEF StopIterator, Goto, statusVars, pythonVars, traceVars
<1>20. CASE StopTrace
  BY <1>20 DEF StopTrace, Goto, statusVars, pythonVars, eventVars, traceVars
<1>21. CASE StopJoin
  BY <1>21 DEF StopJoin, Goto, Return, Raises, statusVars, pythonVars, eventVars,
     traceVars
<1>22. CASE StopJoined
  BY <1>22 DEF StopJoined, Goto, statusVars, pythonVars, eventVars
<1>23. CASE StopWait
  BY <1>23 DEF StopWait, Goto, Return, StopReturns, NeverStops, pythonVars,
     eventVars, traceVars
<1>24. CASE UnLoadCommand
  BY <1>24 DEF UnLoadCommand, Goto, Return, Command, Raises, statusVars, pythonVars,
     eventVars, traceVars
<1>25. CASE UnLoadNothing
  BY <1>25 DEF UnLoadNothing, Goto, UnLoaded, pythonVars, eventVars, traceVars
<1>26. CASE UnLoadFinished
  BY <1>26 DEF UnLoadFinished, Goto, Acknowledged, UnLoaded, eventVars, traceVars
<1>27. CASE NewFiles
  BY <1>27 DEF NewFiles, At, Goto, Return, pythonVars, eventVars, traceVars
<1>28. CASE NewLoad
  <2>1. job' \in {"none", "Shutdown"} /\ at' = "begin"
    BY <1>28 DEF NewLoad, Return
  <2>2. PLCStatus' = "Stopped" \/ PLCStatus' = "Broken"
    BY <1>28 DEF NewLoad
  <2>3. CASE LoadPLC
    BY <1>28, <2>1, <2>2, <2>3 DEF NewLoad, LoadPLC, traceVars
  <2>4. CASE LoadPLCFails
    BY <1>28, <2>1, <2>2, <2>4, LoadFailure DEF NewLoad, traceVars
  <2> QED BY <1>28, <2>3, <2>4 DEF NewLoad
<1>29. CASE Exit
  BY <1>29 DEF Exit, At, Goto, statusVars, pythonVars, eventVars, traceVars
<1>30. CASE PythonTake
  BY <1>30 DEF PythonTake, Python, workerVars, statusVars, eventVars, traceVars
<1>31. CASE PythonPreStart
  BY <1>31 DEF PythonPreStart, Python, workerVars, statusVars, eventVars, traceVars
<1>32. CASE PythonAck
  BY <1>32 DEF PythonAck, Python, workerVars, statusVars, eventVars, traceVars
<1>33. CASE PythonStart
  BY <1>33 DEF PythonStart, Python, workerVars, statusVars, eventVars, traceVars
<1>34. CASE PythonLoop
  BY <1>34 DEF PythonLoop, Python, workerVars, statusVars, eventVars, traceVars
<1>35. CASE PythonBlock
  BY <1>35 DEF PythonBlock, Python, workerVars, statusVars, traceVars
<1>36. CASE PythonUnblock
  BY <1>36 DEF PythonUnblock, Python, workerVars, statusVars, eventVars, traceVars
<1>37. CASE PythonStop
  BY <1>37 DEF PythonStop, Python, workerVars, statusVars, traceVars
<1>38. CASE TraceLeave
  BY <1>38 DEF TraceLeave, workerVars, statusVars, pythonVars, eventVars
<1>39. CASE TraceEnd
  BY <1>39 DEF TraceEnd, workerVars, statusVars, pythonVars, eventVars
<1>40. CASE UNCHANGED vars
  BY <1>40 DEF vars, workerVars, statusVars, pythonVars, eventVars, traceVars
<1>41. CASE PythonDies \/ PythonHangs
  BY <1>41 DEF PythonDies, PythonHangs, Python, workerVars, statusVars, eventVars,
     traceVars
<1> QED BY <1>1, <1>2, <1>3, <1>4, <1>5, <1>6, <1>7, <1>8, <1>9, <1>10, <1>11,
            <1>12, <1>13, <1>14, <1>15, <1>16, <1>17, <1>18, <1>19, <1>20, <1>21,
            <1>22, <1>23, <1>24, <1>25, <1>26, <1>27, <1>28, <1>29, <1>30, <1>31,
            <1>32, <1>33, <1>34, <1>35, <1>36, <1>37, <1>38, <1>39, <1>40, <1>41
            DEF Next, Requests, StartStep, StopStep, NewStep, Exit, PythonStep,
            TraceStep

\* No job gets where another one belongs.
LEMMA JobPlacesKept == IInv /\ [Next]_vars => JobPlaces'
<1> SUFFICES ASSUME IInv, [Next]_vars PROVE JobPlaces'
  OBVIOUS
<1> USE DEF IInv, JobPlaces
<1>1. CASE StartPLC
  BY <1>1 DEF StartPLC, Begin, statusVars, pythonVars, eventVars, traceVars
<1>2. CASE StopPLC
  BY <1>2 DEF StopPLC, At, Goto, Begin, StopBegins, statusVars, eventVars, traceVars
<1>3. CASE StopPLCTwice
  BY <1>3 DEF StopPLCTwice, At, statusVars, eventVars
<1>4. CASE NewPLC
  BY <1>4 DEF NewPLC, Begin, statusVars, pythonVars, eventVars, traceVars
<1>5. CASE TracesSwap
  BY <1>5 DEF TracesSwap, Return, OneStep, statusVars, pythonVars, eventVars
<1>6. CASE OtherJob
  BY <1>6 DEF OtherJob, Return, OneStep, statusVars, pythonVars, eventVars,
     traceVars
<1>7. CASE Interrupt
  BY <1>7 DEF Interrupt, statusVars, pythonVars, eventVars, traceVars
<1>8. CASE AutoLoad
  BY <1>8 DEF AutoLoad, At, Return, pythonVars, eventVars, traceVars
<1>9. CASE StartLoad
  BY <1>9 DEF StartLoad, At, Return, LoadPLC, LoadPLCFails, workerVars, pythonVars,
     traceVars
<1>10. CASE StartPreStart
  BY <1>10 DEF StartPreStart, At, Goto, Command, statusVars, eventVars, traceVars
<1>11. CASE StartPreStarted
  BY <1>11 DEF StartPreStarted, Goto, Acknowledged, statusVars, eventVars, traceVars
<1>12. CASE StartLaunch
  BY <1>12 DEF StartLaunch, At, Goto, Return, Command, pythonVars, eventVars,
     traceVars
<1>13. CASE StartStarted
  BY <1>13 DEF StartStarted, Goto, Acknowledged, statusVars, eventVars, traceVars
<1>14. CASE StartEnd
  BY <1>14 DEF StartEnd, At, Return, statusVars, pythonVars, traceVars
<1>15. CASE StopNothing
  BY <1>15 DEF StopNothing, At, Goto, Return, StopReturns, statusVars, pythonVars,
     eventVars, traceVars
<1>16. CASE StopIterator
  BY <1>16 DEF StopIterator, Goto, statusVars, pythonVars, traceVars
<1>17. CASE StopTrace
  BY <1>17 DEF StopTrace, Goto, statusVars, pythonVars, eventVars, traceVars
<1>18. CASE StopJoin
  BY <1>18 DEF StopJoin, Goto, Return, Raises, statusVars, pythonVars, eventVars,
     traceVars
<1>19. CASE StopJoined
  BY <1>19 DEF StopJoined, Goto, statusVars, pythonVars, eventVars
<1>20. CASE StopWait
  BY <1>20 DEF StopWait, Goto, Return, StopReturns, NeverStops, pythonVars,
     eventVars, traceVars
<1>21. CASE UnLoadCommand
  BY <1>21 DEF UnLoadCommand, Goto, Return, Command, Raises, statusVars, pythonVars,
     eventVars, traceVars
<1>22. CASE UnLoadNothing
  BY <1>22 DEF UnLoadNothing, Goto, UnLoaded, pythonVars, eventVars, traceVars
<1>23. CASE UnLoadFinished
  BY <1>23 DEF UnLoadFinished, Goto, Acknowledged, UnLoaded, eventVars, traceVars
<1>24. CASE NewFiles
  BY <1>24 DEF NewFiles, At, Goto, Return, pythonVars, eventVars, traceVars
<1>25. CASE NewLoad
  BY <1>25 DEF NewLoad, At, Return, LoadPLC, LoadPLCFails, pythonVars, traceVars
<1>26. CASE Exit
  BY <1>26 DEF Exit, At, Goto, statusVars, pythonVars, eventVars, traceVars
<1>27. CASE PurgePLC \/ QuitMark \/ QuitLock \/ PythonTake \/ PythonPreStart \/
           PythonAck \/ PythonStart \/ PythonLoop \/ PythonBlock \/ PythonUnblock \/
           PythonStop \/ TraceLeave \/ TraceEnd \/ UNCHANGED vars
  BY <1>27 DEF PurgePLC, QuitMark, QuitLock, PythonTake, PythonPreStart, PythonAck,
     PythonStart, PythonLoop, PythonBlock, PythonUnblock, PythonStop, TraceLeave,
     TraceEnd, Python, workerVars, statusVars, pythonVars, eventVars, traceVars,
     vars
<1>28. CASE PythonDies \/ PythonHangs
  BY <1>28 DEF PythonDies, PythonHangs, Python, workerVars, statusVars, eventVars,
     traceVars
<1> QED BY <1>1, <1>2, <1>3, <1>4, <1>5, <1>6, <1>7, <1>8, <1>9, <1>10, <1>11,
            <1>12, <1>13, <1>14, <1>15, <1>16, <1>17, <1>18, <1>19, <1>20, <1>21,
            <1>22, <1>23, <1>24, <1>25, <1>26, <1>27, <1>28 DEF Next, Requests,
            StartStep, StopStep, NewStep, Exit, PythonStep, TraceStep

\* A job finds the status as it left it: only RepairPLC, between jobs, and the
\* job itself change it.
LEMMA StatusKeptKept == IInv /\ [Next]_vars => StatusKept'
<1> SUFFICES ASSUME IInv, [Next]_vars PROVE StatusKept'
  OBVIOUS
<1> USE DEF IInv, JobPlaces, StatusKept
<1>1. CASE StartPLC
  BY <1>1 DEF StartPLC, Begin, statusVars, pythonVars, eventVars, traceVars
<1>2. CASE StopPLC
  BY <1>2 DEF StopPLC, At, Goto, Begin, StopBegins, statusVars, eventVars, traceVars
<1>3. CASE StopPLCTwice
  BY <1>3 DEF StopPLCTwice, At, statusVars, eventVars
<1>4. CASE NewPLC
  BY <1>4 DEF NewPLC, Begin, statusVars, pythonVars, eventVars, traceVars
<1>5. CASE TracesSwap
  BY <1>5 DEF TracesSwap, Return, OneStep, statusVars, pythonVars, eventVars
<1>6. CASE OtherJob
  BY <1>6 DEF OtherJob, Return, OneStep, statusVars, pythonVars, eventVars,
     traceVars
<1>7. CASE PurgePLC
  BY <1>7 DEF PurgePLC, workerVars, pythonVars, eventVars, traceVars
<1>8. CASE Interrupt
  BY <1>8 DEF Interrupt, statusVars, pythonVars, eventVars, traceVars
<1>9. CASE AutoLoad
  BY <1>9 DEF AutoLoad, At, Return, pythonVars, eventVars, traceVars
<1>10. CASE StartLoad
  BY <1>10 DEF StartLoad, At, Return, LoadPLC, LoadPLCFails, workerVars, pythonVars,
     traceVars
<1>11. CASE StartPreStart
  BY <1>11 DEF StartPreStart, At, Goto, Command, statusVars, eventVars, traceVars
<1>12. CASE StartPreStarted
  BY <1>12 DEF StartPreStarted, Goto, Acknowledged, statusVars, eventVars, traceVars
<1>13. CASE StartLaunch
  BY <1>13 DEF StartLaunch, At, Goto, Return, Command, pythonVars, eventVars,
     traceVars
<1>14. CASE StartStarted
  BY <1>14 DEF StartStarted, Goto, Acknowledged, statusVars, eventVars, traceVars
<1>15. CASE StartEnd
  BY <1>15 DEF StartEnd, At, Return, statusVars, pythonVars, traceVars
<1>16. CASE StopNothing
  BY <1>16 DEF StopNothing, At, Goto, Return, StopReturns, statusVars, pythonVars,
     eventVars, traceVars
<1>17. CASE StopIterator
  BY <1>17 DEF StopIterator, Goto, statusVars, pythonVars, traceVars
<1>18. CASE StopTrace
  BY <1>18 DEF StopTrace, Goto, statusVars, pythonVars, eventVars, traceVars
<1>19. CASE StopJoin
  BY <1>19 DEF StopJoin, Goto, Return, Raises, statusVars, pythonVars, eventVars,
     traceVars
<1>20. CASE StopJoined
  BY <1>20 DEF StopJoined, Goto, statusVars, pythonVars, eventVars
<1>21. CASE StopWait
  BY <1>21 DEF StopWait, Goto, Return, StopReturns, NeverStops, pythonVars,
     eventVars, traceVars
<1>22. CASE UnLoadCommand
  BY <1>22 DEF UnLoadCommand, Goto, Return, Command, Raises, statusVars, pythonVars,
     eventVars, traceVars
<1>23. CASE UnLoadNothing
  BY <1>23 DEF UnLoadNothing, Goto, UnLoaded, pythonVars, eventVars, traceVars
<1>24. CASE UnLoadFinished
  BY <1>24 DEF UnLoadFinished, Goto, Acknowledged, UnLoaded, eventVars, traceVars
<1>25. CASE NewFiles
  BY <1>25 DEF NewFiles, At, Goto, Return, pythonVars, eventVars, traceVars
<1>26. CASE NewLoad
  BY <1>26 DEF NewLoad, At, Return, LoadPLC, LoadPLCFails, pythonVars, traceVars
<1>27. CASE Exit
  BY <1>27 DEF Exit, At, Goto, statusVars, pythonVars, eventVars, traceVars
<1>28. CASE QuitMark \/ QuitLock \/ PythonTake \/ PythonPreStart \/ PythonAck \/
           PythonStart \/ PythonLoop \/ PythonBlock \/ PythonUnblock \/ PythonStop
           \/ TraceLeave \/ TraceEnd \/ UNCHANGED vars
  BY <1>28 DEF QuitMark, QuitLock, PythonTake, PythonPreStart, PythonAck,
     PythonStart, PythonLoop, PythonBlock, PythonUnblock, PythonStop, TraceLeave,
     TraceEnd, Python, workerVars, statusVars, pythonVars, eventVars, traceVars,
     vars
<1>29. CASE PythonDies \/ PythonHangs
  BY <1>29 DEF PythonDies, PythonHangs, Python, workerVars, statusVars, eventVars,
     traceVars
<1> QED BY <1>1, <1>2, <1>3, <1>4, <1>5, <1>6, <1>7, <1>8, <1>9, <1>10, <1>11,
            <1>12, <1>13, <1>14, <1>15, <1>16, <1>17, <1>18, <1>19, <1>20, <1>21,
            <1>22, <1>23, <1>24, <1>25, <1>26, <1>27, <1>28, <1>29 DEF Next,
            Requests, StartStep, StopStep, NewStep, Exit, PythonStep, TraceStep

\* The PLC thread ends before its status changes, and while it runs the python
\* thread stays in its loop.
LEMMA RunningKept == IInv /\ [Next]_vars => Running'
<1> SUFFICES ASSUME IInv, [Next]_vars PROVE Running'
  OBVIOUS
<1> USE DEF IInv, JobPlaces, StatusKept, Running, Loaded, Handshake
<1>1. CASE StartPLC
  BY <1>1 DEF StartPLC, Begin, statusVars, pythonVars, eventVars, traceVars
<1>2. CASE StopPLC
  BY <1>2 DEF StopPLC, At, Goto, Begin, StopBegins, statusVars, eventVars, traceVars
<1>3. CASE StopPLCTwice
  BY <1>3 DEF StopPLCTwice, At, statusVars, eventVars
<1>4. CASE NewPLC
  BY <1>4 DEF NewPLC, Begin, statusVars, pythonVars, eventVars, traceVars
<1>5. CASE TracesSwap
  BY <1>5 DEF TracesSwap, Return, OneStep, statusVars, pythonVars, eventVars
<1>6. CASE OtherJob
  BY <1>6 DEF OtherJob, Return, OneStep, statusVars, pythonVars, eventVars,
     traceVars
<1>7. CASE PurgePLC
  BY <1>7 DEF PurgePLC, workerVars, pythonVars, eventVars, traceVars
<1>8. CASE QuitMark
  BY <1>8 DEF QuitMark, workerVars, statusVars, pythonVars, eventVars, traceVars
<1>9. CASE QuitLock
  BY <1>9 DEF QuitLock, workerVars, statusVars, pythonVars, eventVars, traceVars
<1>10. CASE Interrupt
  BY <1>10 DEF Interrupt, statusVars, pythonVars, eventVars, traceVars
<1>11. CASE AutoLoad
  BY <1>11 DEF AutoLoad, At, Return, pythonVars, eventVars, traceVars
<1>12. CASE StartLoad
  BY <1>12 DEF StartLoad, At, Return, LoadPLC, LoadPLCFails, workerVars, pythonVars,
     traceVars
<1>13. CASE StartPreStart
  BY <1>13 DEF StartPreStart, At, Goto, Command, statusVars, eventVars, traceVars
<1>14. CASE StartPreStarted
  BY <1>14 DEF StartPreStarted, Goto, Acknowledged, statusVars, eventVars, traceVars
<1>15. CASE StartLaunch
  BY <1>15 DEF StartLaunch, At, Goto, Return, Command, pythonVars, eventVars,
     traceVars
<1>16. CASE StartStarted
  BY <1>16 DEF StartStarted, Goto, Acknowledged, statusVars, eventVars, traceVars
<1>17. CASE StartEnd
  BY <1>17 DEF StartEnd, At, Return, statusVars, pythonVars, traceVars
<1>18. CASE StopNothing
  BY <1>18 DEF StopNothing, At, Goto, Return, StopReturns, statusVars, pythonVars,
     eventVars, traceVars
<1>19. CASE StopIterator
  BY <1>19 DEF StopIterator, Goto, statusVars, pythonVars, traceVars
<1>20. CASE StopTrace
  BY <1>20 DEF StopTrace, Goto, statusVars, pythonVars, eventVars, traceVars
<1>21. CASE StopJoin
  BY <1>21 DEF StopJoin, Goto, Return, Raises, statusVars, pythonVars, eventVars,
     traceVars
<1>22. CASE StopJoined
  BY <1>22 DEF StopJoined, Goto, statusVars, pythonVars, eventVars
<1>23. CASE StopWait
  BY <1>23 DEF StopWait, Goto, Return, StopReturns, NeverStops, pythonVars,
     eventVars, traceVars
<1>24. CASE UnLoadCommand
  BY <1>24 DEF UnLoadCommand, Goto, Return, Command, Raises, statusVars, pythonVars,
     eventVars, traceVars
<1>25. CASE UnLoadNothing
  BY <1>25 DEF UnLoadNothing, Goto, UnLoaded, pythonVars, eventVars, traceVars
<1>26. CASE UnLoadFinished
  BY <1>26 DEF UnLoadFinished, Goto, Acknowledged, UnLoaded, eventVars, traceVars
<1>27. CASE NewFiles
  BY <1>27 DEF NewFiles, At, Goto, Return, pythonVars, eventVars, traceVars
<1>28. CASE NewLoad
  BY <1>28 DEF NewLoad, At, Return, LoadPLC, LoadPLCFails, pythonVars, traceVars
<1>29. CASE Exit
  BY <1>29 DEF Exit, At, Goto, statusVars, pythonVars, eventVars, traceVars
<1>30. CASE PythonTake
  BY <1>30 DEF PythonTake, Python, workerVars, statusVars, eventVars, traceVars
<1>31. CASE PythonPreStart
  BY <1>31 DEF PythonPreStart, Python, workerVars, statusVars, eventVars, traceVars
<1>32. CASE PythonAck
  BY <1>32 DEF PythonAck, Python, workerVars, statusVars, eventVars, traceVars
<1>33. CASE PythonStart
  BY <1>33 DEF PythonStart, Python, workerVars, statusVars, eventVars, traceVars
<1>34. CASE PythonLoop
  BY <1>34 DEF PythonLoop, Python, workerVars, statusVars, eventVars, traceVars
<1>35. CASE PythonBlock
  BY <1>35 DEF PythonBlock, Python, workerVars, statusVars, traceVars
<1>36. CASE PythonUnblock
  BY <1>36 DEF PythonUnblock, Python, workerVars, statusVars, eventVars, traceVars
<1>37. CASE PythonStop
  BY <1>37 DEF PythonStop, Python, workerVars, statusVars, traceVars
<1>38. CASE TraceLeave \/ TraceEnd \/ UNCHANGED vars
  BY <1>38 DEF TraceLeave, TraceEnd, workerVars, statusVars, pythonVars, eventVars,
     traceVars, vars
<1>39. CASE PythonDies \/ PythonHangs
  BY <1>39 DEF PythonDies, PythonHangs, Python, workerVars, statusVars, eventVars,
     traceVars
<1> QED BY <1>1, <1>2, <1>3, <1>4, <1>5, <1>6, <1>7, <1>8, <1>9, <1>10, <1>11,
            <1>12, <1>13, <1>14, <1>15, <1>16, <1>17, <1>18, <1>19, <1>20, <1>21,
            <1>22, <1>23, <1>24, <1>25, <1>26, <1>27, <1>28, <1>29, <1>30, <1>31,
            <1>32, <1>33, <1>34, <1>35, <1>36, <1>37, <1>38, <1>39 DEF Next,
            Requests, StartStep, StopStep, NewStep, Exit, PythonStep, TraceStep

\* The library is loaded, and unloaded, with the python thread in its place.
LEMMA LoadedKept == IInv /\ [Next]_vars => Loaded'
<1> SUFFICES ASSUME IInv, [Next]_vars PROVE Loaded'
  OBVIOUS
<1> USE DEF IInv, JobPlaces, StatusKept, Running, Loaded, Stopped, Handshake
<1>1. CASE StartPLC
  BY <1>1 DEF StartPLC, Begin, statusVars, pythonVars, eventVars, traceVars
<1>2. CASE StopPLC
  BY <1>2 DEF StopPLC, At, Goto, Begin, StopBegins, statusVars, eventVars, traceVars
<1>3. CASE StopPLCTwice
  BY <1>3 DEF StopPLCTwice, At, statusVars, eventVars
<1>4. CASE NewPLC
  BY <1>4 DEF NewPLC, Begin, statusVars, pythonVars, eventVars, traceVars
<1>5. CASE TracesSwap
  BY <1>5 DEF TracesSwap, Return, OneStep, statusVars, pythonVars, eventVars
<1>6. CASE OtherJob
  BY <1>6 DEF OtherJob, Return, OneStep, statusVars, pythonVars, eventVars,
     traceVars
<1>7. CASE PurgePLC
  BY <1>7 DEF PurgePLC, workerVars, pythonVars, eventVars, traceVars
<1>8. CASE Interrupt
  BY <1>8 DEF Interrupt, statusVars, pythonVars, eventVars, traceVars
<1>9. CASE AutoLoad
  BY <1>9 DEF AutoLoad, At, Return, pythonVars, eventVars, traceVars
<1>10. CASE StartLoad
  <2>1. /\ PLCStatus = "Stopped" /\ PLClibraryHandle = "none" /\ ~python_runtime_vars
        /\ CurrentPLCFilename # "none" /\ ~plc /\ python = "none" /\ job = "StartPLC"
    BY <1>10 DEF StartLoad, At
  <2>2. UNCHANGED <<CurrentPLCFilename, plc>>
    BY <1>10 DEF StartLoad
  <2>3. CASE LoadPLC /\ UNCHANGED <<workerVars, PLCStatus>>
    BY <2>1, <2>2, <2>3 DEF LoadPLC, workerVars
  <2>4. CASE LoadPLCFails /\ Return /\ PLCStatus' = "Broken"
    BY <2>1, <2>2, <2>4, LoadFailure DEF Return
  <2> QED BY <1>10, <2>3, <2>4 DEF StartLoad
<1>11. CASE StartPreStart
  BY <1>11 DEF StartPreStart, At, Goto, Command, statusVars, eventVars, traceVars
<1>12. CASE StartPreStarted
  BY <1>12 DEF StartPreStarted, Goto, Acknowledged, statusVars, eventVars, traceVars
<1>13. CASE StartLaunch
  BY <1>13 DEF StartLaunch, At, Goto, Return, Command, pythonVars, eventVars,
     traceVars
<1>14. CASE StartStarted
  BY <1>14 DEF StartStarted, Goto, Acknowledged, statusVars, eventVars, traceVars
<1>15. CASE StartEnd
  BY <1>15 DEF StartEnd, At, Return, statusVars, pythonVars, traceVars
<1>16. CASE StopNothing
  BY <1>16 DEF StopNothing, At, Goto, Return, StopReturns, statusVars, pythonVars,
     eventVars, traceVars
<1>17. CASE StopIterator
  BY <1>17 DEF StopIterator, Goto, statusVars, pythonVars, traceVars
<1>18. CASE StopTrace
  BY <1>18 DEF StopTrace, Goto, statusVars, pythonVars, eventVars, traceVars
<1>19. CASE StopJoin
  BY <1>19 DEF StopJoin, Goto, Return, Raises, statusVars, pythonVars, eventVars,
     traceVars
<1>20. CASE StopJoined
  BY <1>20 DEF StopJoined, Goto, statusVars, pythonVars, eventVars
<1>21. CASE StopWait
  BY <1>21 DEF StopWait, Goto, Return, StopReturns, NeverStops, pythonVars,
     eventVars, traceVars
<1>22. CASE UnLoadCommand
  BY <1>22 DEF UnLoadCommand, Goto, Return, Command, Raises, statusVars, pythonVars,
     eventVars, traceVars
<1>23. CASE UnLoadNothing
  BY <1>23 DEF UnLoadNothing, Goto, UnLoaded, pythonVars, eventVars, traceVars
<1>24. CASE UnLoadFinished
  BY <1>24 DEF UnLoadFinished, Goto, Acknowledged, UnLoaded, eventVars, traceVars
<1>25. CASE NewFiles
  BY <1>25, PLCObjectAssumption DEF NewFiles, At, Goto, Return, pythonVars,
     eventVars, traceVars, PLCObjectAssumption
<1>26. CASE NewLoad
  <2>1. ~python_runtime_vars /\ CurrentPLCFilename # "none" /\ ~plc
    BY <1>26 DEF NewLoad, At
  <2>2. UNCHANGED <<CurrentPLCFilename, plc>> /\ Return
    BY <1>26 DEF NewLoad
  <2>3. CASE LoadPLC /\ PLCStatus' = "Stopped"
    BY <2>1, <2>2, <2>3 DEF LoadPLC, Return
  <2>4. CASE LoadPLCFails /\ PLCStatus' = "Broken"
    BY <2>1, <2>2, <2>4, LoadFailure DEF Return
  <2> QED BY <1>26, <2>3, <2>4 DEF NewLoad
<1>27. CASE Exit
  BY <1>27 DEF Exit, At, Goto, statusVars, pythonVars, eventVars, traceVars
<1>28. CASE PythonTake
  BY <1>28 DEF PythonTake, Python, workerVars, statusVars, eventVars, traceVars
<1>29. CASE PythonPreStart
  BY <1>29 DEF PythonPreStart, Python, workerVars, statusVars, eventVars, traceVars
<1>30. CASE PythonAck
  BY <1>30 DEF PythonAck, Python, workerVars, statusVars, eventVars, traceVars
<1>31. CASE PythonStart
  BY <1>31 DEF PythonStart, Python, workerVars, statusVars, eventVars, traceVars
<1>32. CASE PythonLoop
  BY <1>32 DEF PythonLoop, Python, workerVars, statusVars, eventVars, traceVars
<1>33. CASE PythonBlock
  BY <1>33 DEF PythonBlock, Python, workerVars, statusVars, traceVars
<1>34. CASE PythonUnblock
  BY <1>34 DEF PythonUnblock, Python, workerVars, statusVars, eventVars, traceVars
<1>35. CASE PythonStop
  BY <1>35 DEF PythonStop, Python, workerVars, statusVars, traceVars
<1>36. CASE QuitMark \/ QuitLock \/ TraceLeave \/ TraceEnd \/ UNCHANGED vars
  BY <1>36 DEF QuitMark, QuitLock, TraceLeave, TraceEnd, workerVars, statusVars,
     pythonVars, eventVars, traceVars, vars
<1>37. CASE PythonDies \/ PythonHangs
  BY <1>37 DEF PythonDies, PythonHangs, Python, workerVars, statusVars, eventVars,
     traceVars
<1> QED BY <1>1, <1>2, <1>3, <1>4, <1>5, <1>6, <1>7, <1>8, <1>9, <1>10, <1>11,
            <1>12, <1>13, <1>14, <1>15, <1>16, <1>17, <1>18, <1>19, <1>20, <1>21,
            <1>22, <1>23, <1>24, <1>25, <1>26, <1>27, <1>28, <1>29, <1>30, <1>31,
            <1>32, <1>33, <1>34, <1>35, <1>36, <1>37 DEF Next, Requests,
            StartStep, StopStep, NewStep, Exit, PythonStep, TraceStep

\* PlcStopped is cleared by a start that has been heard, and set by the python
\* thread.
LEMMA StoppedKept == IInv /\ [Next]_vars => Stopped'
<1> SUFFICES ASSUME IInv, [Next]_vars PROVE Stopped'
  OBVIOUS
<1> USE DEF IInv, TypeOK, ValuesOK, Cmds, JobPlaces, StatusKept, Running, Loaded,
          Stopped, Handshake
<1>1. CASE StartPLC
  BY <1>1 DEF StartPLC, Begin, statusVars, pythonVars, eventVars, traceVars
<1>2. CASE StopPLC
  BY <1>2 DEF StopPLC, At, Goto, Begin, StopBegins, statusVars, eventVars, traceVars
<1>3. CASE StopPLCTwice
  BY <1>3 DEF StopPLCTwice, At, statusVars, eventVars
<1>4. CASE NewPLC
  BY <1>4 DEF NewPLC, Begin, statusVars, pythonVars, eventVars, traceVars
<1>5. CASE TracesSwap
  BY <1>5 DEF TracesSwap, Return, OneStep, statusVars, pythonVars, eventVars
<1>6. CASE OtherJob
  BY <1>6 DEF OtherJob, Return, OneStep, statusVars, pythonVars, eventVars,
     traceVars
<1>7. CASE PurgePLC
  BY <1>7 DEF PurgePLC, workerVars, pythonVars, eventVars, traceVars
<1>8. CASE Interrupt
  BY <1>8 DEF Interrupt, statusVars, pythonVars, eventVars, traceVars
<1>9. CASE AutoLoad
  BY <1>9 DEF AutoLoad, At, Return, pythonVars, eventVars, traceVars
<1>10. CASE StartLoad
  BY <1>10 DEF StartLoad, At, Return, LoadPLC, LoadPLCFails, workerVars, pythonVars,
     traceVars
<1>11. CASE StartPreStart
  BY <1>11 DEF StartPreStart, At, Goto, Command, statusVars, eventVars, traceVars
<1>12. CASE StartPreStarted
  BY <1>12 DEF StartPreStarted, Goto, Acknowledged, statusVars, eventVars, traceVars
<1>13. CASE StartLaunch
  BY <1>13 DEF StartLaunch, At, Goto, Return, Command, pythonVars, eventVars,
     traceVars
<1>14. CASE StartStarted
  BY <1>14 DEF StartStarted, Goto, Acknowledged, statusVars, eventVars, traceVars
<1>15. CASE StartEnd
  BY <1>15 DEF StartEnd, At, Return, statusVars, pythonVars, traceVars
<1>16. CASE StopNothing
  BY <1>16 DEF StopNothing, At, Goto, Return, StopReturns, statusVars, pythonVars,
     eventVars, traceVars
<1>17. CASE StopIterator
  BY <1>17 DEF StopIterator, Goto, statusVars, pythonVars, traceVars
<1>18. CASE StopTrace
  BY <1>18 DEF StopTrace, Goto, statusVars, pythonVars, eventVars, traceVars
<1>19. CASE StopJoin
  BY <1>19 DEF StopJoin, Goto, Return, Raises, statusVars, pythonVars, eventVars,
     traceVars
<1>20. CASE StopJoined
  BY <1>20 DEF StopJoined, Goto, statusVars, pythonVars, eventVars
<1>21. CASE StopWait
  BY <1>21 DEF StopWait, Goto, Return, StopReturns, NeverStops, pythonVars,
     eventVars, traceVars
<1>22. CASE UnLoadCommand
  BY <1>22 DEF UnLoadCommand, Goto, Return, Command, Raises, statusVars, pythonVars,
     eventVars, traceVars
<1>23. CASE UnLoadNothing
  BY <1>23 DEF UnLoadNothing, Goto, UnLoaded, pythonVars, eventVars, traceVars
<1>24. CASE UnLoadFinished
  BY <1>24 DEF UnLoadFinished, Goto, Acknowledged, UnLoaded, eventVars, traceVars
<1>25. CASE NewFiles
  BY <1>25 DEF NewFiles, At, Goto, Return, pythonVars, eventVars, traceVars
<1>26. CASE NewLoad
  BY <1>26 DEF NewLoad, At, Return, LoadPLC, LoadPLCFails, pythonVars, traceVars
<1>27. CASE Exit
  BY <1>27 DEF Exit, At, Goto, statusVars, pythonVars, eventVars, traceVars
<1>28. CASE PythonTake
  BY <1>28 DEF PythonTake, Python, workerVars, statusVars, eventVars, traceVars
<1>29. CASE PythonPreStart
  BY <1>29 DEF PythonPreStart, Python, workerVars, statusVars, eventVars, traceVars
<1>30. CASE PythonAck
  BY <1>30 DEF PythonAck, Python, workerVars, statusVars, eventVars, traceVars
<1>31. CASE PythonStart
  BY <1>31 DEF PythonStart, Python, workerVars, statusVars, eventVars, traceVars
<1>32. CASE PythonLoop
  BY <1>32 DEF PythonLoop, Python, workerVars, statusVars, eventVars, traceVars
<1>33. CASE PythonBlock
  BY <1>33 DEF PythonBlock, Python, workerVars, statusVars, traceVars
<1>34. CASE PythonUnblock
  BY <1>34 DEF PythonUnblock, Python, workerVars, statusVars, eventVars, traceVars
<1>35. CASE PythonStop
  BY <1>35 DEF PythonStop, Python, workerVars, statusVars, traceVars
<1>36. CASE QuitMark \/ QuitLock \/ TraceLeave \/ TraceEnd \/ UNCHANGED vars
  BY <1>36 DEF QuitMark, QuitLock, TraceLeave, TraceEnd, workerVars, statusVars,
     pythonVars, eventVars, traceVars, vars
<1>37. CASE PythonDies \/ PythonHangs
  BY <1>37 DEF PythonDies, PythonHangs, Python, workerVars, statusVars, eventVars,
     traceVars
<1> QED BY <1>1, <1>2, <1>3, <1>4, <1>5, <1>6, <1>7, <1>8, <1>9, <1>10, <1>11,
            <1>12, <1>13, <1>14, <1>15, <1>16, <1>17, <1>18, <1>19, <1>20, <1>21,
            <1>22, <1>23, <1>24, <1>25, <1>26, <1>27, <1>28, <1>29, <1>30, <1>31,
            <1>32, <1>33, <1>34, <1>35, <1>36, <1>37 DEF Next, Requests,
            StartStep, StopStep, NewStep, Exit, PythonStep, TraceStep

\* Each command is taken once, carried out and acknowledged once.
LEMMA HandshakeKept == IInv /\ [Next]_vars => Handshake'
<1> SUFFICES ASSUME IInv, [Next]_vars PROVE Handshake'
  OBVIOUS
<1> USE DEF IInv, TypeOK, ValuesOK, Cmds, JobPlaces, StatusKept, Running, Loaded,
          Stopped, Handshake
<1>1. CASE StartPLC
  BY <1>1 DEF StartPLC, Begin, statusVars, pythonVars, eventVars, traceVars
<1>2. CASE StopPLC
  BY <1>2 DEF StopPLC, At, Goto, Begin, StopBegins, statusVars, eventVars, traceVars
<1>3. CASE StopPLCTwice
  BY <1>3 DEF StopPLCTwice, At, statusVars, eventVars
<1>4. CASE NewPLC
  BY <1>4 DEF NewPLC, Begin, statusVars, pythonVars, eventVars, traceVars
<1>5. CASE TracesSwap
  BY <1>5 DEF TracesSwap, Return, OneStep, statusVars, pythonVars, eventVars
<1>6. CASE OtherJob
  BY <1>6 DEF OtherJob, Return, OneStep, statusVars, pythonVars, eventVars,
     traceVars
<1>7. CASE Interrupt
  BY <1>7 DEF Interrupt, statusVars, pythonVars, eventVars, traceVars
<1>8. CASE AutoLoad
  BY <1>8 DEF AutoLoad, At, Return, pythonVars, eventVars, traceVars
<1>9. CASE StartLoad
  BY <1>9 DEF StartLoad, At, Return, LoadPLC, LoadPLCFails, workerVars, pythonVars,
     traceVars
<1>10. CASE StartPreStart
  BY <1>10 DEF StartPreStart, At, Goto, Command, statusVars, eventVars, traceVars
<1>11. CASE StartPreStarted
  BY <1>11 DEF StartPreStarted, Goto, Acknowledged, statusVars, eventVars, traceVars
<1>12. CASE StartLaunch
  BY <1>12 DEF StartLaunch, At, Goto, Return, Command, pythonVars, eventVars,
     traceVars
<1>13. CASE StartStarted
  BY <1>13 DEF StartStarted, Goto, Acknowledged, statusVars, eventVars, traceVars
<1>14. CASE StartEnd
  BY <1>14 DEF StartEnd, At, Return, statusVars, pythonVars, traceVars
<1>15. CASE StopNothing
  BY <1>15 DEF StopNothing, At, Goto, Return, StopReturns, statusVars, pythonVars,
     eventVars, traceVars
<1>16. CASE StopIterator
  BY <1>16 DEF StopIterator, Goto, statusVars, pythonVars, traceVars
<1>17. CASE StopTrace
  BY <1>17 DEF StopTrace, Goto, statusVars, pythonVars, eventVars, traceVars
<1>18. CASE StopJoin
  BY <1>18 DEF StopJoin, Goto, Return, Raises, statusVars, pythonVars, eventVars,
     traceVars
<1>19. CASE StopJoined
  BY <1>19 DEF StopJoined, Goto, statusVars, pythonVars, eventVars
<1>20. CASE StopWait
  BY <1>20 DEF StopWait, Goto, Return, StopReturns, NeverStops, pythonVars,
     eventVars, traceVars
<1>21. CASE UnLoadCommand
  BY <1>21 DEF UnLoadCommand, Goto, Return, Command, Raises, statusVars, pythonVars,
     eventVars, traceVars
<1>22. CASE UnLoadNothing
  BY <1>22 DEF UnLoadNothing, Goto, UnLoaded, pythonVars, eventVars, traceVars
<1>23. CASE UnLoadFinished
  BY <1>23 DEF UnLoadFinished, Goto, Acknowledged, UnLoaded, eventVars, traceVars
<1>24. CASE NewFiles
  BY <1>24 DEF NewFiles, At, Goto, Return, pythonVars, eventVars, traceVars
<1>25. CASE NewLoad
  BY <1>25 DEF NewLoad, At, Return, LoadPLC, LoadPLCFails, pythonVars, traceVars
<1>26. CASE Exit
  BY <1>26 DEF Exit, At, Goto, statusVars, pythonVars, eventVars, traceVars
<1>27. CASE PythonTake
  BY <1>27 DEF PythonTake, Python, workerVars, statusVars, eventVars, traceVars
<1>28. CASE PythonPreStart
  BY <1>28 DEF PythonPreStart, Python, workerVars, statusVars, eventVars, traceVars
<1>29. CASE PythonAck
  BY <1>29 DEF PythonAck, Python, workerVars, statusVars, eventVars, traceVars
<1>30. CASE PythonStart
  BY <1>30 DEF PythonStart, Python, workerVars, statusVars, eventVars, traceVars
<1>31. CASE PythonLoop
  BY <1>31 DEF PythonLoop, Python, workerVars, statusVars, eventVars, traceVars
<1>32. CASE PythonBlock
  BY <1>32 DEF PythonBlock, Python, workerVars, statusVars, traceVars
<1>33. CASE PythonUnblock
  BY <1>33 DEF PythonUnblock, Python, workerVars, statusVars, eventVars, traceVars
<1>34. CASE PythonStop
  BY <1>34 DEF PythonStop, Python, workerVars, statusVars, traceVars
<1>35. CASE PurgePLC \/ QuitMark \/ QuitLock \/ TraceLeave \/ TraceEnd \/ UNCHANGED
           vars
  BY <1>35 DEF PurgePLC, QuitMark, QuitLock, TraceLeave, TraceEnd, workerVars,
     statusVars, pythonVars, eventVars, traceVars, vars
<1>36. CASE PythonDies \/ PythonHangs
  BY <1>36 DEF PythonDies, PythonHangs, Python, workerVars, statusVars, eventVars,
     traceVars
<1> QED BY <1>1, <1>2, <1>3, <1>4, <1>5, <1>6, <1>7, <1>8, <1>9, <1>10, <1>11,
            <1>12, <1>13, <1>14, <1>15, <1>16, <1>17, <1>18, <1>19, <1>20, <1>21,
            <1>22, <1>23, <1>24, <1>25, <1>26, <1>27, <1>28, <1>29, <1>30, <1>31,
            <1>32, <1>33, <1>34, <1>35, <1>36 DEF Next, Requests, StartStep,
            StopStep, NewStep, Exit, PythonStep, TraceStep

\* The trace thread ends before the PLC is reported stopped.
LEMMA TracedKept == IInv /\ [Next]_vars => Traced'
<1> SUFFICES ASSUME IInv, [Next]_vars PROVE Traced'
  OBVIOUS
<1> USE DEF IInv, JobPlaces, StatusKept, Loaded, Traced
<1>1. CASE StartPLC
  BY <1>1 DEF StartPLC, Begin, statusVars, pythonVars, eventVars, traceVars
<1>2. CASE StopPLC
  BY <1>2 DEF StopPLC, At, Goto, Begin, StopBegins, statusVars, eventVars, traceVars
<1>3. CASE StopPLCTwice
  BY <1>3 DEF StopPLCTwice, At, statusVars, eventVars
<1>4. CASE NewPLC
  BY <1>4 DEF NewPLC, Begin, statusVars, pythonVars, eventVars, traceVars
<1>5. CASE TracesSwap
  BY <1>5 DEF TracesSwap, Return, OneStep, statusVars, pythonVars, eventVars
<1>6. CASE OtherJob
  BY <1>6 DEF OtherJob, Return, OneStep, statusVars, pythonVars, eventVars,
     traceVars
<1>7. CASE PurgePLC
  BY <1>7 DEF PurgePLC, workerVars, pythonVars, eventVars, traceVars
<1>8. CASE QuitMark
  BY <1>8 DEF QuitMark, workerVars, statusVars, pythonVars, eventVars, traceVars
<1>9. CASE QuitLock
  BY <1>9 DEF QuitLock, workerVars, statusVars, pythonVars, eventVars, traceVars
<1>10. CASE Interrupt
  BY <1>10 DEF Interrupt, statusVars, pythonVars, eventVars, traceVars
<1>11. CASE AutoLoad
  BY <1>11 DEF AutoLoad, At, Return, pythonVars, eventVars, traceVars
<1>12. CASE StartLoad
  BY <1>12 DEF StartLoad, At, Return, LoadPLC, LoadPLCFails, workerVars, pythonVars,
     traceVars
<1>13. CASE StartPreStart
  BY <1>13 DEF StartPreStart, At, Goto, Command, statusVars, eventVars, traceVars
<1>14. CASE StartPreStarted
  BY <1>14 DEF StartPreStarted, Goto, Acknowledged, statusVars, eventVars, traceVars
<1>15. CASE StartLaunch
  BY <1>15 DEF StartLaunch, At, Goto, Return, Command, pythonVars, eventVars,
     traceVars
<1>16. CASE StartStarted
  BY <1>16 DEF StartStarted, Goto, Acknowledged, statusVars, eventVars, traceVars
<1>17. CASE StartEnd
  BY <1>17 DEF StartEnd, At, Return, statusVars, pythonVars, traceVars
<1>18. CASE StopNothing
  BY <1>18 DEF StopNothing, At, Goto, Return, StopReturns, statusVars, pythonVars,
     eventVars, traceVars
<1>19. CASE StopIterator
  BY <1>19 DEF StopIterator, Goto, statusVars, pythonVars, traceVars
<1>20. CASE StopTrace
  BY <1>20 DEF StopTrace, Goto, statusVars, pythonVars, eventVars, traceVars
<1>21. CASE StopJoin
  BY <1>21 DEF StopJoin, Goto, Return, Raises, statusVars, pythonVars, eventVars,
     traceVars
<1>22. CASE StopJoined
  BY <1>22 DEF StopJoined, Goto, statusVars, pythonVars, eventVars
<1>23. CASE StopWait
  BY <1>23 DEF StopWait, Goto, Return, StopReturns, NeverStops, pythonVars,
     eventVars, traceVars
<1>24. CASE UnLoadCommand
  BY <1>24 DEF UnLoadCommand, Goto, Return, Command, Raises, statusVars, pythonVars,
     eventVars, traceVars
<1>25. CASE UnLoadNothing
  BY <1>25 DEF UnLoadNothing, Goto, UnLoaded, pythonVars, eventVars, traceVars
<1>26. CASE UnLoadFinished
  BY <1>26 DEF UnLoadFinished, Goto, Acknowledged, UnLoaded, eventVars, traceVars
<1>27. CASE NewFiles
  BY <1>27 DEF NewFiles, At, Goto, Return, pythonVars, eventVars, traceVars
<1>28. CASE NewLoad
  BY <1>28 DEF NewLoad, At, Return, LoadPLC, LoadPLCFails, pythonVars, traceVars
<1>29. CASE Exit
  BY <1>29 DEF Exit, At, Goto, statusVars, pythonVars, eventVars, traceVars
<1>30. CASE TraceLeave
  BY <1>30 DEF TraceLeave, workerVars, statusVars, pythonVars, eventVars
<1>31. CASE TraceEnd
  BY <1>31 DEF TraceEnd, workerVars, statusVars, pythonVars, eventVars
<1>32. CASE PythonTake \/ PythonPreStart \/ PythonAck \/ PythonStart \/ PythonLoop \/
           PythonBlock \/ PythonUnblock \/ PythonStop \/ UNCHANGED vars
  BY <1>32 DEF PythonTake, PythonPreStart, PythonAck, PythonStart, PythonLoop,
     PythonBlock, PythonUnblock, PythonStop, Python, workerVars, statusVars,
     pythonVars, eventVars, traceVars, vars
<1>33. CASE PythonDies \/ PythonHangs
  BY <1>33 DEF PythonDies, PythonHangs, Python, workerVars, statusVars, eventVars,
     traceVars
<1> QED BY <1>1, <1>2, <1>3, <1>4, <1>5, <1>6, <1>7, <1>8, <1>9, <1>10, <1>11,
            <1>12, <1>13, <1>14, <1>15, <1>16, <1>17, <1>18, <1>19, <1>20, <1>21,
            <1>22, <1>23, <1>24, <1>25, <1>26, <1>27, <1>28, <1>29, <1>30, <1>31,
            <1>32, <1>33 DEF Next, Requests, StartStep, StopStep, NewStep, Exit,
            PythonStep, TraceStep
LEMMA StepIInv == IInv /\ [Next]_vars => IInv'
BY FlagsOKKept, ValuesOKKept, JobPlacesKept, StatusKeptKept, RunningKept, LoadedKept,
   StoppedKept, HandshakeKept, TracedKept DEF IInv, TypeOK

----------------------------------------------------------------------------
\* The inductive invariant of the PLC object, in every order of requests and of the
\* failures it has to live with.
THEOREM PLCObjectInvariant == Spec => []IInv
<1>1. Init => IInv
  BY InitIInv
<1>2. IInv /\ [Next]_vars => IInv'
  BY StepIInv
<1> QED BY <1>1, <1>2, PTL DEF Spec

\* The state of the PLC object keeps its types.
THEOREM PLCObjectTypeCorrect == Spec => []TypeOK
BY PLCObjectInvariant, PTL DEF IInv

\* What the IDE reads in PLCStatus between jobs is so: StopPLC and NewPLC do not
\* report a PLC as stopped while its threads are at work.
THEOREM StatusTold == Spec => []StatusIsTrue
<1>1. IInv => StatusIsTrue
  BY DEF IInv, JobPlaces, Running, Loaded, Stopped, StatusIsTrue
<1> QED BY <1>1, PLCObjectInvariant, PTL

\* UnLoadPLC() and a failing _LoadPLC() free the library only when the PLC, python
\* and trace threads are out of it.
THEOREM UnloadedAlone == Spec => []NotUnloadedInUse
<1>1. IInv => NotUnloadedInUse
  BY DEF IInv, Loaded, Traced, NotUnloadedInUse
<1> QED BY <1>1, PLCObjectInvariant, PTL

\* PythonThreadCommand() and PythonThreadProc() never miss each other, although
\* both slots hold one command only.
THEOREM NoCommandLost == Spec => []CommandHeard
<1>1. IInv => CommandHeard
  BY DEF IInv, Handshake, Cmds, CommandHeard
<1> QED BY <1>1, PLCObjectInvariant, PTL

\* The library's startPLC() is called when the python thread has done
\* PreStartPLC() for this start and waits for the next command.
THEOREM StartAfterPreStart == Spec => PreStartFirst
<1>1. IInv /\ [Next]_vars => [~plc /\ plc' => python = "take" /\ cmd = "PreStart"]_vars
  <2> SUFFICES ASSUME IInv, Next, ~plc, plc'
               PROVE  python = "take" /\ cmd = "PreStart"
    OBVIOUS
  <2>1. CASE StartLaunch
    BY <2>1 DEF StartLaunch, At, IInv, Handshake
  <2>2. CASE StartPLC \/ StopPLC \/ StopPLCTwice \/ NewPLC \/ TracesSwap \/ OtherJob
             \/ PurgePLC \/ QuitMark \/ QuitLock \/ Interrupt \/ AutoLoad \/
             StartLoad \/ StartPreStart \/ StartPreStarted \/ StartStarted \/
             StartEnd \/ StopNothing \/ StopIterator \/ StopTrace \/ StopJoin \/
             StopJoined \/ StopWait \/ UnLoadCommand \/ UnLoadNothing \/
             UnLoadFinished \/ NewFiles \/ NewLoad \/ Exit \/ PythonTake \/
             PythonPreStart \/ PythonAck \/ PythonStart \/ PythonLoop \/ PythonBlock
             \/ PythonUnblock \/ PythonStop \/ PythonDies \/ PythonHangs \/ TraceLeave
             \/ TraceEnd
    BY <2>2 DEF StartPLC, StopPLC, StopPLCTwice, NewPLC, TracesSwap, OtherJob, PurgePLC,
       QuitMark, QuitLock, Interrupt, AutoLoad, StartLoad, StartPreStart,
       StartPreStarted, StartStarted, StartEnd, StopNothing, StopIterator,
       StopTrace, StopJoin, StopJoined, StopWait, UnLoadCommand, UnLoadNothing,
       UnLoadFinished, NewFiles, NewLoad, Exit, PythonTake, PythonPreStart,
       PythonAck, PythonStart, PythonLoop, PythonBlock, PythonUnblock, PythonStop,
       PythonDies, PythonHangs, TraceLeave, TraceEnd, Begin, At, Goto, StopBegins, Return, OneStep, LoadPLC,
       LoadPLCFails, Command, Acknowledged, StopReturns, Raises, NeverStops,
       UnLoaded, Python, statusVars, pythonVars, eventVars, traceVars, workerVars
  <2> QED BY <2>1, <2>2 DEF Next, Requests, StartStep, StopStep, NewStep, PythonStep,
                            TraceStep
<1> QED BY <1>1, PLCObjectInvariant, PTL DEF Spec, PreStartFirst
=============================================================================
