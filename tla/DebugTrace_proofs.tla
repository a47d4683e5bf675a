------------------------- MODULE DebugTrace_proofs -------------------------
(***************************************************************************)
(* Proofs about DebugTrace: one trace thread at a time, and one owner of   *)
(* the trace buffer at a time, however often the variables are chosen and  *)
(* the PLC is started.                                                     *)
(***************************************************************************)
EXTENDS DebugTrace, TLAPS

\* Without a PLC there is no trace thread, and a worker that stops the PLC has
\* ended the PLC thread.
Stopping ==
    /\ ~started => trace = "off"
    /\ worker \in {"cleanup", "stop", "join", "joined"} => plc = "off"

\* Variables are registered under a token of their own.
Registering ==
    worker \in {"suspend", "reset", "register", "registered", "failed", "disable",
               "swap", "clear", "resume"} => DebugToken \in Tokens

\* The trace thread has the buffer, or is about to be given it.
Reading == debug_wait \/ trace \in {"read", "free"}

\* A buffer that is being filled is marked so, and nobody has been told of it;
\* a buffer that the trace thread was told of is marked until it is freed, and
\* it is told once.
Handover ==
    plc # "off" /\ ~emptied =>
        /\ plc \in {"collect", "publish"} => trace_buffer_state = "FULL" /\ ~Reading
        /\ Reading => trace_buffer_state = "FULL"
        /\ ~(debug_wait /\ trace \in {"read", "free"})

IInv == TypeOK /\ OneTraceThread /\ Stopping /\ Registering /\ Handover

----------------------------------------------------------------------------
(* Each action, under the invariant.                                       *)

LEMMA ListsOf == None \in Lists /\ Mixed \in Lists /\ Tokens \subseteq Lists
BY DEF Lists

LEMMA InitIInv == Init => IInv
<1> SUFFICES ASSUME Init PROVE IInv
  OBVIOUS
<1>1. TypeOK
  <2>1. FlagsOK
    BY Zenon DEF Init, FlagsOK
  <2>2. ValuesOK
    BY ListsOf, DebugTraceAssumption DEF Init, ValuesOK
  <2> QED BY <2>1, <2>2 DEF TypeOK
<1>2. OneTraceThread /\ Stopping /\ Registering /\ Handover
  BY DEF Init, OneTraceThread, Stopping, Registering, Handover, Reading
<1> QED BY <1>1, <1>2 DEF IInv

LEMMA RequestIInv == IInv /\ Request => IInv'
<1> SUFFICES ASSUME IInv, Request PROVE IInv'
  OBVIOUS
<1> USE DEF IInv
<1>1. CASE SetTraceVariablesList
  <2>1. DebugToken' \in Tokens /\ DebugToken' \in 0..MaxToken
    BY <1>1, DebugTraceAssumption
       DEF SetTraceVariablesList, TypeOK, ValuesOK, Tokens
  <2>2. FlagsOK'
    BY <1>1, Zenon DEF SetTraceVariablesList, Worker, traceVars, plcVars, bufferVars,
       syncVars, TypeOK, FlagsOK
  <2>3. ValuesOK'
    BY <1>1, <2>1 DEF SetTraceVariablesList, Worker, traceVars, plcVars, bufferVars,
       syncVars, TypeOK, ValuesOK
  <2>4. (OneTraceThread /\ Stopping /\ Registering /\ Handover)'
    BY <1>1, <2>1 DEF SetTraceVariablesList, Worker, traceVars, plcVars, bufferVars,
       syncVars, OneTraceThread, Stopping, Registering, Handover, Reading
  <2> QED BY <2>2, <2>3, <2>4 DEF IInv, TypeOK
<1>2. CASE StartPLC
  <2>1. starts' \in 0..MaxStarts
    BY <1>2, DebugTraceAssumption DEF StartPLC, TypeOK, ValuesOK
  <2>2. FlagsOK'
    BY <1>2, Zenon DEF StartPLC, traceVars, TypeOK, FlagsOK
  <2>3. ValuesOK'
    BY ListsOf, <1>2, <2>1 DEF StartPLC, traceVars, TypeOK, ValuesOK
  <2>4. (OneTraceThread /\ Stopping /\ Registering /\ Handover)'
    BY <1>2 DEF StartPLC, traceVars, OneTraceThread, Stopping,
       Registering, Handover, Reading
  <2> QED BY <2>2, <2>3, <2>4 DEF IInv, TypeOK
<1>3. CASE StopPLC
  <2>1. FlagsOK'
    BY <1>3, Zenon DEF StopPLC, Worker, objectVars, traceVars, bufferVars, syncVars,
       TypeOK, FlagsOK
  <2>2. ValuesOK'
    BY ListsOf, <1>3 DEF StopPLC, Worker, objectVars, traceVars, bufferVars, syncVars,
       TypeOK, ValuesOK
  <2>3. (OneTraceThread /\ Stopping /\ Registering /\ Handover)'
    BY <1>3 DEF StopPLC, Worker, objectVars, traceVars, bufferVars, syncVars,
       OneTraceThread, Stopping,
       Registering, Handover, Reading
  <2> QED BY <2>1, <2>2, <2>3 DEF IInv, TypeOK
<1> QED BY <1>1, <1>2, <1>3 DEF Request

\* What the worker does to the list of variables, with debug_mutex.
LEMMA RegisterIInv ==
    IInv /\ (Suspend \/ ResetDebugVariables \/ RegisterDebugVariable \/ RegisterFails
             \/ ResumeFailed \/ Disable \/ Resume) => IInv'
<1> SUFFICES ASSUME IInv,
                    \/ Suspend \/ ResetDebugVariables \/ RegisterDebugVariable
                    \/ RegisterFails \/ ResumeFailed \/ Disable \/ Resume
             PROVE  IInv'
  OBVIOUS
<1> USE DEF IInv, Worker, objectVars, traceVars, plcVars, bufferVars
<1>1. CASE Suspend
  <2>1. FlagsOK'
    BY <1>1, Zenon DEF Suspend, Lock, TypeOK, FlagsOK
  <2>2. ValuesOK'
    BY ListsOf, <1>1 DEF Suspend, Lock, TypeOK, ValuesOK
  <2>3. (OneTraceThread /\ Stopping /\ Registering /\ Handover)'
    BY <1>1 DEF Suspend, Lock, OneTraceThread, Stopping,
       Registering, Handover, Reading
  <2> QED BY <2>1, <2>2, <2>3 DEF IInv, TypeOK
<1>2. CASE ResetDebugVariables
  <2>1. FlagsOK'
    BY <1>2, Zenon DEF ResetDebugVariables, syncVars, TypeOK, FlagsOK
  <2>2. ValuesOK'
    BY ListsOf, <1>2 DEF ResetDebugVariables, syncVars, TypeOK, ValuesOK
  <2>3. (OneTraceThread /\ Stopping /\ Registering /\ Handover)'
    BY <1>2 DEF ResetDebugVariables, syncVars, OneTraceThread, Stopping,
       Registering, Handover, Reading
  <2> QED BY <2>1, <2>2, <2>3 DEF IInv, TypeOK
<1>3. CASE RegisterDebugVariable
  <2>1. FlagsOK'
    BY <1>3, Zenon DEF RegisterDebugVariable, syncVars, TypeOK, FlagsOK
  <2>2. ValuesOK'
    BY ListsOf, <1>3 DEF RegisterDebugVariable, syncVars, TypeOK, ValuesOK,
       Registering
  <2>3. (OneTraceThread /\ Stopping /\ Registering /\ Handover)'
    BY <1>3 DEF RegisterDebugVariable, syncVars, OneTraceThread, Stopping,
       Registering, Handover, Reading
  <2> QED BY <2>1, <2>2, <2>3 DEF IInv, TypeOK
<1>4. CASE RegisterFails
  <2>1. FlagsOK'
    BY <1>4, Zenon DEF RegisterFails, syncVars, TypeOK, FlagsOK
  <2>2. ValuesOK'
    BY ListsOf, <1>4 DEF RegisterFails, syncVars, TypeOK, ValuesOK
  <2>3. (OneTraceThread /\ Stopping /\ Registering /\ Handover)'
    BY <1>4 DEF RegisterFails, syncVars, OneTraceThread, Stopping,
       Registering, Handover, Reading
  <2> QED BY <2>1, <2>2, <2>3 DEF IInv, TypeOK
<1>5. CASE ResumeFailed
  <2>1. FlagsOK'
    BY <1>5, Zenon DEF ResumeFailed, resumeDebug, TypeOK, FlagsOK
  <2>2. ValuesOK'
    BY ListsOf, <1>5 DEF ResumeFailed, resumeDebug, TypeOK, ValuesOK
  <2>3. (OneTraceThread /\ Stopping /\ Registering /\ Handover)'
    BY <1>5 DEF ResumeFailed, resumeDebug, OneTraceThread, Stopping,
       Registering, Handover, Reading
  <2> QED BY <2>1, <2>2, <2>3 DEF IInv, TypeOK
<1>6. CASE Disable
  <2>1. FlagsOK'
    BY <1>6, Zenon DEF Disable, suspendDebug, TypeOK, FlagsOK
  <2>2. ValuesOK'
    BY ListsOf, <1>6 DEF Disable, suspendDebug, TypeOK, ValuesOK
  <2>3. (OneTraceThread /\ Stopping /\ Registering /\ Handover)'
    BY <1>6 DEF Disable, suspendDebug, OneTraceThread, Stopping,
       Registering, Handover, Reading
  <2> QED BY <2>1, <2>2, <2>3 DEF IInv, TypeOK
<1>7. CASE Resume
  <2>1. FlagsOK'
    BY <1>7, Zenon DEF Resume, resumeDebug, TypeOK, FlagsOK
  <2>2. ValuesOK'
    BY ListsOf, <1>7 DEF Resume, resumeDebug, TypeOK, ValuesOK, Registering
  <2>3. (OneTraceThread /\ Stopping /\ Registering /\ Handover)'
    BY <1>7 DEF Resume, resumeDebug, OneTraceThread, Stopping,
       Registering, Handover, Reading
  <2> QED BY <2>1, <2>2, <2>3 DEF IInv, TypeOK
<1> QED BY <1>1, <1>2, <1>3, <1>4, <1>5, <1>6, <1>7

\* The traces are taken, and the PLC is stopped.
LEMMA SwapStopIInv ==
    IInv /\ (GetTraceVariables \/ TracesSwap \/ CleanupDebug \/ StopJoin \/ StopJoined)
        => IInv'
<1> SUFFICES ASSUME IInv,
                    \/ GetTraceVariables \/ TracesSwap \/ CleanupDebug
                    \/ StopJoin \/ StopJoined
             PROVE  IInv'
  OBVIOUS
<1> USE DEF IInv, Worker, objectVars, traceVars, plcVars, bufferVars, syncVars
<1>1. CASE GetTraceVariables
  <2>1. FlagsOK'
    BY <1>1, Zenon DEF GetTraceVariables, StartTraceThread, TypeOK, FlagsOK
  <2>2. ValuesOK'
    BY ListsOf, <1>1 DEF GetTraceVariables, StartTraceThread, TypeOK, ValuesOK
  <2>3. (OneTraceThread /\ Stopping /\ Registering /\ Handover)'
    BY <1>1 DEF GetTraceVariables, StartTraceThread, OneTraceThread, Stopping,
       Registering, Handover, Reading
  <2> QED BY <2>1, <2>2, <2>3 DEF IInv, TypeOK
<1>2. CASE TracesSwap
  <2>1. FlagsOK'
    BY <1>2, Zenon DEF TracesSwap, TypeOK, FlagsOK
  <2>2. ValuesOK'
    BY ListsOf, <1>2 DEF TracesSwap, TypeOK, ValuesOK
  <2>3. (OneTraceThread /\ Stopping /\ Registering /\ Handover)'
    BY <1>2 DEF TracesSwap, OneTraceThread, Stopping,
       Registering, Handover, Reading
  <2> QED BY <2>1, <2>2, <2>3 DEF IInv, TypeOK
<1>3. CASE CleanupDebug
  <2>1. FlagsOK'
    BY <1>3, Zenon DEF CleanupDebug, TypeOK, FlagsOK
  <2>2. ValuesOK'
    BY ListsOf, <1>3 DEF CleanupDebug, TypeOK, ValuesOK
  <2>3. (OneTraceThread /\ Stopping /\ Registering /\ Handover)'
    BY <1>3 DEF CleanupDebug, OneTraceThread, Stopping,
       Registering, Handover, Reading
  <2> QED BY <2>1, <2>2, <2>3 DEF IInv, TypeOK
<1>4. CASE StopJoin
  <2>1. FlagsOK'
    BY <1>4, Zenon DEF StopJoin, Stopped, TypeOK, FlagsOK
  <2>2. ValuesOK'
    BY ListsOf, <1>4 DEF StopJoin, Stopped, TypeOK, ValuesOK
  <2>3. (OneTraceThread /\ Stopping /\ Registering /\ Handover)'
    BY <1>4 DEF StopJoin, Stopped, OneTraceThread, Stopping,
       Registering, Handover, Reading
  <2> QED BY <2>1, <2>2, <2>3 DEF IInv, TypeOK
<1>5. CASE StopJoined
  <2>1. FlagsOK'
    BY <1>5, Zenon DEF StopJoined, Stopped, TypeOK, FlagsOK
  <2>2. ValuesOK'
    BY ListsOf, <1>5 DEF StopJoined, Stopped, TypeOK, ValuesOK
  <2>3. (OneTraceThread /\ Stopping /\ Registering /\ Handover)'
    BY <1>5 DEF StopJoined, Stopped, OneTraceThread, Stopping,
       Registering, Handover, Reading
  <2> QED BY <2>1, <2>2, <2>3 DEF IInv, TypeOK
<1> QED BY <1>1, <1>2, <1>3, <1>4, <1>5

LEMMA PlcIInv == IInv /\ PlcStep => IInv'
<1> SUFFICES ASSUME IInv, PlcStep PROVE IInv'
  OBVIOUS
<1> USE DEF IInv, Plc, objectVars, traceVars, bufferVars, syncVars
<1>1. CASE PlcEnter
  <2>1. FlagsOK'
    BY <1>1, Zenon DEF PlcEnter, Lock, TypeOK, FlagsOK
  <2>2. ValuesOK'
    BY ListsOf, <1>1 DEF PlcEnter, Lock, TypeOK, ValuesOK
  <2>3. (OneTraceThread /\ Stopping /\ Registering /\ Handover)'
    BY <1>1 DEF PlcEnter, Lock, OneTraceThread, Stopping,
       Registering, Handover, Reading
  <2> QED BY <2>1, <2>2, <2>3 DEF IInv, TypeOK
<1>2. CASE PlcClaim
  <2>1. FlagsOK'
    BY <1>2, Zenon DEF PlcClaim, TypeOK, FlagsOK
  <2>2. ValuesOK'
    BY ListsOf, <1>2 DEF PlcClaim, TypeOK, ValuesOK
  <2>3. (OneTraceThread /\ Stopping /\ Registering /\ Handover)'
    BY <1>2 DEF PlcClaim, OneTraceThread, Stopping,
       Registering, Handover, Reading
  <2> QED BY <2>1, <2>2, <2>3 DEF IInv, TypeOK
<1>3. CASE PlcCollect
  <2>1. FlagsOK'
    BY <1>3, Zenon DEF PlcCollect, TypeOK, FlagsOK
  <2>2. ValuesOK'
    BY ListsOf, <1>3 DEF PlcCollect, TypeOK, ValuesOK
  <2>3. (OneTraceThread /\ Stopping /\ Registering /\ Handover)'
    BY <1>3 DEF PlcCollect, OneTraceThread, Stopping,
       Registering, Handover, Reading
  <2> QED BY <2>1, <2>2, <2>3 DEF IInv, TypeOK
<1>4. CASE PlcPublish
  <2>1. FlagsOK'
    BY <1>4, Zenon DEF PlcPublish, TypeOK, FlagsOK
  <2>2. ValuesOK'
    BY ListsOf, <1>4 DEF PlcPublish, TypeOK, ValuesOK
  <2>3. (OneTraceThread /\ Stopping /\ Registering /\ Handover)'
    BY <1>4 DEF PlcPublish, OneTraceThread, Stopping,
       Registering, Handover, Reading
  <2> QED BY <2>1, <2>2, <2>3 DEF IInv, TypeOK
<1>5. CASE PlcLeave
  <2>1. FlagsOK'
    BY <1>5, Zenon DEF PlcLeave, TypeOK, FlagsOK
  <2>2. ValuesOK'
    BY ListsOf, <1>5 DEF PlcLeave, TypeOK, ValuesOK
  <2>3. (OneTraceThread /\ Stopping /\ Registering /\ Handover)'
    BY <1>5 DEF PlcLeave, OneTraceThread, Stopping,
       Registering, Handover, Reading
  <2> QED BY <2>1, <2>2, <2>3 DEF IInv, TypeOK
<1>6. CASE PlcTest
  <2>1. FlagsOK'
    BY <1>6, Zenon DEF PlcTest, TypeOK, FlagsOK
  <2>2. ValuesOK'
    BY ListsOf, <1>6 DEF PlcTest, TypeOK, ValuesOK
  <2>3. (OneTraceThread /\ Stopping /\ Registering /\ Handover)'
    BY <1>6 DEF PlcTest, OneTraceThread, Stopping,
       Registering, Handover, Reading
  <2> QED BY <2>1, <2>2, <2>3 DEF IInv, TypeOK
<1> QED BY <1>1, <1>2, <1>3, <1>4, <1>5, <1>6 DEF PlcStep

LEMMA TraceIInv == IInv /\ TraceStep => IInv'
<1> SUFFICES ASSUME IInv, TraceStep PROVE IInv'
  OBVIOUS
<1> USE DEF IInv, Trace, objectVars, plcVars, bufferVars, syncVars
<1>1. CASE TraceResume
  <2>1. FlagsOK'
    BY <1>1, Zenon DEF TraceResume, resumeDebug, TypeOK, FlagsOK
  <2>2. ValuesOK'
    BY ListsOf, <1>1 DEF TraceResume, resumeDebug, TypeOK, ValuesOK
  <2>3. (OneTraceThread /\ Stopping /\ Registering /\ Handover)'
    BY <1>1 DEF TraceResume, resumeDebug, OneTraceThread, Stopping,
       Registering, Handover, Reading
  <2> QED BY <2>1, <2>2, <2>3 DEF IInv, TypeOK
<1>2. CASE TraceTest
  <2>1. FlagsOK'
    BY <1>2, Zenon DEF TraceTest, TypeOK, FlagsOK
  <2>2. ValuesOK'
    BY ListsOf, <1>2 DEF TraceTest, TypeOK, ValuesOK
  <2>3. (OneTraceThread /\ Stopping /\ Registering /\ Handover)'
    BY <1>2 DEF TraceTest, OneTraceThread, Stopping,
       Registering, Handover, Reading
  <2> QED BY <2>1, <2>2, <2>3 DEF IInv, TypeOK
<1>3. CASE TraceWoken
  <2>1. FlagsOK'
    BY <1>3, Zenon DEF TraceWoken, TypeOK, FlagsOK
  <2>2. ValuesOK'
    BY ListsOf, <1>3 DEF TraceWoken, TypeOK, ValuesOK
  <2>3. (OneTraceThread /\ Stopping /\ Registering /\ Handover)'
    BY <1>3 DEF TraceWoken, OneTraceThread, Stopping,
       Registering, Handover, Reading
  <2> QED BY <2>1, <2>2, <2>3 DEF IInv, TypeOK
<1>4. CASE TraceRead
  <2>1. FlagsOK'
    BY <1>4, Zenon DEF TraceRead, TypeOK, FlagsOK
  <2>2. ValuesOK'
    BY ListsOf, <1>4 DEF TraceRead, TypeOK, ValuesOK
  <2>3. (OneTraceThread /\ Stopping /\ Registering /\ Handover)'
    BY <1>4 DEF TraceRead, OneTraceThread, Stopping,
       Registering, Handover, Reading
  <2> QED BY <2>1, <2>2, <2>3 DEF IInv, TypeOK
<1>5. CASE FreeDebugData
  <2>1. FlagsOK'
    BY <1>5, Zenon DEF FreeDebugData, TypeOK, FlagsOK
  <2>2. ValuesOK'
    BY ListsOf, <1>5 DEF FreeDebugData, TypeOK, ValuesOK
  <2>3. (OneTraceThread /\ Stopping /\ Registering /\ Handover)'
    BY <1>5 DEF FreeDebugData, OneTraceThread, Stopping,
       Registering, Handover, Reading
  <2> QED BY <2>1, <2>2, <2>3 DEF IInv, TypeOK
<1>6. CASE TraceAppend
  <2>1. FlagsOK'
    BY <1>6, Zenon DEF TraceAppend, TypeOK, FlagsOK
  <2>2. ValuesOK'
    BY ListsOf, <1>6 DEF TraceAppend, TypeOK, ValuesOK
  <2>3. (OneTraceThread /\ Stopping /\ Registering /\ Handover)'
    BY <1>6 DEF TraceAppend, OneTraceThread, Stopping,
       Registering, Handover, Reading
  <2> QED BY <2>1, <2>2, <2>3 DEF IInv, TypeOK
<1>7. CASE TraceAge
  <2>1. FlagsOK'
    BY <1>7, Zenon DEF TraceAge, TypeOK, FlagsOK
  <2>2. ValuesOK'
    BY ListsOf, <1>7 DEF TraceAge, TypeOK, ValuesOK
  <2>3. (OneTraceThread /\ Stopping /\ Registering /\ Handover)'
    BY <1>7 DEF TraceAge, OneTraceThread, Stopping,
       Registering, Handover, Reading
  <2> QED BY <2>1, <2>2, <2>3 DEF IInv, TypeOK
<1>8. CASE TraceSuspend
  <2>1. FlagsOK'
    BY <1>8, Zenon DEF TraceSuspend, suspendDebug, TypeOK, FlagsOK
  <2>2. ValuesOK'
    BY ListsOf, <1>8 DEF TraceSuspend, suspendDebug, TypeOK, ValuesOK
  <2>3. (OneTraceThread /\ Stopping /\ Registering /\ Handover)'
    BY <1>8 DEF TraceSuspend, suspendDebug, OneTraceThread, Stopping,
       Registering, Handover, Reading
  <2> QED BY <2>1, <2>2, <2>3 DEF IInv, TypeOK
<1>9. CASE TraceEnd
  <2>1. FlagsOK'
    BY <1>9, Zenon DEF TraceEnd, TypeOK, FlagsOK
  <2>2. ValuesOK'
    BY ListsOf, <1>9 DEF TraceEnd, TypeOK, ValuesOK
  <2>3. (OneTraceThread /\ Stopping /\ Registering /\ Handover)'
    BY <1>9 DEF TraceEnd, OneTraceThread, Stopping,
       Registering, Handover, Reading
  <2> QED BY <2>1, <2>2, <2>3 DEF IInv, TypeOK
<1> QED BY <1>1, <1>2, <1>3, <1>4, <1>5, <1>6, <1>7, <1>8, <1>9 DEF TraceStep

LEMMA StepIInv == IInv /\ [Next]_vars => IInv'
<1> SUFFICES ASSUME IInv, [Next]_vars PROVE IInv'
  OBVIOUS
<1>1. CASE Request
  BY <1>1, RequestIInv
<1>2. CASE GetTraceVariables \/ WorkerStep
  BY <1>2, RegisterIInv, SwapStopIInv DEF WorkerStep
<1>3. CASE PlcStep
  BY <1>3, PlcIInv
<1>4. CASE TraceStep
  BY <1>4, TraceIInv
<1>5. CASE UNCHANGED vars
  BY <1>5 DEF IInv, TypeOK, FlagsOK, ValuesOK, OneTraceThread, Stopping, Registering,
       Handover, Reading,
              vars, objectVars, traceVars, plcVars, bufferVars, syncVars
<1> QED BY <1>1, <1>2, <1>3, <1>4, <1>5 DEF Next

----------------------------------------------------------------------------
\* The inductive invariant of the debugger: who has the trace buffer, for any
\* number of registrations and starts.
THEOREM DebugTraceInvariant == Spec => []IInv
<1>1. Init => IInv
  BY InitIInv
<1>2. IInv /\ [Next]_vars => IInv'
  BY StepIInv
<1> QED BY <1>1, <1>2, PTL DEF Spec

\* The state of the debugger keeps its types.
THEOREM DebugTraceTypeCorrect == Spec => []TypeOK
BY DebugTraceInvariant, PTL DEF IInv

\* _TracesSwap() starts a second trace thread only when the first is gone.
THEOREM TraceThreadIsOne == Spec => []OneTraceThread
BY DebugTraceInvariant, PTL DEF IInv

\* plc_debug.c's exchange of the buffer's state keeps the PLC thread and the
\* trace thread out of each other's way, although the buffer is filled and read
\* without a common mutex.
THEOREM BufferHasOneOwner == Spec => []BufferOwned
<1>1. IInv => BufferOwned
  BY DEF IInv, TypeOK, Handover, Reading, BufferOwned
<1> QED BY <1>1, DebugTraceInvariant, PTL
=============================================================================
