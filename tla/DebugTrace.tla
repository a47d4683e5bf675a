---------------------------- MODULE DebugTrace ----------------------------
(***************************************************************************)
(* targets/plc_debug.c with the debug primitives of targets/Linux and the  *)
(* trace requests of runtime/PLCObject.py: how the values of variables get *)
(* from the PLC thread to the IDE.                                         *)
(*                                                                         *)
(* Three threads.  The worker registers the variables the IDE wants, and   *)
(* hands out the traces.  The PLC thread copies the registered variables   *)
(* to the one trace buffer at the end of a cycle, if the buffer is empty.  *)
(* The trace thread, started by the worker, waits for a full buffer, takes *)
(* it and empties it, and ends when nobody polls.  debug_mutex keeps the   *)
(* PLC out of the debug section while the list changes; debug_wait_mutex   *)
(* is a signal from the PLC thread to the trace thread.                    *)
(*                                                                         *)
(* A list of variables is known by the DebugToken of its registration.     *)
(*                                                                         *)
(* A definition under "Slip:" is no part of the model: it is a variant of  *)
(* the one that follows with a mistake in it, which a property must notice.*)
(***************************************************************************)
EXTENDS Naturals

CONSTANTS None,         \* no list, or nothing collected
          Mixed,        \* parts of a list, or of several
          MaxToken,     \* bound: SetTraceVariablesList() calls
          MaxStarts     \* bound: startPLC() calls

ASSUME DebugTraceAssumption == /\ MaxToken \in Nat
                               /\ MaxStarts \in Nat
                               /\ None \notin Nat
                               /\ Mixed \notin Nat
                               /\ None # Mixed

Tokens == 1..MaxToken
Lists == Tokens \cup {None, Mixed}

VARIABLES
    started,            \* PLCStatus = Started
    DebugToken,
    token,              \* the token that the IDE holds, or None
    TraceThread,        \* is it other than None?
    Traces,             \* the lists that the stored traces are of
    worker,             \* what the worker is at
    trace,              \* program counter of the trace thread
    got,                \* what the trace thread has read
    plc,                \* program counter of the PLC thread
    seen,               \* the list the PLC thread began to collect
    debug_mutex,        \* who locked it
    debug_wait,         \* is debug_wait_mutex unlocked, that is, signalled?
    DEBUG,
    trace_list, trace_buffer, trace_buffer_state,
    emptied,            \* history: a registration failed since startPLC()
    starts              \* how often startPLC() was called

objectVars == <<started, DebugToken, token, TraceThread, Traces>>
plcVars == <<plc, seen>>
traceVars == <<trace, got>>
bufferVars == <<trace_list, trace_buffer, trace_buffer_state, emptied>>
syncVars == <<debug_mutex, debug_wait, DEBUG>>
vars == <<objectVars, worker, traceVars, plcVars, bufferVars, syncVars, starts>>

FlagsOK ==
    /\ started \in BOOLEAN
    /\ TraceThread \in BOOLEAN
    /\ debug_wait \in BOOLEAN
    /\ DEBUG \in BOOLEAN
    /\ emptied \in BOOLEAN

ValuesOK ==
    /\ DebugToken \in 0..MaxToken
    /\ token \in Tokens \cup {None}
    /\ Traces \subseteq Lists
    /\ worker \in {"idle", "suspend", "reset", "register", "registered", "failed",
                   "disable", "swap", "take", "clear", "resume",
                   "cleanup", "stop", "join", "joined"}
    /\ trace \in {"off", "resume", "test", "wait", "read", "free", "append", "age",
                  "suspend", "end"}
    /\ got \in Lists
    /\ plc \in {"off", "cycle", "try", "entered", "collect", "publish", "leave"}
    /\ seen \in Lists
    /\ debug_mutex \in {"free", "plc", "worker"}
    /\ trace_list \in Lists
    /\ trace_buffer \in Lists
    /\ trace_buffer_state \in {"EMPTY", "FULL"}
    /\ starts \in 0..MaxStarts

TypeOK == FlagsOK /\ ValuesOK

Init ==
    /\ started = FALSE
    /\ DebugToken = 0 /\ token = None
    /\ TraceThread = FALSE /\ Traces = {}
    /\ worker = "idle"
    /\ trace = "off" /\ got = None
    /\ plc = "off" /\ seen = None
    /\ debug_mutex = "free" /\ debug_wait = FALSE /\ DEBUG = FALSE
    /\ trace_list = None /\ trace_buffer = None /\ trace_buffer_state = "EMPTY"
    /\ emptied = FALSE
    /\ starts = 0

----------------------------------------------------------------------------
(* debug_mutex.  resumeDebug() unlocks it, whoever locked it.               *)

Lock(who) == debug_mutex = "free" /\ debug_mutex' = who

resumeDebug == DEBUG' = TRUE /\ debug_mutex' = "free" /\ UNCHANGED debug_wait

\* suspendDebug(True): lock, disable, unlock.
suspendDebug == debug_mutex = "free" /\ DEBUG' = FALSE /\ UNCHANGED <<debug_mutex, debug_wait>>

Worker(from, to) == worker = from /\ worker' = to
Trace(from, to) == trace = from /\ trace' = to
Plc(from, to) == plc = from /\ plc' = to

----------------------------------------------------------------------------
(* The worker: SetTraceVariablesList() and GetTraceVariables().             *)

\* Slip: the IDE takes the token from before the registration.
SetTraceVariablesListOld ==
    /\ DebugToken < MaxToken
    /\ DebugToken' = DebugToken + 1
    /\ token' = DebugToken
    /\ Worker("idle", "suspend") \/ Worker("idle", "disable")
    /\ UNCHANGED <<started, TraceThread, Traces, traceVars, plcVars, bufferVars, syncVars,
                   starts>>

SetTraceVariablesList ==
    /\ DebugToken < MaxToken
    /\ DebugToken' = DebugToken + 1
    /\ token' = None
    /\ Worker("idle", "suspend") \/ Worker("idle", "disable")     \* are there idxs?
    /\ UNCHANGED <<started, TraceThread, Traces, traceVars, plcVars, bufferVars, syncVars,
                   starts>>

\* suspendDebug(False)
Suspend ==
    /\ Worker("suspend", "reset")
    /\ Lock("worker")
    /\ DEBUG' = TRUE
    /\ UNCHANGED <<objectVars, traceVars, plcVars, bufferVars, debug_wait, starts>>

ResetDebugVariables ==
    /\ Worker("reset", "register")
    /\ trace_list' = None
    /\ UNCHANGED <<objectVars, traceVars, plcVars, trace_buffer, trace_buffer_state, emptied,
                   syncVars, starts>>

\* The first variables, and then the last of them.
RegisterDebugVariable ==
    /\ \/ Worker("register", "registered") /\ trace_list' = Mixed
       \/ Worker("registered", "swap") /\ trace_list' = DebugToken
    /\ UNCHANGED <<objectVars, traceVars, plcVars, trace_buffer, trace_buffer_state, emptied,
                   syncVars, starts>>

\* A list or a buffer overflows, or the size of a forced value is wrong.
RegisterFails ==
    /\ Worker("register", "failed") \/ Worker("registered", "failed")
    /\ trace_list' = None
    /\ trace_buffer_state' = "EMPTY"
    /\ emptied' = TRUE
    /\ UNCHANGED <<objectVars, traceVars, plcVars, trace_buffer, syncVars, starts>>

ResumeFailed ==
    /\ Worker("failed", "disable")
    /\ resumeDebug
    /\ UNCHANGED <<objectVars, traceVars, plcVars, bufferVars, starts>>

Disable ==
    /\ Worker("disable", "idle")
    /\ suspendDebug
    /\ UNCHANGED <<objectVars, traceVars, plcVars, bufferVars, starts>>

StartTraceThread ==
    IF started /\ ~TraceThread
    THEN TraceThread' = TRUE /\ trace' = "resume"
    ELSE UNCHANGED <<TraceThread, trace>>

\* _TracesSwap() after a registration, and in GetTraceVariables(token): the trace
\* thread is started ...
GetTraceVariables ==
    /\ \/ Worker("swap", "clear")
       \/ token # None /\ token = DebugToken /\ Worker("idle", "take")
    /\ StartTraceThread
    /\ UNCHANGED <<started, DebugToken, token, Traces, got, plcVars, bufferVars, syncVars,
                   starts>>

\* ... and the traces are taken, or thrown away.
TracesSwap ==
    /\ Worker("take", "idle") \/ Worker("clear", "resume")
    /\ Traces' = {}
    /\ UNCHANGED <<started, DebugToken, token, TraceThread, traceVars, plcVars, bufferVars,
                   syncVars, starts>>

Resume ==
    /\ Worker("resume", "idle")
    /\ resumeDebug
    /\ token' = DebugToken
    /\ UNCHANGED <<started, DebugToken, TraceThread, Traces, traceVars, plcVars, bufferVars,
                   starts>>

----------------------------------------------------------------------------
(* The worker: StartPLC() and StopPLC().                                    *)

StartPLC ==
    /\ ~started
    /\ worker = "idle"
    /\ starts < MaxStarts
    /\ starts' = starts + 1
    /\ started' = TRUE
    /\ plc' = "cycle" /\ seen' = None
    /\ debug_mutex' = "free" /\ debug_wait' = FALSE
    /\ trace_list' = None /\ trace_buffer' = None /\ trace_buffer_state' = "EMPTY"
    /\ emptied' = FALSE
    /\ UNCHANGED <<DebugToken, token, TraceThread, Traces, worker, traceVars, DEBUG>>

\* The signal ends the PLC thread wherever it is.
StopPLC ==
    /\ plc # "off"
    /\ Worker("idle", "cleanup")
    /\ plc' = "off"
    /\ UNCHANGED <<objectVars, traceVars, seen, bufferVars, syncVars, starts>>

\* Slip: the trace thread is not woken up.
CleanupDebugSilent ==
    /\ Worker("cleanup", "stop")
    /\ trace_buffer' = None
    /\ UNCHANGED <<objectVars, traceVars, plcVars, trace_list, trace_buffer_state, emptied,
                   syncVars, starts>>

\* __cleanup_debug(): the buffer is truncated, and the trace thread woken up.
CleanupDebug ==
    /\ Worker("cleanup", "stop")
    /\ trace_buffer' = None
    /\ debug_wait' = TRUE
    /\ UNCHANGED <<objectVars, traceVars, plcVars, trace_list, trace_buffer_state, emptied,
                   debug_mutex, DEBUG, starts>>

\* StopPLC() has joined the trace thread, or there is none.
Stopped == worker' = "idle" /\ started' = FALSE

\* if self.TraceThread is not None: self.TraceThread.join(), which raises an exception
\* if it has become None since.
StopJoin ==
    /\ \/ worker = "stop" /\ TraceThread /\ worker' = "join" /\ UNCHANGED started
       \/ worker = "stop" /\ ~TraceThread /\ Stopped
       \/ Worker("join", IF TraceThread THEN "joined" ELSE "idle") /\ UNCHANGED started
    /\ UNCHANGED <<DebugToken, token, TraceThread, Traces, traceVars, plcVars, bufferVars,
                   syncVars, starts>>

\* Slip: the trace thread is not waited for.
StopUnjoined ==
    /\ worker = "joined"
    /\ TraceThread' = FALSE
    /\ Stopped
    /\ UNCHANGED <<DebugToken, token, Traces, traceVars, plcVars, bufferVars, syncVars, starts>>

StopJoined ==
    /\ worker = "joined"
    /\ trace = "off"
    /\ TraceThread' = FALSE
    /\ Stopped
    /\ UNCHANGED <<DebugToken, token, Traces, traceVars, plcVars, bufferVars, syncVars, starts>>

----------------------------------------------------------------------------
(* The PLC thread: __publish_debug(), once per cycle.                       *)

\* TryEnterDebugSection() locks the mutex if it can ...
PlcEnter ==
    /\ Plc("cycle", "try")
    /\ Lock("plc")
    /\ UNCHANGED <<objectVars, worker, traceVars, seen, bufferVars, debug_wait, DEBUG, starts>>

\* ... and unlocks it if the debugger is not active.
PlcTest ==
    /\ Plc("try", IF DEBUG THEN "entered" ELSE "leave")
    /\ UNCHANGED <<objectVars, worker, traceVars, seen, bufferVars, syncVars, starts>>

\* Slip: the state of the buffer is not looked at.
PlcClaimAlways ==
    /\ Plc("entered", "collect")
    /\ trace_buffer_state' = "FULL" /\ seen' = trace_list
    /\ UNCHANGED <<objectVars, worker, traceVars, trace_list, trace_buffer, emptied, syncVars,
                   starts>>

\* Compare and exchange of the buffer's state, and the first variables.
PlcClaim ==
    /\ \/ /\ trace_buffer_state = "EMPTY"
          /\ Plc("entered", "collect")
          /\ trace_buffer_state' = "FULL" /\ seen' = trace_list
       \/ /\ trace_buffer_state = "FULL"
          /\ Plc("entered", "leave")
          /\ UNCHANGED <<trace_buffer_state, seen>>
    /\ UNCHANGED <<objectVars, worker, traceVars, trace_list, trace_buffer, emptied, syncVars,
                   starts>>

\* The last variables, of what is the list by now.
PlcCollect ==
    /\ Plc("collect", "publish")
    /\ trace_buffer' = IF trace_list = seen THEN seen ELSE Mixed
    /\ UNCHANGED <<objectVars, worker, traceVars, seen, trace_list, trace_buffer_state, emptied,
                   syncVars, starts>>

\* InitiateDebugTransfer()
PlcPublish ==
    /\ Plc("publish", "leave")
    /\ debug_wait' = TRUE
    /\ UNCHANGED <<objectVars, worker, traceVars, seen, bufferVars, debug_mutex, DEBUG, starts>>

\* Slip: the mutex is kept.
PlcLeaveLocked ==
    /\ Plc("leave", "cycle")
    /\ UNCHANGED <<objectVars, worker, traceVars, seen, bufferVars, syncVars, starts>>

\* LeaveDebugSection(), or the end of a TryEnterDebugSection() that fails.
PlcLeave ==
    /\ Plc("leave", "cycle")
    /\ debug_mutex' = "free"
    /\ UNCHANGED <<objectVars, worker, traceVars, seen, bufferVars, debug_wait, DEBUG, starts>>

----------------------------------------------------------------------------
(* The trace thread: TraceThreadProc().                                     *)

TraceResume ==
    /\ Trace("resume", "test")
    /\ resumeDebug
    /\ UNCHANGED <<objectVars, worker, got, plcVars, bufferVars, starts>>

\* The loop's condition, and WaitDebugData()'s test of PLC_shutdown.
TraceTest ==
    /\ Trace("test", IF started /\ plc # "off" THEN "wait" ELSE "end")
    /\ UNCHANGED <<objectVars, worker, got, plcVars, bufferVars, syncVars, starts>>

TraceWoken ==
    /\ Trace("wait", "read")
    /\ debug_wait
    /\ debug_wait' = FALSE
    /\ UNCHANGED <<objectVars, worker, got, plcVars, bufferVars, debug_mutex, DEBUG, starts>>

TraceRead ==
    /\ Trace("read", "free")
    /\ got' = trace_buffer
    /\ UNCHANGED <<objectVars, worker, plcVars, bufferVars, syncVars, starts>>

\* Slip: a buffer without data is not freed.
FreeDebugDataIfAny ==
    /\ Trace("free", IF got = None THEN "age" ELSE "append")
    /\ trace_buffer_state' = IF got = None THEN trace_buffer_state ELSE "EMPTY"
    /\ UNCHANGED <<objectVars, worker, got, plcVars, trace_list, trace_buffer, emptied, syncVars,
                   starts>>

FreeDebugData ==
    /\ Trace("free", IF got = None THEN "age" ELSE "append")
    /\ trace_buffer_state' = "EMPTY"
    /\ UNCHANGED <<objectVars, worker, got, plcVars, trace_list, trace_buffer, emptied, syncVars,
                   starts>>

TraceAppend ==
    /\ Trace("append", "age")
    /\ Traces' = Traces \cup {got}
    /\ got' = None
    /\ UNCHANGED <<started, DebugToken, token, TraceThread, worker, plcVars, bufferVars,
                   syncVars, starts>>

\* Traces that nobody has polled for 3 seconds are dropped.
TraceAge ==
    /\ \/ Trace("age", "test") /\ UNCHANGED Traces
       \/ Trace("age", "suspend") /\ Traces' = {}
    /\ UNCHANGED <<started, DebugToken, token, TraceThread, worker, got, plcVars, bufferVars,
                   syncVars, starts>>

TraceSuspend ==
    /\ Trace("suspend", "end")
    /\ suspendDebug
    /\ UNCHANGED <<objectVars, worker, got, plcVars, bufferVars, starts>>

TraceEnd ==
    /\ Trace("end", "off")
    /\ TraceThread' = FALSE
    /\ UNCHANGED <<started, DebugToken, token, Traces, worker, got, plcVars, bufferVars,
                   syncVars, starts>>

----------------------------------------------------------------------------

Request == SetTraceVariablesList \/ StartPLC \/ StopPLC

WorkerStep == \/ Suspend \/ ResetDebugVariables \/ RegisterDebugVariable \/ RegisterFails
              \/ ResumeFailed \/ Disable \/ TracesSwap \/ Resume
              \/ CleanupDebug \/ StopJoin \/ StopJoined

PlcStep == PlcEnter \/ PlcTest \/ PlcClaim \/ PlcCollect \/ PlcPublish \/ PlcLeave

TraceStep == \/ TraceResume \/ TraceTest \/ TraceWoken \/ TraceRead \/ FreeDebugData
             \/ TraceAppend \/ TraceAge \/ TraceSuspend \/ TraceEnd

Next == Request \/ GetTraceVariables \/ WorkerStep \/ PlcStep \/ TraceStep

Spec == Init /\ [][Next]_vars

\* Threads run, and debug_mutex, which nobody holds for long, is not taken away from
\* any of them for ever.
Fairness ==
    /\ WF_vars(WorkerStep) /\ WF_vars(GetTraceVariables /\ worker = "swap")
    /\ SF_vars(Suspend) /\ SF_vars(Disable)
    /\ WF_vars(PlcStep) /\ SF_vars(PlcEnter)
    /\ WF_vars(TraceStep) /\ SF_vars(TraceSuspend)

FairSpec == Spec /\ Fairness

----------------------------------------------------------------------------
(* Properties.                                                              *)

\* Whoever finds TraceThread to be None may start a thread: no other is running, not
\* even its last instructions.
OneTraceThread == (trace # "off") = TraceThread

\* "when buffer is free, debugger stores arbitrary variables content into, and mark
\* this buffer as filled": the PLC does not write the buffer while the trace thread
\* reads it (a registration that fails empties the buffer without asking).
BufferOwned == /\ trace \in {"read", "free"} /\ ~emptied => plc # "collect"
               /\ plc = "collect" /\ ~emptied => trace_buffer_state = "FULL"

\* The PLC thread was ended in the debug section, or as it tried to enter: nobody
\* unlocks debug_mutex.
Stuck == plc = "off" /\ debug_mutex = "plc"

\* A debugger that is enabled and waits for data gets some.
TraceFlows == (trace = "wait" /\ DEBUG) ~> (trace # "wait" \/ ~DEBUG)

\* Neither the worker nor StopPLC()'s join waits for ever for the mutex or for a trace
\* thread that sleeps.
SuspendReturns == worker \in {"suspend", "disable"} ~>
                      (worker \notin {"suspend", "disable"} \/ Stuck)
StopReturns == worker = "joined" ~> (worker # "joined" \/ Stuck)

\* suspendDebug(), comment: "Prevent PLC to enter debug code", until resumeDebug(),
\* "Let PLC enter debug code".
SuspendExcludesPlc ==
    worker \in {"reset", "register", "registered"} => plc \notin {"entered", "collect", "publish"}

\* TraceThreadProc(), docstring: "Return a list of traces, corresponding to the list of
\* required idx": what is delivered with a token is not of another list (a trace that
\* mixes two lists is what SuspendExcludesPlc is about).
TracesMatch == worker = "take" => Traces \subseteq {token, Mixed}
=============================================================================
