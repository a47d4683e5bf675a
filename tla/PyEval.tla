------------------------------ MODULE PyEval ------------------------------
(***************************************************************************)
(* py_ext/plc_python.c with the primitives of targets/Linux that it calls  *)
(* and the loop of PLCObject.PythonThreadLoop: how the real-time PLC thread*)
(* has python commands evaluated by the python thread.                     *)
(*                                                                         *)
(* The PLC thread never waits: it tries python_mutex once per cycle and, if*)
(* the python thread is in, leaves commands and answers for a later cycle. *)
(* The python thread sleeps on python_wait_mutex, which is not used as a   *)
(* lock but as a signal: locked by the sleeper, unlocked by the PLC thread.*)
(*                                                                         *)
(* A definition under "Slip:" is no part of the model: it is a variant of  *)
(* the one that follows with a mistake in it, which a property must notice.*)
(***************************************************************************)
EXTENDS Naturals, FiniteSets

CONSTANTS FBs,          \* the python_eval instances of the PLC program
          PollFBs,      \* those among them that are python_poll instances
          Codes,        \* values of the CODE inputs
          CodesOf,      \* those that the program gives to each instance
          Unreadable,   \* those that do not decode, or whose result does not encode
          NoValue,      \* an empty string
          Null,         \* a null pointer in the fifo
          MaxStarts     \* bound: how often the PLC is started

FBCount == Cardinality(FBs)             \* python_eval_fb_count
Cells == 0..(FBCount - 1)

ASSUME PyEvalAssumption == /\ IsFiniteSet(FBs)
                           /\ FBs # {}
                           /\ PollFBs \subseteq FBs
                           /\ CodesOf \in [FBs -> SUBSET Codes]
                           /\ Unreadable \subseteq Codes
                           /\ Null \notin FBs
                           /\ MaxStarts \in Nat

ResultOf(code) == <<"result", code>>    \* str(eval(code))
Results == {ResultOf(code) : code \in Codes}

\* The value that says that there is no text is not a result, whatever the text of
\* a result may be.
ASSUME ResultAssumption == NoValue \notin Results

VARIABLES
    EvalFBs, Current_PLC_EvalFB, Current_Python_EvalFB, PythonState,
    State, TRIGM1, TRIGGED, PREBUFFER, BUFFER, ACK, RESULT,  \* of each block
    asked,              \* history: CODE of each block at its latest trigger
    python_mutex,       \* who holds it
    python_wait,        \* is python_wait_mutex unlocked, that is, signalled?
    plc,                \* program counter of the PLC thread
    python,             \* program counter of the python thread
    res,                \* PythonThreadLoop: result of the latest command
    starts              \* how often startPLC() was called

fbVars == <<State, TRIGM1, TRIGGED, PREBUFFER, BUFFER, ACK, RESULT, asked>>
fifoVars == <<EvalFBs, Current_PLC_EvalFB, Current_Python_EvalFB>>
threadVars == <<plc, python, res, starts>>
syncVars == <<PythonState, python_mutex, python_wait>>
vars == <<fifoVars, fbVars, syncVars, threadVars>>

Flags == {"LOCKED_BY_PLC", "MUSTWAKEUP", "FINISHED"}
FBStates == {"FREE", "REQUESTED", "PROCESSING", "ANSWERED"}
PlcPcs == {"off", "sleep", "run", "unlock", "killed"}
PythonPcs == {"idle", "enter", "lock", "deliver", "scan", "wait", "woken", "relock",
              "command", "dead"}

TypeOK ==
    /\ EvalFBs \in [Cells -> FBs \cup {Null}]
    /\ Current_PLC_EvalFB \in Cells
    /\ Current_Python_EvalFB \in Cells
    /\ PythonState \subseteq Flags
    /\ State \in [FBs -> FBStates]
    /\ TRIGM1 \in [FBs -> BOOLEAN]
    /\ TRIGGED \in [FBs -> BOOLEAN]
    /\ PREBUFFER \in [FBs -> Codes \cup {NoValue}]
    /\ BUFFER \in [FBs -> Codes \cup Results \cup {NoValue}]
    /\ ACK \in [FBs -> BOOLEAN]
    /\ RESULT \in [FBs -> Codes \cup Results \cup {NoValue}]
    /\ asked \in [FBs -> Codes \cup {NoValue}]
    /\ python_mutex \in {"free", "plc", "python"}
    /\ python_wait \in BOOLEAN
    /\ plc \in PlcPcs
    /\ python \in PythonPcs
    /\ res \in Results \cup {NoValue}
    /\ starts \in 0..MaxStarts

\* Slip: the cursor runs out of the fifo.
NextCellUnwrapped(cell) == cell + 1

\* (cell + 1) % FBCount
NextCell(cell) == IF cell = FBCount - 1 THEN 0 ELSE cell + 1

Init ==
    /\ EvalFBs = [i \in Cells |-> Null]
    /\ Current_PLC_EvalFB = 0
    /\ Current_Python_EvalFB = 0
    /\ PythonState = {}
    /\ State = [f \in FBs |-> "FREE"]
    /\ TRIGM1 = [f \in FBs |-> FALSE]
    /\ TRIGGED = [f \in FBs |-> FALSE]
    /\ PREBUFFER = [f \in FBs |-> NoValue]
    /\ BUFFER = [f \in FBs |-> NoValue]
    /\ ACK = [f \in FBs |-> FALSE]
    /\ RESULT = [f \in FBs |-> NoValue]
    /\ asked = [f \in FBs |-> NoValue]
    /\ python_mutex = "free"
    /\ python_wait = FALSE
    /\ plc = "off"
    /\ python = "idle"
    /\ res = NoValue
    /\ starts = 0

----------------------------------------------------------------------------
(* startPLC(): mutexes, config_init__(), __init_py_ext(), then the thread.  *)

Start ==
    /\ plc = "off"
    /\ python = "idle"
    /\ starts < MaxStarts
    /\ starts' = starts + 1
    /\ EvalFBs' = [i \in Cells |-> Null]
    /\ Current_PLC_EvalFB' = 0
    /\ Current_Python_EvalFB' = 0
    /\ PythonState' = {}
    /\ State' = [f \in FBs |-> "FREE"]
    /\ TRIGM1' = [f \in FBs |-> FALSE]
    /\ TRIGGED' = [f \in FBs |-> FALSE]
    /\ PREBUFFER' = [f \in FBs |-> NoValue]
    /\ BUFFER' = [f \in FBs |-> NoValue]
    /\ ACK' = [f \in FBs |-> FALSE]
    /\ RESULT' = [f \in FBs |-> NoValue]
    /\ asked' = [f \in FBs |-> NoValue]
    /\ python_mutex' = "free"
    /\ python_wait' = FALSE
    /\ plc' = "sleep"
    /\ UNCHANGED <<python, res>>

----------------------------------------------------------------------------
(* The PLC thread: __run(). *)

\* __retrieve_py_ext()
Retrieve ==
    /\ plc = "sleep"
    /\ plc' = "run"
    /\ IF python_mutex = "free"
       THEN /\ python_mutex' = "plc"
            /\ PythonState' = {"LOCKED_BY_PLC"}
       ELSE /\ PythonState' = {}
            /\ UNCHANGED python_mutex
    /\ UNCHANGED <<fifoVars, fbVars, python_wait, python, res, starts>>

Locked == "LOCKED_BY_PLC" \in PythonState

\* Rising edge of TRIG, or TRIG itself when polling, unless already trigged.
Triggers(f, trig) == /\ trig
                     /\ ~TRIGGED[f]
                     /\ f \in PollFBs \/ ~TRIGM1[f]

\* An answer waits for block f and this call publishes it.
Publishes(f) == Locked /\ State[f] = "ANSWERED"

\* TRIGGED of block f once the answer is published.
TriggedThen(f, trig) == /\ TRIGGED[f] \/ Triggers(f, trig)
                        /\ Publishes(f) => f \in PollFBs

\* Slip: a block may be requested twice.
PushesAnyway(f, trig) == Locked /\ TriggedThen(f, trig)

\* This call enters block f in the fifo.
Pushes(f, trig) == /\ Locked
                   /\ TriggedThen(f, trig)
                   /\ State[f] \in {"FREE", "ANSWERED"}

\* Slip: ACK is not set low when the block enters the fifo.
AckThenHigh(f, trig) == IF Publishes(f) THEN TRUE
                        ELSE IF Locked /\ f \in PollFBs THEN FALSE
                        ELSE trig /\ ACK[f]

AckThen(f, trig) == IF Pushes(f, trig) /\ f \notin PollFBs THEN FALSE
                    ELSE IF Publishes(f) THEN TRUE
                    ELSE IF Locked /\ f \in PollFBs THEN FALSE
                    ELSE trig /\ ACK[f]

\* Slip: CODE is copied when the command enters the fifo, which may be cycles after
\* the trigger.
PrebufferLate(f, trig, code) ==
    IF Pushes(f, trig) THEN code ELSE PREBUFFER[f]

PrebufferThen(f, trig, code) ==
    IF Triggers(f, trig) THEN code ELSE PREBUFFER[f]

\* __PythonEvalFB(poll, data__), called by the PLC program with the inputs TRIG
\* and CODE of block f.
PythonEvalFB(f, trig, code) ==
    /\ plc = "run"
    /\ TRIGM1' = [TRIGM1 EXCEPT ![f] = trig]
    /\ PREBUFFER' = [PREBUFFER EXCEPT ![f] = PrebufferThen(f, trig, code)]
    /\ ACK' = [ACK EXCEPT ![f] = AckThen(f, trig)]
    /\ asked' = [asked EXCEPT ![f] = IF Triggers(f, trig) THEN code ELSE asked[f]]
    /\ RESULT' = IF Publishes(f) THEN [RESULT EXCEPT ![f] = BUFFER[f]] ELSE RESULT
    /\ TRIGGED' = [TRIGGED EXCEPT ![f] =
                      /\ TriggedThen(f, trig)
                      /\ Pushes(f, trig) => f \notin PollFBs]
    /\ IF Pushes(f, trig)
       THEN /\ EvalFBs' = [EvalFBs EXCEPT ![Current_PLC_EvalFB] = f]
            /\ Current_PLC_EvalFB' = NextCell(Current_PLC_EvalFB)
            /\ BUFFER' = [BUFFER EXCEPT ![f] = PrebufferThen(f, trig, code)]
            /\ State' = [State EXCEPT ![f] = "REQUESTED"]
            /\ PythonState' = PythonState \cup {"MUSTWAKEUP"}
       ELSE /\ State' = IF Publishes(f) THEN [State EXCEPT ![f] = "FREE"] ELSE State
            /\ UNCHANGED <<EvalFBs, Current_PLC_EvalFB, BUFFER, PythonState>>
    /\ UNCHANGED <<Current_Python_EvalFB, python_mutex, python_wait, threadVars>>

\* Slip: a signal that lasts until the next cycle.
PublishPulse ==
    /\ plc = "run"
    /\ plc' = IF Locked THEN "unlock" ELSE "sleep"
    /\ python_wait' = (Locked /\ "MUSTWAKEUP" \in PythonState)
    /\ UNCHANGED <<fifoVars, fbVars, PythonState, python_mutex, python, res, starts>>

\* __publish_py_ext(): the signal comes before the mutex is released.
Publish ==
    /\ plc = "run"
    /\ plc' = IF Locked THEN "unlock" ELSE "sleep"
    /\ python_wait' = (python_wait \/ (Locked /\ "MUSTWAKEUP" \in PythonState))
    /\ UNCHANGED <<fifoVars, fbVars, PythonState, python_mutex, python, res, starts>>

PublishUnlock ==
    /\ plc = "unlock"
    /\ plc' = "sleep"
    /\ python_mutex' = "free"
    /\ UNCHANGED <<fifoVars, fbVars, PythonState, python_wait, python, res, starts>>

----------------------------------------------------------------------------
(* stopPLC(), which the worker calls once the python thread has acknowledged*)
(* "Start".  The signal ends the PLC thread wherever it is.                 *)

Kill ==
    /\ plc \in {"sleep", "run", "unlock"}
    /\ python # "idle"
    /\ plc' = "killed"
    /\ UNCHANGED <<fifoVars, fbVars, syncVars, python, res, starts>>

\* Slip: the python thread is not woken up to see that it is over.
CleanupSilent ==
    /\ plc = "killed"
    /\ plc' = "off"
    /\ PythonState' = {"FINISHED"}
    /\ UNCHANGED <<fifoVars, fbVars, python_mutex, python_wait, python, res, starts>>

\* __cleanup_py_ext().  stopPLC() then destroys the mutexes: one that is free lets
\* a later lock through as before, one that is locked stays locked.
Cleanup ==
    /\ plc = "killed"
    /\ plc' = "off"
    /\ PythonState' = {"FINISHED"}
    /\ python_wait' = TRUE
    /\ UNCHANGED <<fifoVars, fbVars, python_mutex, python, res, starts>>

----------------------------------------------------------------------------
(* The python thread: PythonThreadLoop() around PythonIterator(result).     *)

Finished == "FINISHED" \in PythonState

GotoPython(from, to) == python = from /\ python' = to

\* PythonThreadProc has received "Start".
PythonStart ==
    /\ GotoPython("idle", "enter")
    /\ plc \in {"sleep", "run", "unlock"}
    /\ res' = NoValue
    /\ UNCHANGED <<fifoVars, fbVars, syncVars, plc, starts>>

\* Emergency exit, or on to LockPython().
IteratorEnter ==
    /\ \/ Finished /\ GotoPython("enter", "idle")
       \/ ~Finished /\ GotoPython("enter", "lock")
    /\ UNCHANGED <<fifoVars, fbVars, syncVars, plc, res, starts>>

IteratorLock ==
    /\ GotoPython("lock", "deliver")
    /\ python_mutex = "free"
    /\ python_mutex' = "python"
    /\ UNCHANGED <<fifoVars, fbVars, PythonState, python_wait, plc, res, starts>>

CurrentFB == EvalFBs[Current_Python_EvalFB]

\* Slip: any command under the cursor is taken for the one that was evaluated.
IteratorDeliverAny ==
    /\ GotoPython("deliver", "scan")
    /\ IF CurrentFB # Null
       THEN /\ BUFFER' = [BUFFER EXCEPT ![CurrentFB] = res]
            /\ State' = [State EXCEPT ![CurrentFB] = "ANSWERED"]
            /\ EvalFBs' = [EvalFBs EXCEPT ![Current_Python_EvalFB] = Null]
            /\ Current_Python_EvalFB' = NextCell(Current_Python_EvalFB)
       ELSE UNCHANGED <<BUFFER, State, EvalFBs, Current_Python_EvalFB>>
    /\ UNCHANGED <<Current_PLC_EvalFB, TRIGM1, TRIGGED, PREBUFFER, ACK, RESULT, asked,
                   syncVars, plc, res, starts>>

\* Put the result where the command was, and go on to the next cell.
IteratorDeliver ==
    /\ GotoPython("deliver", "scan")
    /\ IF CurrentFB # Null /\ State[CurrentFB] = "PROCESSING"
       THEN /\ BUFFER' = [BUFFER EXCEPT ![CurrentFB] = res]
            /\ State' = [State EXCEPT ![CurrentFB] = "ANSWERED"]
            /\ EvalFBs' = [EvalFBs EXCEPT ![Current_Python_EvalFB] = Null]
            /\ Current_Python_EvalFB' = NextCell(Current_Python_EvalFB)
       ELSE UNCHANGED <<BUFFER, State, EvalFBs, Current_Python_EvalFB>>
    /\ UNCHANGED <<Current_PLC_EvalFB, TRIGM1, TRIGGED, PREBUFFER, ACK, RESULT, asked,
                   syncVars, plc, res, starts>>

HasCommand == CurrentFB # Null /\ State[CurrentFB] = "REQUESTED"

\* The current cell holds a command: return it to PythonThreadLoop().
IteratorFetch ==
    /\ GotoPython("scan", "command")
    /\ HasCommand
    /\ State' = [State EXCEPT ![CurrentFB] = "PROCESSING"]
    /\ python_mutex' = "free"
    /\ UNCHANGED <<fifoVars, TRIGM1, TRIGGED, PREBUFFER, BUFFER, ACK, RESULT, asked,
                   PythonState, python_wait, plc, res, starts>>

\* It does not: WaitPythonCommands().
IteratorSleep ==
    /\ GotoPython("scan", "wait")
    /\ ~HasCommand
    /\ python_mutex' = "free"
    /\ UNCHANGED <<fifoVars, fbVars, PythonState, python_wait, plc, res, starts>>

IteratorWoken ==
    /\ GotoPython("wait", "woken")
    /\ python_wait
    /\ python_wait' = FALSE
    /\ UNCHANGED <<fifoVars, fbVars, PythonState, python_mutex, plc, res, starts>>

IteratorAgain ==
    /\ \/ Finished /\ GotoPython("woken", "idle")
       \/ ~Finished /\ GotoPython("woken", "relock")
    /\ UNCHANGED <<fifoVars, fbVars, syncVars, plc, res, starts>>

IteratorRelock ==
    /\ GotoPython("relock", "scan")
    /\ python_mutex = "free"
    /\ python_mutex' = "python"
    /\ UNCHANGED <<fifoVars, fbVars, PythonState, python_wait, plc, res, starts>>

\* PythonThreadLoop() reads the command through the pointer it was given, with the
\* mutex released, and evaluates it; an exception of its code becomes a result as
\* well.
Evaluate ==
    /\ GotoPython("command", "enter")
    /\ res' = ResultOf(BUFFER[CurrentFB])
    /\ UNCHANGED <<fifoVars, fbVars, syncVars, plc, starts>>

\* cmd.decode(), res.encode() and the report of an exception are not in a try: an
\* exception of theirs ends the python thread.
EvaluateDies ==
    /\ GotoPython("command", "dead")
    /\ BUFFER[CurrentFB] \in Unreadable
    /\ UNCHANGED <<fifoVars, fbVars, syncVars, plc, res, starts>>

----------------------------------------------------------------------------

PlcStep == Retrieve \/ Publish \/ PublishUnlock

PythonStep == \/ PythonStart \/ IteratorEnter \/ IteratorLock \/ IteratorDeliver
              \/ IteratorFetch \/ IteratorSleep \/ IteratorWoken \/ IteratorAgain
              \/ IteratorRelock \/ Evaluate

Call(f) == \E trig \in BOOLEAN, code \in CodesOf[f] : PythonEvalFB(f, trig, code)

Next == \/ Start
        \/ PlcStep
        \/ \E f \in FBs : Call(f)
        \/ Kill
        \/ Cleanup
        \/ PythonStep
        \/ EvaluateDies

Spec == Init /\ [][Next]_vars

\* The PLC thread runs its cycles, python_mutex is not taken away from either
\* thread for ever (the PLC thread holds it for a part of its cycle, the python
\* thread for a few instructions per command), and the program calls each block
\* that does not poll in cycles in which the PLC thread has the mutex.
Fairness ==
    /\ WF_vars(PlcStep)
    /\ WF_vars(Cleanup)
    /\ WF_vars(PythonStep)
    /\ SF_vars(IteratorLock \/ IteratorRelock)
    /\ SF_vars(Retrieve /\ python_mutex = "free")
    /\ \A f \in FBs \ PollFBs : SF_vars(Locked /\ Call(f))

FairSpec == Spec /\ Fairness

----------------------------------------------------------------------------
(* Properties. *)

\* "Don't have to check if fifo cell is free as fifo size == FB count, and a FB
\* cannot be requested twice": when a block may enter the fifo, the cell under
\* the cursor of the PLC is free.
CellIsFree ==
    (\E f \in FBs : State[f] \in {"FREE", "ANSWERED"}) =>
        EvalFBs[Current_PLC_EvalFB] = Null

\* The python thread does not sleep, or go to sleep, on a command unless the
\* PLC thread is about to give the signal, or has given it.
CommandWakes ==
    (python = "wait" /\ HasCommand) =>
        \/ python_wait
        \/ plc = "run" /\ "MUSTWAKEUP" \in PythonState
        \/ plc = "killed"

\* "make a safe copy of the code": the result that waits for a block, or that it
\* evaluates, is about CODE as it was when the block was trigged, whatever CODE was
\* in the cycles in which the command waited for the mutex, the fifo or python.
SafeCopy ==
    \A f \in FBs \ PollFBs :
        /\ State[f] # "FREE" => TRIGGED[f]
        /\ State[f] = "ANSWERED" => BUFFER[f] = ResultOf(asked[f])
        /\ State[f] \in {"REQUESTED", "PROCESSING"} => BUFFER[f] = asked[f]

\* "Set ACK pin to low so that we can set a rising edge on result": while a block
\* that does not poll has a command or an answer outstanding, its ACK is low.
AckCanRise == \A f \in FBs \ PollFBs : State[f] # "FREE" => ~ACK[f]

\* The blocks in the fifo, in the order in which Python will take them.
FifoLength == Cardinality({i \in Cells : EvalFBs[i] # Null})
queueBar == [i \in 1..FifoLength |->
                LET f == EvalFBs[(Current_Python_EvalFB + i - 1) % FBCount]
                IN <<f, BUFFER[f]>>]
evaluatingBar == CurrentFB # Null /\ State[CurrentFB] = "PROCESSING"
replyBar == [f \in FBs |-> IF State[f] = "ANSWERED" THEN BUFFER[f] ELSE NoValue]

Gateway == INSTANCE PyGateway WITH queue <- queueBar, evaluating <- evaluatingBar,
                                   reply <- replyBar, result <- RESULT

\* Commands are evaluated one at a time, each once, in the order in which they
\* were put in the fifo, and each block takes the result of its own command.
ImplementsPyGateway == Gateway!GatewaySpec

\* A block that is trigged gets an answer while the PLC is running and no command
\* of any block, before it or behind it, has ended the python thread.
TriggedAnswered ==
    \A f \in FBs \ PollFBs :
        TRIGGED[f] ~> (\/ ~TRIGGED[f]
                       \/ plc \in {"killed", "off"}
                       \/ python = "dead")

\* PythonThreadLoop() ends after stopPLC(), unless the PLC thread was ended while
\* it held python_mutex: by its return, or by the end of the python thread.
PythonThreadEnds ==
    (plc = "killed" /\ python_mutex # "plc") ~> python \in {"idle", "dead"}
=============================================================================
