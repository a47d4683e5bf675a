-------------------------- MODULE PyEval_proofs --------------------------
(***************************************************************************)
(* Proofs about PyEval, for any number of python_eval blocks and any set of*)
(* commands: the fifo never overflows, no wake-up of the python thread is  *)
(* lost, an answer is about the code the block was trigged with, and the   *)
(* whole implements PyGateway.                                             *)
(***************************************************************************)
EXTENDS PyEval, FiniteSetTheorems, SequenceTheorems, TLAPS

\* Who holds python_mutex, and when PythonState tells the python thread to end.
Holders ==
    /\ python \in {"deliver", "scan"} <=> python_mutex = "python"
    /\ plc = "run" /\ Locked => python_mutex = "plc"
    /\ plc = "unlock" => python_mutex = "plc"
    /\ "MUSTWAKEUP" \in PythonState => Locked
    /\ plc # "off" => ~Finished
    /\ plc = "killed" => python # "idle"

\* Is the cell between the cursor of the python thread and that of the PLC?
Between(i) == IF Current_Python_EvalFB < Current_PLC_EvalFB
              THEN Current_Python_EvalFB <= i /\ i < Current_PLC_EvalFB
              ELSE Current_Python_EvalFB <= i \/ i < Current_PLC_EvalFB

\* The fifo holds each block that waits for Python once, and no other, in the
\* cells between the cursors; equal cursors mean an empty or a full fifo.
Fifo ==
    /\ \A i \in Cells : EvalFBs[i] # Null =>
           State[EvalFBs[i]] \in {"REQUESTED", "PROCESSING"}
    /\ \A f \in FBs : State[f] \in {"REQUESTED", "PROCESSING"} =>
           \E i \in Cells : EvalFBs[i] = f
    /\ \A i, j \in Cells : EvalFBs[i] # Null /\ EvalFBs[i] = EvalFBs[j] => i = j
    /\ Current_Python_EvalFB # Current_PLC_EvalFB =>
           \A i \in Cells : EvalFBs[i] # Null <=> Between(i)
    /\ Current_Python_EvalFB = Current_PLC_EvalFB =>
           \/ \A i \in Cells : EvalFBs[i] = Null
           \/ \A i \in Cells : EvalFBs[i] # Null

\* At most one block is being processed, the one under the cursor of the python
\* thread, and the python thread brings back the result of its command.
Evaluation ==
    /\ \A f \in FBs : State[f] = "PROCESSING" =>
           /\ f = CurrentFB
           /\ \/ python \in {"command", "enter", "lock", "deliver", "dead"}
              \/ python = "idle" /\ plc = "off"
    /\ python = "command" => CurrentFB # Null /\ State[CurrentFB] = "PROCESSING"
    /\ (/\ python \in {"enter", "lock", "deliver"}
        /\ CurrentFB # Null
        /\ State[CurrentFB] = "PROCESSING") => res = ResultOf(BUFFER[CurrentFB])

\* What Python is given to evaluate is a command that the program asked for.
Commands ==
    /\ \A f \in FBs : TRIGGED[f] => PREBUFFER[f] \in Codes
    /\ \A f \in FBs : State[f] \in {"REQUESTED", "PROCESSING"} => BUFFER[f] \in Codes

\* PREBUFFER is the code of the latest trigger, and what waits for a block that does
\* not poll, or is evaluated for it, is about its PREBUFFER.
Copied ==
    /\ asked = PREBUFFER
    /\ \A f \in FBs \ PollFBs :
           /\ State[f] # "FREE" => TRIGGED[f]
           /\ State[f] = "ANSWERED" => BUFFER[f] = ResultOf(PREBUFFER[f])
           /\ State[f] \in {"REQUESTED", "PROCESSING"} => BUFFER[f] = PREBUFFER[f]

IInv == /\ TypeOK
        /\ Holders
        /\ Commands
        /\ Fifo
        /\ Evaluation
        /\ CommandWakes
        /\ Copied
        /\ AckCanRise

----------------------------------------------------------------------------
\* The cursors stay in the fifo.
LEMMA CountType == FBCount \in Nat \ {0}
<1>1. Cardinality(FBs) \in Nat
  BY PyEvalAssumption, FS_CardinalityType DEF PyEvalAssumption
<1>2. Cardinality(FBs) # 0
  BY PyEvalAssumption, FS_EmptySet DEF PyEvalAssumption
<1> QED BY <1>1, <1>2 DEF FBCount

LEMMA NextCellType == \A i \in Cells : NextCell(i) \in Cells
BY CountType DEF NextCell, Cells

\* There are as many cells as blocks, so a block outside of the fifo leaves a
\* cell free: the pigeonhole principle.
LEMMA SomeCellFree ==
    ASSUME TypeOK, Fifo, NEW f \in FBs, State[f] \in {"FREE", "ANSWERED"}
    PROVE  \E i \in Cells : EvalFBs[i] = Null
<1> SUFFICES ASSUME \A i \in Cells : EvalFBs[i] # Null PROVE FALSE
  OBVIOUS
<1>1. EvalFBs \in [Cells -> FBs \ {f}]
  <2>1. \A i \in Cells : EvalFBs[i] \in FBs
    BY DEF TypeOK
  <2>2. \A i \in Cells : EvalFBs[i] # f
    BY DEF Fifo
  <2> QED BY <2>1, <2>2 DEF TypeOK
<1>2. IsFiniteSet(Cells) /\ Cardinality(Cells) = FBCount
  BY CountType, FS_Interval DEF Cells
<1>3. IsFiniteSet(FBs \ {f}) /\ Cardinality(FBs \ {f}) = FBCount - 1
  BY FS_RemoveElement, PyEvalAssumption DEF PyEvalAssumption, FBCount
<1>4. Cardinality(FBs \ {f}) < Cardinality(Cells)
  BY <1>2, <1>3, CountType
<1>5. \E i, j \in Cells : i # j /\ EvalFBs[i] = EvalFBs[j]
  BY <1>1, <1>2, <1>3, <1>4, FS_PigeonHole
<1> QED BY <1>5 DEF Fifo

\* So the cell under the cursor of the PLC is free whenever a block may enter.
LEMMA CursorCellFree == TypeOK /\ Fifo => CellIsFree
<1> SUFFICES ASSUME TypeOK, Fifo, NEW f \in FBs, State[f] \in {"FREE", "ANSWERED"}
             PROVE  EvalFBs[Current_PLC_EvalFB] = Null
  BY DEF CellIsFree
<1>1. PICK i \in Cells : EvalFBs[i] = Null
  BY SomeCellFree
<1>2. CASE Current_Python_EvalFB = Current_PLC_EvalFB
  BY <1>1, <1>2 DEF Fifo, TypeOK
<1>3. CASE Current_Python_EvalFB # Current_PLC_EvalFB
  <2>1. ~Between(Current_PLC_EvalFB)
    BY <1>3, CountType DEF Between, TypeOK, Cells
  <2> QED BY <1>3, <2>1 DEF Fifo, TypeOK
<1> QED BY <1>2, <1>3

\* The program's inputs are codes.
LEMMA CodesOfType == \A f \in FBs : CodesOf[f] \subseteq Codes
BY PyEvalAssumption DEF PyEvalAssumption

----------------------------------------------------------------------------
LEMMA InitIInv == Init => IInv
<1> SUFFICES ASSUME Init PROVE IInv
  OBVIOUS
<1> USE PyEvalAssumption, CountType DEF PyEvalAssumption, Init
<1>1. TypeOK
  <2>1. /\ TRIGM1 \in [FBs -> BOOLEAN] /\ TRIGGED \in [FBs -> BOOLEAN]
        /\ ACK \in [FBs -> BOOLEAN]
    OBVIOUS
  <2>2. python_wait \in BOOLEAN
    BY Zenon
  <2>3. /\ Current_PLC_EvalFB \in Cells /\ Current_Python_EvalFB \in Cells
        /\ EvalFBs \in [Cells -> FBs \cup {Null}] /\ starts \in 0..MaxStarts
    BY DEF Cells
  <2>4. /\ PREBUFFER \in [FBs -> Codes \cup {NoValue}]
        /\ asked \in [FBs -> Codes \cup {NoValue}]
        /\ BUFFER \in [FBs -> Codes \cup Results \cup {NoValue}]
        /\ RESULT \in [FBs -> Codes \cup Results \cup {NoValue}]
        /\ res \in Results \cup {NoValue}
    OBVIOUS
  <2>5. /\ PythonState \subseteq Flags /\ State \in [FBs -> FBStates]
        /\ plc \in PlcPcs /\ python \in PythonPcs
        /\ python_mutex \in {"free", "plc", "python"}
    BY DEF Flags, FBStates, PlcPcs, PythonPcs
  <2> QED BY <2>1, <2>2, <2>3, <2>4, <2>5 DEF TypeOK
<1>2. Holders
  BY DEF Holders, Locked, Finished
<1>3. Fifo
  BY DEF Fifo
<1>4. Evaluation /\ CommandWakes
  BY DEF Evaluation, CommandWakes, CurrentFB
<1>5. Copied /\ AckCanRise /\ Commands
  BY DEF Copied, AckCanRise, Commands
<1> QED BY <1>1, <1>2, <1>3, <1>4, <1>5 DEF IInv

\* Start leaves the python thread alone and resets everything else.
LEMMA StartIInv == IInv /\ Start => IInv'
<1> SUFFICES ASSUME IInv, Start PROVE IInv'
  OBVIOUS
<1> USE PyEvalAssumption, CountType DEF PyEvalAssumption, IInv, Start
<1>1. TypeOK'
  <2>1. /\ TRIGM1' \in [FBs -> BOOLEAN] /\ TRIGGED' \in [FBs -> BOOLEAN]
        /\ ACK' \in [FBs -> BOOLEAN]
    OBVIOUS
  <2>2. python_wait' \in BOOLEAN
    BY Zenon
  <2>3. /\ Current_PLC_EvalFB' \in Cells /\ Current_Python_EvalFB' \in Cells
        /\ EvalFBs' \in [Cells -> FBs \cup {Null}]
    BY DEF Cells
  <2>4. /\ PREBUFFER' \in [FBs -> Codes \cup {NoValue}]
        /\ asked' \in [FBs -> Codes \cup {NoValue}]
        /\ BUFFER' \in [FBs -> Codes \cup Results \cup {NoValue}]
        /\ RESULT' \in [FBs -> Codes \cup Results \cup {NoValue}]
    OBVIOUS
  <2>5. /\ PythonState' \subseteq Flags /\ State' \in [FBs -> FBStates]
        /\ plc' \in PlcPcs /\ python' \in PythonPcs
        /\ python_mutex' \in {"free", "plc", "python"}
        /\ res' \in Results \cup {NoValue} /\ starts' \in 0..MaxStarts
    BY DEF TypeOK, Flags, FBStates, PlcPcs, PythonPcs
  <2> QED BY <2>1, <2>2, <2>3, <2>4, <2>5 DEF TypeOK
<1>2. Holders'
  BY DEF Holders, Locked, Finished
<1>3. Fifo'
  BY DEF Fifo
<1>4. Evaluation' /\ CommandWakes'
  BY DEF Evaluation, CommandWakes, CurrentFB
<1>5. Copied' /\ AckCanRise' /\ Commands'
  BY DEF Copied, AckCanRise, Commands
<1> QED BY <1>1, <1>2, <1>3, <1>4, <1>5 DEF IInv

----------------------------------------------------------------------------
\* Steps of either thread that only synchronise: they leave the fifo and the
\* blocks alone.
LEMMA SyncStep ==
    ASSUME IInv, UNCHANGED <<fifoVars, fbVars>>
    PROVE  /\ Fifo' /\ Copied' /\ AckCanRise' /\ Commands'
           /\ CurrentFB' = CurrentFB
           /\ HasCommand' <=> HasCommand
<1> USE DEF fifoVars, fbVars
<1>1. Fifo'
  BY DEF IInv, Fifo, Between
<1>2. Copied' /\ AckCanRise' /\ Commands'
  BY DEF IInv, Copied, AckCanRise, Commands
<1>3. CurrentFB' = CurrentFB /\ (HasCommand' <=> HasCommand)
  BY DEF HasCommand, CurrentFB
<1> QED BY <1>1, <1>2, <1>3

LEMMA PlcSyncIInv ==
    IInv /\ (Retrieve \/ Publish \/ PublishUnlock \/ Kill \/ Cleanup) => IInv'
<1> SUFFICES ASSUME IInv, Retrieve \/ Publish \/ PublishUnlock \/ Kill \/ Cleanup
             PROVE  IInv'
  OBVIOUS
<1> DEFINE Quiet == Fifo' /\ Copied' /\ AckCanRise' /\ Commands'
<1>q. Quiet /\ CurrentFB' = CurrentFB /\ (HasCommand' <=> HasCommand)
  BY SyncStep DEF Retrieve, Publish, PublishUnlock, Kill, Cleanup
<1>f. UNCHANGED <<fifoVars, fbVars, python, res, starts>>
  BY DEF Retrieve, Publish, PublishUnlock, Kill, Cleanup
<1> HIDE DEF Quiet
<1> DEFINE Goal == TypeOK' /\ Holders' /\ Evaluation' /\ CommandWakes'
<1> SUFFICES Goal
  BY <1>q DEF IInv, Quiet
<1> USE DEF IInv
<1>1. CASE Retrieve
  <2> USE <1>1 DEF Retrieve
  <2>1. TypeOK'
    BY DEF TypeOK, fifoVars, fbVars, Flags, PlcPcs
  <2>2. Holders'
    BY DEF Holders, Locked, Finished
  <2>3. Evaluation'
    BY <1>q DEF Evaluation, fbVars
  <2>4. CommandWakes'
    BY <1>q DEF CommandWakes
  <2> QED BY <2>1, <2>2, <2>3, <2>4
<1>2. CASE Publish
  <2> USE <1>2 DEF Publish
  <2>1. TypeOK'
    <3>1. python_wait' \in BOOLEAN
      BY Zenon DEF TypeOK
    <3> QED BY <3>1 DEF TypeOK, fifoVars, fbVars, PlcPcs
  <2>2. Holders'
    BY DEF Holders, Locked, Finished
  <2>3. Evaluation'
    BY <1>q DEF Evaluation, fbVars
  <2>4. CommandWakes'
    BY <1>q DEF CommandWakes, Holders, Locked
  <2> QED BY <2>1, <2>2, <2>3, <2>4
<1>3. CASE PublishUnlock
  <2> USE <1>3 DEF PublishUnlock
  <2>1. TypeOK'
    BY DEF TypeOK, fifoVars, fbVars, PlcPcs
  <2>2. Holders'
    BY DEF Holders, Locked, Finished
  <2>3. Evaluation'
    BY <1>q DEF Evaluation, fbVars
  <2>4. CommandWakes'
    BY <1>q DEF CommandWakes
  <2> QED BY <2>1, <2>2, <2>3, <2>4
<1>4. CASE Kill
  <2> USE <1>4 DEF Kill
  <2>1. TypeOK'
    BY DEF TypeOK, fifoVars, fbVars, syncVars, PlcPcs
  <2>2. Holders'
    BY DEF Holders, Locked, Finished, syncVars
  <2>3. Evaluation'
    BY <1>q DEF Evaluation, fbVars
  <2>4. CommandWakes'
    BY <1>q DEF CommandWakes
  <2> QED BY <2>1, <2>2, <2>3, <2>4
<1>5. CASE Cleanup
  <2> USE <1>5 DEF Cleanup
  <2>1. TypeOK'
    <3>1. python_wait' \in BOOLEAN
      BY Zenon
    <3> QED BY <3>1 DEF TypeOK, fifoVars, fbVars, PlcPcs, Flags
  <2>2. Holders'
    BY DEF Holders, Locked, Finished
  <2>3. Evaluation'
    BY <1>q DEF Evaluation, fbVars
  <2>4. CommandWakes'
    BY <1>q DEF CommandWakes
  <2> QED BY <2>1, <2>2, <2>3, <2>4
<1> QED BY <1>1, <1>2, <1>3, <1>4, <1>5

LEMMA PythonSyncIInv ==
    /\ IInv
    /\ \/ PythonStart \/ IteratorEnter \/ IteratorLock \/ IteratorSleep
       \/ IteratorWoken \/ IteratorAgain \/ IteratorRelock \/ Evaluate
       \/ EvaluateDies
    => IInv'
<1> DEFINE Step == \/ PythonStart \/ IteratorEnter \/ IteratorLock \/ IteratorSleep
                   \/ IteratorWoken \/ IteratorAgain \/ IteratorRelock \/ Evaluate
                   \/ EvaluateDies
<1> SUFFICES ASSUME IInv, Step PROVE IInv'
  OBVIOUS
<1> DEFINE Quiet == Fifo' /\ Copied' /\ AckCanRise' /\ Commands'
<1>q. Quiet /\ CurrentFB' = CurrentFB /\ (HasCommand' <=> HasCommand)
  BY SyncStep DEF PythonStart, IteratorEnter, IteratorLock, IteratorSleep,
                  IteratorWoken, IteratorAgain, IteratorRelock, Evaluate, EvaluateDies
<1> HIDE DEF Quiet
<1> DEFINE Goal == TypeOK' /\ Holders' /\ Evaluation' /\ CommandWakes'
<1> SUFFICES Goal
  BY <1>q DEF IInv, Quiet
<1> USE DEF IInv, GotoPython
<1>1. CASE PythonStart
  <2> USE <1>1 DEF PythonStart, syncVars
  <2>1. TypeOK'
    BY DEF TypeOK, fifoVars, fbVars, PythonPcs
  <2>2. Holders'
    BY DEF Holders, Locked, Finished
  <2>3. Evaluation'
    <3>1. CurrentFB \in FBs \cup {Null}
      BY DEF TypeOK, CurrentFB
    <3>2. \A f \in FBs : State[f] # "PROCESSING"
      BY DEF Evaluation
    <3> QED BY <1>q, <3>1, <3>2 DEF Evaluation, fbVars
  <2>4. CommandWakes'
    BY <1>q DEF CommandWakes
  <2> QED BY <2>1, <2>2, <2>3, <2>4
<1>2. CASE IteratorEnter
  <2> USE <1>2 DEF IteratorEnter, syncVars
  <2>1. TypeOK'
    BY DEF TypeOK, fifoVars, fbVars, PythonPcs
  <2>2. Holders'
    BY DEF Holders, Locked, Finished
  <2>3. Evaluation'
    BY <1>q DEF Evaluation, Holders, Finished, fbVars
  <2>4. CommandWakes'
    BY <1>q DEF CommandWakes
  <2> QED BY <2>1, <2>2, <2>3, <2>4
<1>3. CASE IteratorLock
  <2> USE <1>3 DEF IteratorLock
  <2>1. TypeOK'
    BY DEF TypeOK, fifoVars, fbVars, PythonPcs
  <2>2. Holders'
    BY DEF Holders, Locked, Finished
  <2>3. Evaluation'
    BY <1>q DEF Evaluation, Holders, Finished, fbVars
  <2>4. CommandWakes'
    BY <1>q DEF CommandWakes
  <2> QED BY <2>1, <2>2, <2>3, <2>4
<1>4. CASE IteratorSleep
  <2> USE <1>4 DEF IteratorSleep
  <2>1. TypeOK'
    BY DEF TypeOK, fifoVars, fbVars, PythonPcs
  <2>2. Holders'
    BY DEF Holders, Locked, Finished
  <2>3. Evaluation'
    BY <1>q DEF Evaluation, Holders, Finished, fbVars
  <2>4. CommandWakes'
    BY <1>q DEF CommandWakes
  <2> QED BY <2>1, <2>2, <2>3, <2>4
<1>5. CASE IteratorWoken
  <2> USE <1>5 DEF IteratorWoken
  <2>1. TypeOK'
    BY DEF TypeOK, fifoVars, fbVars, PythonPcs
  <2>2. Holders'
    BY DEF Holders, Locked, Finished
  <2>3. Evaluation'
    BY <1>q DEF Evaluation, Holders, Finished, fbVars
  <2>4. CommandWakes'
    BY <1>q DEF CommandWakes
  <2> QED BY <2>1, <2>2, <2>3, <2>4
<1>6. CASE IteratorAgain
  <2> USE <1>6 DEF IteratorAgain, syncVars
  <2>1. TypeOK'
    BY DEF TypeOK, fifoVars, fbVars, PythonPcs
  <2>2. Holders'
    BY DEF Holders, Locked, Finished
  <2>3. Evaluation'
    BY <1>q DEF Evaluation, Holders, Finished, fbVars
  <2>4. CommandWakes'
    BY <1>q DEF CommandWakes
  <2> QED BY <2>1, <2>2, <2>3, <2>4
<1>7. CASE IteratorRelock
  <2> USE <1>7 DEF IteratorRelock
  <2>1. TypeOK'
    BY DEF TypeOK, fifoVars, fbVars, PythonPcs
  <2>2. Holders'
    BY DEF Holders, Locked, Finished
  <2>3. Evaluation'
    BY <1>q DEF Evaluation, Holders, Finished, fbVars
  <2>4. CommandWakes'
    BY <1>q DEF CommandWakes
  <2> QED BY <2>1, <2>2, <2>3, <2>4
<1>8. CASE Evaluate
  <2> USE <1>8 DEF Evaluate, syncVars
  <2>1. TypeOK'
    <3>1. CurrentFB \in FBs /\ State[CurrentFB] = "PROCESSING"
      BY DEF Evaluation, TypeOK, CurrentFB
    <3>2. BUFFER[CurrentFB] \in Codes
      BY <3>1 DEF Commands
    <3>3. python' \in PythonPcs /\ res' \in Results \cup {NoValue}
      BY <3>2 DEF PythonPcs, Results
    <3> QED BY <3>3 DEF TypeOK, fifoVars, fbVars
  <2>2. Holders'
    BY DEF Holders, Locked, Finished
  <2>3. Evaluation'
    BY <1>q DEF Evaluation, Holders, Finished, fbVars
  <2>4. CommandWakes'
    BY <1>q DEF CommandWakes
  <2> QED BY <2>1, <2>2, <2>3, <2>4
<1>9. CASE EvaluateDies
  <2> USE <1>9 DEF EvaluateDies, syncVars
  <2>1. TypeOK'
    BY DEF TypeOK, fifoVars, fbVars, PythonPcs
  <2>2. Holders'
    BY DEF Holders, Locked, Finished
  <2>3. Evaluation'
    BY <1>q DEF Evaluation, fbVars
  <2>4. CommandWakes'
    BY <1>q DEF CommandWakes
  <2> QED BY <2>1, <2>2, <2>3, <2>4
<1> QED BY <1>1, <1>2, <1>3, <1>4, <1>5, <1>6, <1>7, <1>8, <1>9

----------------------------------------------------------------------------
\* The python thread marks the command under its cursor as being processed.
LEMMA FetchIInv == IInv /\ IteratorFetch => IInv'
<1> SUFFICES ASSUME IInv, IteratorFetch PROVE IInv'
  OBVIOUS
<1> USE DEF IInv, GotoPython
<1>1. /\ CurrentFB \in FBs /\ State[CurrentFB] = "REQUESTED"
      /\ State' = [State EXCEPT ![CurrentFB] = "PROCESSING"]
      /\ python = "scan" /\ python' = "command"
      /\ python_mutex = "python" /\ python_mutex' = "free"
      /\ UNCHANGED <<fifoVars, TRIGM1, TRIGGED, PREBUFFER, BUFFER, ACK, RESULT, asked,
                     PythonState, python_wait, plc, res, starts>>
  BY DEF IteratorFetch, HasCommand, Holders, TypeOK, CurrentFB
<1>2. CurrentFB' = CurrentFB
  BY <1>1 DEF CurrentFB, fifoVars
<1>3. \A f \in FBs : State[f] # "PROCESSING"
  BY <1>1 DEF Evaluation
<1>4. TypeOK'
  BY <1>1 DEF TypeOK, fifoVars, FBStates, PythonPcs
<1>5. Holders'
  BY <1>1 DEF Holders, Locked, Finished
<1>6. Fifo'
  <2>1. \A i \in Cells : EvalFBs[i] # Null => EvalFBs[i] \in FBs
    BY DEF TypeOK
  <2>2. \A f \in FBs : State'[f] \in {"REQUESTED", "PROCESSING"} <=>
                       State[f] \in {"REQUESTED", "PROCESSING"}
    BY <1>1 DEF TypeOK
  <2> QED BY <1>1, <2>1, <2>2 DEF Fifo, Between, fifoVars
<1>7. Evaluation'
  <2>1. \A f \in FBs : State'[f] = "PROCESSING" => f = CurrentFB
    BY <1>1, <1>3 DEF TypeOK
  <2>2. State'[CurrentFB] = "PROCESSING"
    BY <1>1 DEF TypeOK
  <2>3. CurrentFB # Null
    BY <1>1, PyEvalAssumption DEF PyEvalAssumption
  <2> QED BY <1>1, <1>2, <2>1, <2>2, <2>3 DEF Evaluation
<1>8. CommandWakes'
  BY <1>1 DEF CommandWakes
<1>9. Copied' /\ AckCanRise' /\ Commands'
  BY <1>1 DEF Copied, AckCanRise, Commands, TypeOK
<1> QED BY <1>4, <1>5, <1>6, <1>7, <1>8, <1>9

\* The python thread puts an answer in place of its command and frees the cell.
LEMMA DeliverIInv == IInv /\ IteratorDeliver => IInv'
<1> SUFFICES ASSUME IInv, IteratorDeliver PROVE IInv'
  OBVIOUS
<1> USE DEF IInv, GotoPython
<1>1. /\ python = "deliver" /\ python' = "scan" /\ python_mutex = "python"
      /\ UNCHANGED <<Current_PLC_EvalFB, TRIGM1, TRIGGED, PREBUFFER, ACK, RESULT, asked,
                     syncVars, plc, res, starts>>
  BY DEF IteratorDeliver, Holders
<1>2. Holders' /\ CommandWakes'
  BY <1>1 DEF Holders, Locked, Finished, syncVars, CommandWakes
<1>3. CASE CurrentFB = Null \/ State[CurrentFB] # "PROCESSING"
  <2>1. UNCHANGED <<BUFFER, State, EvalFBs, Current_Python_EvalFB>>
    BY <1>3 DEF IteratorDeliver
  <2>2. TypeOK'
    BY <1>1, <2>1 DEF TypeOK, syncVars, PythonPcs
  <2>3. Fifo' /\ Copied' /\ AckCanRise' /\ Commands'
    BY <1>1, <2>1, SyncStep DEF fifoVars, fbVars
  <2>4. \A f \in FBs : State[f] # "PROCESSING"
    <3>1. \A f \in FBs : State[f] = "PROCESSING" => f = CurrentFB
      BY DEF Evaluation
    <3> QED BY <1>3, <3>1, PyEvalAssumption DEF PyEvalAssumption
  <2>5. Evaluation'
    BY <1>1, <2>1, <2>4 DEF Evaluation
  <2> QED BY <1>2, <2>2, <2>3, <2>5
<1>4. CASE CurrentFB # Null /\ State[CurrentFB] = "PROCESSING"
  <2> DEFINE c == CurrentFB
  <2> DEFINE py == Current_Python_EvalFB
  <2>1. /\ c \in FBs /\ c = EvalFBs[py] /\ py \in Cells /\ res = ResultOf(BUFFER[c])
        /\ BUFFER[c] \in Codes
    BY <1>1, <1>4 DEF Evaluation, TypeOK, CurrentFB, Commands
  <2>2. /\ BUFFER' = [BUFFER EXCEPT ![c] = res]
        /\ State' = [State EXCEPT ![c] = "ANSWERED"]
        /\ EvalFBs' = [EvalFBs EXCEPT ![py] = Null]
        /\ Current_Python_EvalFB' = NextCell(py)
    BY <1>4 DEF IteratorDeliver
  <2>3. NextCell(py) \in Cells
    BY <2>1, NextCellType
  <2>4. TypeOK'
    <3>1. res \in Results
      BY <2>1 DEF Results
    <3> QED BY <1>1, <2>1, <2>2, <2>3, <3>1 DEF TypeOK, syncVars, PythonPcs, FBStates
  <2>5. \A f \in FBs : State'[f] # "PROCESSING"
    BY <1>4, <2>1, <2>2 DEF Evaluation, TypeOK
  <2>6. Evaluation'
    BY <1>1, <2>5 DEF Evaluation
  <2>7. Copied' /\ AckCanRise' /\ Commands'
    BY <1>1, <1>4, <2>1, <2>2 DEF Copied, AckCanRise, Commands, TypeOK
  <2>8. Fifo'
    <3>1. \A i \in Cells : EvalFBs'[i] = IF i = py THEN Null ELSE EvalFBs[i]
      BY <2>2 DEF TypeOK
    <3>2. \A f \in FBs : State'[f] = IF f = c THEN "ANSWERED" ELSE State[f]
      BY <2>2 DEF TypeOK
    <3>3. \A i \in Cells : EvalFBs'[i] # Null =>
             State'[EvalFBs'[i]] \in {"REQUESTED", "PROCESSING"}
      BY <2>1, <3>1, <3>2 DEF Fifo, TypeOK
    <3>4. \A f \in FBs : State'[f] \in {"REQUESTED", "PROCESSING"} =>
             \E i \in Cells : EvalFBs'[i] = f
      BY <2>1, <3>1, <3>2 DEF Fifo
    <3>5. \A i, j \in Cells : EvalFBs'[i] # Null /\ EvalFBs'[i] = EvalFBs'[j] => i = j
      BY <3>1 DEF Fifo
    <3>6. py # Current_PLC_EvalFB => \A i \in Cells : EvalFBs[i] # Null <=> Between(i)
      BY DEF Fifo
    <3>7. py = Current_PLC_EvalFB => \A i \in Cells : EvalFBs[i] # Null
      BY <1>4, <2>1 DEF Fifo
    <3>8. Current_Python_EvalFB' # Current_PLC_EvalFB' =>
             \A i \in Cells : EvalFBs'[i] # Null <=> Between(i)'
      BY <1>1, <2>1, <2>2, <3>1, <3>6, <3>7, CountType
         DEF Between, NextCell, Cells, TypeOK
    <3>9. Current_Python_EvalFB' = Current_PLC_EvalFB' =>
             \A i \in Cells : EvalFBs'[i] = Null
      <4> SUFFICES ASSUME Current_Python_EvalFB' = Current_PLC_EvalFB', NEW i \in Cells,
                          i # py
                   PROVE  EvalFBs[i] = Null
        BY <2>1, <3>1 DEF TypeOK
      <4>1. Current_PLC_EvalFB = NextCell(py) /\ py \in Cells
        BY <1>1, <2>2 DEF TypeOK
      <4>2. py # Current_PLC_EvalFB
        BY <4>1, CountType DEF NextCell, Cells
      <4>3. ~Between(i)
        BY <4>1, CountType DEF Between, NextCell, Cells
      <4> QED BY <3>6, <4>2, <4>3
    <3> QED BY <3>3, <3>4, <3>5, <3>8, <3>9 DEF Fifo
  <2> QED BY <1>2, <2>4, <2>6, <2>7, <2>8
<1> QED BY <1>3, <1>4

----------------------------------------------------------------------------
\* A call of a block that leaves the fifo alone: it may take its answer.
LEMMA QuietCallIInv ==
    ASSUME IInv, NEW f \in FBs, NEW trig \in BOOLEAN, NEW code \in Codes,
           PythonEvalFB(f, trig, code), ~Pushes(f, trig)
    PROVE  IInv'
<1> USE DEF IInv
<1>1. /\ plc = "run"
      /\ TRIGM1' = [TRIGM1 EXCEPT ![f] = trig]
      /\ PREBUFFER' = [PREBUFFER EXCEPT ![f] = PrebufferThen(f, trig, code)]
      /\ asked' = PREBUFFER'
      /\ ACK' = [ACK EXCEPT ![f] = AckThen(f, trig)]
      /\ RESULT' = IF Publishes(f) THEN [RESULT EXCEPT ![f] = BUFFER[f]] ELSE RESULT
      /\ TRIGGED' = [TRIGGED EXCEPT ![f] = TriggedThen(f, trig)]
      /\ State' = IF Publishes(f) THEN [State EXCEPT ![f] = "FREE"] ELSE State
      /\ UNCHANGED <<EvalFBs, Current_PLC_EvalFB, Current_Python_EvalFB, BUFFER,
                     syncVars, threadVars>>
  <2>1. asked' = PREBUFFER'
    BY DEF PythonEvalFB, Copied, PrebufferThen
  <2> QED BY <2>1 DEF PythonEvalFB, syncVars, TriggedThen, Triggers, TypeOK
<1>2. \A g \in FBs : State'[g] = IF g = f /\ Publishes(f) THEN "FREE" ELSE State[g]
  BY <1>1 DEF TypeOK
<1>3. TypeOK'
  <2>1. TRIGM1' \in [FBs -> BOOLEAN] /\ TRIGGED' \in [FBs -> BOOLEAN]
    <3>1. TriggedThen(f, trig) \in BOOLEAN
      BY Zenon DEF TriggedThen
    <3> QED BY <1>1, <3>1 DEF TypeOK
  <2>2. ACK' \in [FBs -> BOOLEAN]
    <3>1. (trig /\ ACK[f]) \in BOOLEAN
      BY Zenon
    <3>2. AckThen(f, trig) \in BOOLEAN
      BY <3>1 DEF AckThen
    <3> QED BY <1>1, <3>2 DEF TypeOK
  <2>3. PREBUFFER' \in [FBs -> Codes \cup {NoValue}] /\ asked' = PREBUFFER'
    BY <1>1 DEF TypeOK, PrebufferThen
  <2>4. RESULT' \in [FBs -> Codes \cup Results \cup {NoValue}]
    BY <1>1 DEF TypeOK
  <2>5. State' \in [FBs -> FBStates]
    BY <1>1 DEF TypeOK, FBStates
  <2> QED BY <1>1, <2>1, <2>2, <2>3, <2>4, <2>5 DEF TypeOK, syncVars, threadVars
<1>4. Holders'
  BY <1>1 DEF Holders, Locked, Finished, syncVars, threadVars
<1>5. Fifo'
  <2>1. \A g \in FBs : State'[g] \in {"REQUESTED", "PROCESSING"} <=>
                       State[g] \in {"REQUESTED", "PROCESSING"}
    BY <1>2 DEF Publishes
  <2>2. \A i \in Cells : EvalFBs[i] # Null => EvalFBs[i] \in FBs
    BY DEF TypeOK
  <2> QED BY <1>1, <2>1, <2>2 DEF Fifo, Between
<1>6. CurrentFB \in FBs \cup {Null} /\ CurrentFB' = CurrentFB
  BY <1>1 DEF CurrentFB, TypeOK
<1>7. \A g \in FBs : State'[g] = "PROCESSING" <=> State[g] = "PROCESSING"
  BY <1>2 DEF Publishes
<1>8. Evaluation'
  BY <1>1, <1>6, <1>7 DEF Evaluation, syncVars, threadVars
<1>9. CommandWakes'
  <2>1. HasCommand' => HasCommand
    BY <1>2, <1>6 DEF HasCommand
  <2> QED BY <1>1, <2>1 DEF CommandWakes, syncVars, threadVars
<1>10. Commands'
  <2>1. \A g \in FBs : TRIGGED'[g] => PREBUFFER'[g] \in Codes
    BY <1>1 DEF Commands, TypeOK, TriggedThen, PrebufferThen
  <2>2. \A g \in FBs : State'[g] \in {"REQUESTED", "PROCESSING"} => BUFFER'[g] \in Codes
    BY <1>1, <1>2 DEF Commands
  <2> QED BY <2>1, <2>2 DEF Commands
<1>11. Copied'
  <2> SUFFICES ASSUME NEW g \in FBs \ PollFBs, State'[g] # "FREE"
               PROVE  /\ TRIGGED'[g]
                      /\ State'[g] = State[g]
                      /\ PREBUFFER'[g] = PREBUFFER[g]
    BY <1>1 DEF Copied
  <2>1. State'[g] = State[g] /\ State[g] # "FREE" /\ TRIGGED[g]
    BY <1>2 DEF Copied
  <2>2. CASE g = f
    <3>1. ~Publishes(f) /\ ~Triggers(f, trig)
      BY <1>2, <2>1, <2>2 DEF Publishes, Triggers
    <3> QED BY <1>1, <2>1, <2>2, <3>1 DEF TriggedThen, PrebufferThen, TypeOK
  <2>3. CASE g # f
    BY <1>1, <2>1, <2>3 DEF TypeOK
  <2> QED BY <2>2, <2>3
<1>12. AckCanRise'
  <2> SUFFICES ASSUME NEW g \in FBs \ PollFBs, State'[g] # "FREE" PROVE ~ACK'[g]
    BY DEF AckCanRise
  <2>1. ~ACK[g]
    BY <1>2 DEF AckCanRise
  <2>2. CASE g = f
    BY <1>1, <1>2, <2>1, <2>2 DEF AckThen, Publishes, TypeOK
  <2>3. CASE g # f
    BY <1>1, <2>1, <2>3 DEF TypeOK
  <2> QED BY <2>2, <2>3
<1> QED BY <1>3, <1>4, <1>5, <1>8, <1>9, <1>10, <1>11, <1>12

\* A call that enters the block in the fifo, in the cell under the cursor of the
\* PLC.  That cell is free, and the python thread is not in the iterator.
LEMMA PushIInv ==
    ASSUME IInv, NEW f \in FBs, NEW trig \in BOOLEAN, NEW code \in Codes,
           PythonEvalFB(f, trig, code), Pushes(f, trig)
    PROVE  IInv'
<1> USE DEF IInv
<1> DEFINE cell == Current_PLC_EvalFB
<1> DEFINE copy == PrebufferThen(f, trig, code)
<1>1. /\ plc = "run"
      /\ TRIGM1' = [TRIGM1 EXCEPT ![f] = trig]
      /\ PREBUFFER' = [PREBUFFER EXCEPT ![f] = copy]
      /\ asked' = PREBUFFER'
      /\ ACK' = [ACK EXCEPT ![f] = AckThen(f, trig)]
      /\ RESULT' = IF Publishes(f) THEN [RESULT EXCEPT ![f] = BUFFER[f]] ELSE RESULT
      /\ TRIGGED' = [TRIGGED EXCEPT ![f] = f \notin PollFBs]
      /\ EvalFBs' = [EvalFBs EXCEPT ![cell] = f]
      /\ Current_PLC_EvalFB' = NextCell(cell)
      /\ BUFFER' = [BUFFER EXCEPT ![f] = copy]
      /\ State' = [State EXCEPT ![f] = "REQUESTED"]
      /\ PythonState' = PythonState \cup {"MUSTWAKEUP"}
      /\ UNCHANGED <<Current_Python_EvalFB, python_mutex, python_wait, threadVars>>
  <2>1. asked' = PREBUFFER'
    BY DEF PythonEvalFB, Copied, PrebufferThen
  <2> QED BY <2>1 DEF PythonEvalFB, Pushes
<1>2. Locked /\ TriggedThen(f, trig) /\ State[f] \in {"FREE", "ANSWERED"}
  BY DEF Pushes
<1>3. python_mutex = "plc" /\ python \notin {"deliver", "scan"}
  BY <1>1, <1>2 DEF Holders
<1>4. cell \in Cells /\ NextCell(cell) \in Cells /\ EvalFBs[cell] = Null
  BY <1>2, CursorCellFree, NextCellType DEF CellIsFree, TypeOK
<1>5. copy \in Codes
  BY <1>2 DEF PrebufferThen, TriggedThen, Commands
<1>6. /\ \A g \in FBs : State'[g] = IF g = f THEN "REQUESTED" ELSE State[g]
      /\ \A g \in FBs : BUFFER'[g] = IF g = f THEN copy ELSE BUFFER[g]
      /\ \A i \in Cells : EvalFBs'[i] = IF i = cell THEN f ELSE EvalFBs[i]
  BY <1>1 DEF TypeOK
<1>7. f # Null /\ Null \notin FBs
  BY PyEvalAssumption DEF PyEvalAssumption
<1>8. TypeOK'
  <2>1. TRIGM1' \in [FBs -> BOOLEAN] /\ TRIGGED' \in [FBs -> BOOLEAN]
    BY <1>1 DEF TypeOK
  <2>2. ACK' \in [FBs -> BOOLEAN]
    <3>1. (trig /\ ACK[f]) \in BOOLEAN
      BY Zenon
    <3>2. AckThen(f, trig) \in BOOLEAN
      BY <3>1 DEF AckThen
    <3> QED BY <1>1, <3>2 DEF TypeOK
  <2>3. /\ PREBUFFER' \in [FBs -> Codes \cup {NoValue}]
        /\ BUFFER' \in [FBs -> Codes \cup Results \cup {NoValue}]
    BY <1>1, <1>5 DEF TypeOK
  <2>4. RESULT' \in [FBs -> Codes \cup Results \cup {NoValue}]
    BY <1>1 DEF TypeOK
  <2>5. /\ State' \in [FBs -> FBStates] /\ PythonState' \subseteq Flags
        /\ EvalFBs' \in [Cells -> FBs \cup {Null}] /\ Current_PLC_EvalFB' \in Cells
    BY <1>1, <1>4 DEF TypeOK, FBStates, Flags
  <2> QED BY <1>1, <2>1, <2>2, <2>3, <2>4, <2>5 DEF TypeOK, threadVars
<1>9. Holders'
  BY <1>1, <1>2, <1>3 DEF Holders, Locked, Finished, threadVars
<1>10. Fifo'
  <2>1. \A i \in Cells : EvalFBs[i] \in FBs \cup {Null} /\ EvalFBs[i] # f
    BY <1>2, <1>7 DEF Fifo, TypeOK
  <2>2. \A i \in Cells : EvalFBs'[i] # Null =>
           State'[EvalFBs'[i]] \in {"REQUESTED", "PROCESSING"}
    BY <1>6, <2>1 DEF Fifo
  <2>3. \A g \in FBs : State'[g] \in {"REQUESTED", "PROCESSING"} =>
           \E i \in Cells : EvalFBs'[i] = g
    <3> SUFFICES ASSUME NEW g \in FBs, State'[g] \in {"REQUESTED", "PROCESSING"}
                 PROVE  \E i \in Cells : EvalFBs'[i] = g
      OBVIOUS
    <3>1. CASE g = f
      BY <1>4, <1>6, <3>1
    <3>2. CASE g # f
      <4>1. PICK i \in Cells : EvalFBs[i] = g
        BY <1>6, <3>2 DEF Fifo
      <4>2. i # cell
        BY <1>4, <1>7, <4>1
      <4> QED BY <1>6, <4>1, <4>2
    <3> QED BY <3>1, <3>2
  <2>4. \A i, j \in Cells : EvalFBs'[i] # Null /\ EvalFBs'[i] = EvalFBs'[j] => i = j
    BY <1>6, <2>1 DEF Fifo
  <2>5. Current_Python_EvalFB # cell => \A i \in Cells : EvalFBs[i] # Null <=> Between(i)
    BY DEF Fifo
  <2>6. Current_Python_EvalFB = cell => \A i \in Cells : EvalFBs[i] = Null
    BY <1>4 DEF Fifo
  <2>7. Current_Python_EvalFB' # Current_PLC_EvalFB' =>
           \A i \in Cells : EvalFBs'[i] # Null <=> Between(i)'
    BY <1>1, <1>4, <1>6, <1>7, <2>5, <2>6, CountType DEF Between, NextCell, Cells, TypeOK
  <2>8. Current_Python_EvalFB' = Current_PLC_EvalFB' =>
           \A i \in Cells : EvalFBs'[i] # Null
    BY <1>1, <1>4, <1>6, <1>7, <2>5, <2>6, CountType DEF Between, NextCell, Cells, TypeOK
  <2> QED BY <2>2, <2>3, <2>4, <2>7, <2>8 DEF Fifo
<1>11. Evaluation'
  <2>1. \A g \in FBs : State'[g] = "PROCESSING" =>
           /\ g # f /\ State[g] = "PROCESSING" /\ CurrentFB = g
           /\ BUFFER'[g] = BUFFER[g]
    BY <1>6 DEF Evaluation
  <2>2. CurrentFB # Null => CurrentFB' = CurrentFB
    BY <1>1, <1>4, <1>6 DEF CurrentFB, TypeOK
  <2>3. \A g \in FBs : State'[g] = "PROCESSING" => CurrentFB' = g
    BY <1>7, <2>1, <2>2
  <2>4. python = "command" => CurrentFB' # Null /\ State'[CurrentFB'] = "PROCESSING"
    <3> SUFFICES ASSUME python = "command"
                 PROVE  CurrentFB' # Null /\ State'[CurrentFB'] = "PROCESSING"
      OBVIOUS
    <3>1. CurrentFB \in FBs /\ State[CurrentFB] = "PROCESSING"
      BY DEF Evaluation, TypeOK, CurrentFB
    <3>2. CurrentFB # f
      BY <1>2, <3>1
    <3> QED BY <1>6, <1>7, <2>2, <3>1, <3>2
  <2>5. CurrentFB' \in FBs \cup {Null}
    BY <1>8 DEF TypeOK, CurrentFB
  <2>6. (/\ python \in {"enter", "lock", "deliver"}
         /\ CurrentFB' # Null
         /\ State'[CurrentFB'] = "PROCESSING") => res = ResultOf(BUFFER'[CurrentFB'])
    BY <1>7, <2>1, <2>2, <2>5 DEF Evaluation
  <2>7. UNCHANGED <<python, plc, res>>
    BY <1>1 DEF threadVars
  <2>8. \A g \in FBs : State'[g] = "PROCESSING" =>
           \/ python \in {"command", "enter", "lock", "deliver", "dead"}
           \/ python = "idle" /\ plc = "off"
    BY <2>1 DEF Evaluation
  <2> QED BY <2>3, <2>4, <2>6, <2>7, <2>8 DEF Evaluation
<1>12. CommandWakes'
  BY <1>1 DEF CommandWakes, threadVars
<1>13. Commands'
  <2>1. \A g \in FBs : TRIGGED'[g] => PREBUFFER'[g] \in Codes
    BY <1>1, <1>5 DEF Commands, TypeOK
  <2>2. \A g \in FBs : State'[g] \in {"REQUESTED", "PROCESSING"} => BUFFER'[g] \in Codes
    BY <1>5, <1>6 DEF Commands
  <2> QED BY <2>1, <2>2 DEF Commands
<1>14. Copied'
  <2> SUFFICES ASSUME NEW g \in FBs \ PollFBs
               PROVE  /\ State'[g] # "FREE" => TRIGGED'[g]
                      /\ State'[g] = "ANSWERED" => BUFFER'[g] = ResultOf(PREBUFFER'[g])
                      /\ State'[g] \in {"REQUESTED", "PROCESSING"} =>
                            BUFFER'[g] = PREBUFFER'[g]
    BY <1>1 DEF Copied
  <2>1. CASE g = f
    <3>1. State'[f] = "REQUESTED" /\ TRIGGED'[f] /\ BUFFER'[f] = copy /\ PREBUFFER'[f] = copy
      BY <1>1, <2>1 DEF TypeOK
    <3> QED BY <2>1, <3>1
  <2>2. CASE g # f
    BY <1>1, <2>2 DEF Copied, TypeOK
  <2> QED BY <2>1, <2>2
<1>15. AckCanRise'
  <2> SUFFICES ASSUME NEW g \in FBs \ PollFBs, State'[g] # "FREE" PROVE ~ACK'[g]
    BY DEF AckCanRise
  <2>1. CASE g = f
    BY <1>1, <2>1 DEF AckThen, TypeOK
  <2>2. CASE g # f
    BY <1>1, <2>2 DEF AckCanRise, TypeOK
  <2> QED BY <2>1, <2>2
<1> QED BY <1>8, <1>9, <1>10, <1>11, <1>12, <1>13, <1>14, <1>15

----------------------------------------------------------------------------
LEMMA StepIInv == IInv /\ [Next]_vars => IInv'
<1> SUFFICES ASSUME IInv, [Next]_vars PROVE IInv'
  OBVIOUS
<1>1. CASE Start
  BY <1>1, StartIInv
<1>2. CASE PlcStep \/ Kill \/ Cleanup
  BY <1>2, PlcSyncIInv DEF PlcStep
<1>3. CASE \E f \in FBs : Call(f)
  <2>1. PICK f \in FBs, trig \in BOOLEAN, code \in Codes : PythonEvalFB(f, trig, code)
    BY <1>3, CodesOfType DEF Call
  <2>2. CASE Pushes(f, trig)
    BY <2>1, <2>2, PushIInv
  <2>3. CASE ~Pushes(f, trig)
    BY <2>1, <2>3, QuietCallIInv
  <2> QED BY <2>2, <2>3
<1>4. CASE PythonStep
  BY <1>4, PythonSyncIInv, FetchIInv, DeliverIInv DEF PythonStep
<1>6. CASE EvaluateDies
  BY <1>6, PythonSyncIInv
<1>5. CASE UNCHANGED vars
  <2>1. Fifo' /\ Copied' /\ AckCanRise' /\ Commands'
    BY <1>5, SyncStep DEF vars
  <2>2. TypeOK'
    BY <1>5 DEF IInv, TypeOK, vars, fifoVars, fbVars, syncVars, threadVars
  <2>3. Holders' /\ Evaluation' /\ CommandWakes'
    BY <1>5 DEF IInv, Holders, Locked, Finished, Evaluation, CommandWakes, HasCommand,
                CurrentFB, vars, fifoVars, fbVars, syncVars, threadVars
  <2> QED BY <2>1, <2>2, <2>3 DEF IInv
<1> QED BY <1>1, <1>2, <1>3, <1>4, <1>5, <1>6 DEF Next

\* The inductive invariant of the gateway between PLC and python.
THEOREM PyEvalInvariant == Spec => []IInv
<1>1. Init => IInv
  BY InitIInv
<1>2. IInv /\ [Next]_vars => IInv'
  BY StepIInv
<1> QED BY <1>1, <1>2, PTL DEF Spec

\* Type correctness of the gateway's state.
THEOREM PyEvalTypeCorrect == Spec => []TypeOK
<1>1. IInv => TypeOK
  BY DEF IInv
<1> QED BY <1>1, PyEvalInvariant, PTL

\* plc_python.c's comment is right for any number of blocks: __PythonEvalFB need
\* not check that the fifo cell it writes is free.
THEOREM FifoNeverOverflows == Spec => []CellIsFree
<1>1. IInv => CellIsFree
  BY CursorCellFree DEF IInv
<1> QED BY <1>1, PyEvalInvariant, PTL

\* The python thread never sleeps on a command nobody will wake it for.
THEOREM NoLostWakeUp == Spec => []CommandWakes
<1>1. IInv => CommandWakes
  BY DEF IInv
<1> QED BY <1>1, PyEvalInvariant, PTL

\* A block is answered about the code it was trigged with, and its ACK is low
\* before, so that the program sees a rising edge.
THEOREM AnswersMatch == Spec => [](SafeCopy /\ AckCanRise)
<1>1. IInv => SafeCopy /\ AckCanRise
  BY DEF IInv, Copied, SafeCopy
<1> QED BY <1>1, PyEvalInvariant, PTL

\* The program may wait for a rising edge of ACK: it is low for as long as the
\* command of the block is under way.
THEOREM AckFallsFirst == Spec => []AckCanRise
BY AnswersMatch, PTL

----------------------------------------------------------------------------
(* Rings of cells.                                                          *)

\* The cells of a fifo of N cells, counted from cell p on.
CellFrom(p, k, N) == (p + k - 1) % N

\* Counting goes round once.
LEMMA CellFromIs ==
    ASSUME NEW N \in Nat \ {0}, NEW p \in 0..(N - 1), NEW k \in 1..(N + 1)
    PROVE  /\ CellFrom(p, k, N) = IF p + k - 1 < N THEN p + k - 1 ELSE p + k - 1 - N
           /\ CellFrom(p, k, N) \in 0..(N - 1)
<1>1. CASE p + k - 1 < N
  BY <1>1 DEF CellFrom
<1>2. CASE ~(p + k - 1 < N)
  <2>1. p + k - 1 - N \in 0..(N - 1) /\ p + k - 1 = N + (p + k - 1 - N)
    BY <1>2
  <2>2. (p + k - 1) % N = p + k - 1 - N
    BY <2>1
  <2> QED BY <1>2, <2>1, <2>2 DEF CellFrom
<1> QED BY <1>1, <1>2

\* Each cell is counted once.
LEMMA CellFromOnto ==
    ASSUME NEW N \in Nat \ {0}, NEW p \in 0..(N - 1)
    PROVE  /\ \A i \in 0..(N - 1) : \E k \in 1..N : CellFrom(p, k, N) = i
           /\ \A k, l \in 1..N : CellFrom(p, k, N) = CellFrom(p, l, N) => k = l
<1>0. \A k \in 1..(N + 1) :
         /\ p + k - 1 < N => CellFrom(p, k, N) = p + k - 1
         /\ ~(p + k - 1 < N) => CellFrom(p, k, N) = p + k - 1 - N
  BY CellFromIs
<1>1. ASSUME NEW i \in 0..(N - 1) PROVE \E k \in 1..N : CellFrom(p, k, N) = i
  <2>1. CASE p <= i
    <3>1. i - p + 1 \in 1..N /\ p + (i - p + 1) - 1 = i
      BY <2>1
    <3>2. PICK k \in 1..N : p + k - 1 = i
      BY <3>1
    <3>3. k \in 1..(N + 1)
      OBVIOUS
    <3>4. CellFrom(p, k, N) = i
      BY <1>0, <3>2, <3>3
    <3> QED BY <3>4
  <2>2. CASE i < p
    <3>1. i - p + 1 + N \in 1..N /\ p + (i - p + 1 + N) - 1 - N = i
      BY <2>2
    <3>2. PICK k \in 1..N : p + k - 1 - N = i
      BY <3>1
    <3>3. k \in 1..(N + 1)
      OBVIOUS
    <3>4. CellFrom(p, k, N) = i
      BY <1>0, <3>2, <3>3
    <3> QED BY <3>4
  <2> QED BY <2>1, <2>2
<1>2. ASSUME NEW k \in 1..N, NEW l \in 1..N, CellFrom(p, k, N) = CellFrom(p, l, N)
      PROVE  k = l
  <2>1. k \in 1..(N + 1) /\ l \in 1..(N + 1)
    OBVIOUS
  <2> QED BY <1>0, <1>2, <2>1
<1> QED BY <1>1, <1>2

\* The full cells of a fifo of N cells lie between its cursors p and q.
FullCells(N, p, q, Full) ==
    /\ p < q => \A i \in 0..(N - 1) : i \in Full <=> p <= i /\ i < q
    /\ q < p => \A i \in 0..(N - 1) : i \in Full <=> p <= i \/ i < q
    /\ p = q => Full = {} \/ Full = 0..(N - 1)

\* So they are the first ones from p on, and q comes after them.
LEMMA RingCount ==
    ASSUME NEW N \in Nat \ {0}, NEW p \in 0..(N - 1), NEW q \in 0..(N - 1),
           NEW Full \in SUBSET (0..(N - 1)),
           NEW n, n = Cardinality(Full), FullCells(N, p, q, Full)
    PROVE  /\ n \in 0..N
           /\ \A k \in 1..N : CellFrom(p, k, N) \in Full <=> k <= n
           /\ n < N => CellFrom(p, n + 1, N) = q
<1>0. \A k \in 1..(N + 1) :
         /\ p + k - 1 < N => CellFrom(p, k, N) = p + k - 1
         /\ ~(p + k - 1 < N) => CellFrom(p, k, N) = p + k - 1 - N
         /\ CellFrom(p, k, N) \in 0..(N - 1)
  BY CellFromIs
<1>z. \A k \in 1..N : k \in 1..(N + 1)
  OBVIOUS
<1>1. CASE p < q
  <2>0. \A i \in 0..(N - 1) : i \in Full <=> p <= i /\ i < q
    BY <1>1 DEF FullCells
  <2>1. Full = p..(q - 1)
    <3>1. \A i \in Full : i \in p..(q - 1)
      BY <2>0
    <3>2. \A i \in p..(q - 1) : i \in 0..(N - 1) /\ p <= i /\ i < q
      OBVIOUS
    <3>3. \A i \in p..(q - 1) : i \in Full
      BY <2>0, <3>2
    <3> QED BY <3>1, <3>3
  <2>2. n = q - p
    BY <1>1, <2>1, FS_Interval
  <2>3. ASSUME NEW k \in 1..N PROVE CellFrom(p, k, N) \in Full <=> k <= n
    BY <1>0, <1>1, <1>z, <2>0, <2>2
  <2>4. n < N => CellFrom(p, n + 1, N) = q
    BY <1>0, <1>1, <2>2
  <2> QED BY <1>1, <2>2, <2>3, <2>4
<1>2. CASE q < p
  <2>0. \A i \in 0..(N - 1) : i \in Full <=> p <= i \/ i < q
    BY <1>2 DEF FullCells
  <2>1. Full = (p..(N - 1)) \cup (0..(q - 1))
    <3>1. \A i \in Full : i \in (p..(N - 1)) \cup (0..(q - 1))
      BY <2>0
    <3>2. \A i \in (p..(N - 1)) \cup (0..(q - 1)) :
             i \in 0..(N - 1) /\ (p <= i \/ i < q)
      OBVIOUS
    <3>3. \A i \in (p..(N - 1)) \cup (0..(q - 1)) : i \in Full
      BY <2>0, <3>2
    <3> QED BY <3>1, <3>3
  <2>2. (p..(N - 1)) \cap (0..(q - 1)) = {}
    BY <1>2
  <2>3. /\ IsFiniteSet(p..(N - 1)) /\ Cardinality(p..(N - 1)) = N - p
        /\ IsFiniteSet(0..(q - 1)) /\ Cardinality(0..(q - 1)) = q
    <3>1. /\ p \in Int /\ N - 1 \in Int /\ ~(p > N - 1) /\ (N - 1) - p + 1 = N - p
          /\ 0 \in Int /\ q - 1 \in Int /\ (q - 1) - 0 + 1 = q
      OBVIOUS
    <3>2. IsFiniteSet(p..(N - 1)) /\ Cardinality(p..(N - 1)) = N - p
      <4>1. Cardinality(p..(N - 1)) = IF p > N - 1 THEN 0 ELSE (N - 1) - p + 1
        BY <3>1, FS_Interval
      <4> QED BY <3>1, <4>1, FS_Interval
    <3>3. IsFiniteSet(0..(q - 1)) /\ Cardinality(0..(q - 1)) = q
      <4>1. Cardinality(0..(q - 1)) = IF 0 > q - 1 THEN 0 ELSE (q - 1) - 0 + 1
        BY <3>1, FS_Interval
      <4> QED BY <3>1, <4>1, FS_Interval
    <3> QED BY <3>2, <3>3
  <2>4. n = N - p + q
    <3>1. Cardinality((p..(N - 1)) \cup (0..(q - 1))) =
             Cardinality(p..(N - 1)) + Cardinality(0..(q - 1))
                - Cardinality((p..(N - 1)) \cap (0..(q - 1)))
      BY <2>3, FS_Union
    <3>2. Cardinality((p..(N - 1)) \cap (0..(q - 1))) = 0
      BY <2>2, FS_EmptySet
    <3> QED BY <2>1, <2>3, <3>1, <3>2
  <2>5. ASSUME NEW k \in 1..N PROVE CellFrom(p, k, N) \in Full <=> k <= n
    BY <1>0, <1>2, <1>z, <2>0, <2>4
  <2>6. n < N => CellFrom(p, n + 1, N) = q
    BY <1>0, <1>2, <2>4
  <2> QED BY <1>2, <2>4, <2>5, <2>6
<1>3. CASE p = q /\ Full = {}
  <2>1. n = 0
    BY <1>3, FS_EmptySet
  <2> QED BY <1>0, <1>3, <2>1
<1>4. CASE p = q /\ Full = 0..(N - 1)
  <2>1. n = N
    BY <1>4, FS_Interval
  <2> QED BY <1>0, <1>4, <1>z, <2>1
<1> QED BY <1>1, <1>2, <1>3, <1>4 DEF FullCells

----------------------------------------------------------------------------
(* The fifo of the python_eval blocks as a ring of FBCount cells.           *)

\* The k-th cell from cursor p on.
Cell(p, k) == CellFrom(p, k, FBCount)

\* E is a fifo with n blocks in it, from cursor p to cursor q.
Ring(p, q, E, n) ==
    /\ p \in Cells /\ q \in Cells /\ n \in 0..FBCount
    /\ E \in [Cells -> FBs \cup {Null}]
    /\ \A k \in 1..FBCount : E[Cell(p, k)] # Null <=> k <= n
    /\ n < FBCount => Cell(p, n + 1) = q

\* Each cell is the k-th for one k; advancing the cursor shifts the count by one.
LEMMA CellType ==
    ASSUME NEW p \in Cells
    PROVE  /\ \A k \in 1..FBCount : Cell(p, k) \in Cells
           /\ \A i \in Cells : \E k \in 1..FBCount : Cell(p, k) = i
           /\ \A k, l \in 1..FBCount : Cell(p, k) = Cell(p, l) => k = l
           /\ Cell(p, 1) = p
           /\ \A k \in 1..(FBCount - 1) : Cell(NextCell(p), k) = Cell(p, k + 1)
           /\ Cell(NextCell(p), FBCount) = p
<1>1. p \in 0..(FBCount - 1) /\ NextCell(p) \in 0..(FBCount - 1)
  BY CountType, NextCellType DEF Cells
<1>2. ASSUME NEW r \in 0..(FBCount - 1), NEW k \in 1..(FBCount + 1)
      PROVE  /\ Cell(r, k) = IF r + k - 1 < FBCount THEN r + k - 1 ELSE r + k - 1 - FBCount
             /\ Cell(r, k) \in 0..(FBCount - 1)
  BY <1>2, CountType, CellFromIs DEF Cell
<1>3. /\ \A i \in Cells : \E k \in 1..FBCount : Cell(p, k) = i
      /\ \A k, l \in 1..FBCount : Cell(p, k) = Cell(p, l) => k = l
  BY <1>1, CountType, CellFromOnto DEF Cell, Cells
<1>4. ASSUME NEW k \in 1..FBCount PROVE Cell(p, k) \in Cells
  <2>1. k \in 1..(FBCount + 1)
    BY CountType
  <2> QED BY <1>1, <1>2, <2>1 DEF Cells
<1>5. Cell(p, 1) = p
  <2>1. 1 \in 1..(FBCount + 1)
    BY CountType
  <2>2. p + 1 - 1 < FBCount /\ p + 1 - 1 = p
    BY <1>1, CountType
  <2> QED BY <1>1, <1>2, <2>1, <2>2
<1>6. ASSUME NEW k \in 1..(FBCount - 1) PROVE Cell(NextCell(p), k) = Cell(p, k + 1)
  <2>1. k \in 1..(FBCount + 1) /\ k + 1 \in 1..(FBCount + 1)
    BY CountType
  <2>2. /\ Cell(p, k + 1) = IF p + (k + 1) - 1 < FBCount THEN p + (k + 1) - 1
                            ELSE p + (k + 1) - 1 - FBCount
        /\ Cell(NextCell(p), k) = IF NextCell(p) + k - 1 < FBCount THEN NextCell(p) + k - 1
                                  ELSE NextCell(p) + k - 1 - FBCount
    BY <1>1, <1>2, <2>1
  <2> QED BY <1>1, <2>2, CountType DEF NextCell
<1>7. Cell(NextCell(p), FBCount) = p
  <2>1. FBCount \in 1..(FBCount + 1)
    BY CountType
  <2>2. Cell(NextCell(p), FBCount) =
           IF NextCell(p) + FBCount - 1 < FBCount THEN NextCell(p) + FBCount - 1
           ELSE NextCell(p) + FBCount - 1 - FBCount
    BY <1>1, <1>2, <2>1
  <2> QED BY <1>1, <2>2, CountType DEF NextCell
<1> QED BY <1>3, <1>4, <1>5, <1>6, <1>7

\* EvalFBs is such a fifo, with as many blocks in it as there are cells not Null.
FifoIsRing == Ring(Current_Python_EvalFB, Current_PLC_EvalFB, EvalFBs, FifoLength)

\* It is, as the blocks lie between the cursors ...
LEMMA FifoRing == TypeOK /\ Fifo => FifoIsRing
<1> SUFFICES ASSUME TypeOK, Fifo
             PROVE  Ring(Current_Python_EvalFB, Current_PLC_EvalFB, EvalFBs, FifoLength)
  BY DEF FifoIsRing
<1> DEFINE Full == {i \in Cells : EvalFBs[i] # Null}
           p == Current_Python_EvalFB
           q == Current_PLC_EvalFB
<1>1. /\ p \in Cells /\ q \in Cells /\ EvalFBs \in [Cells -> FBs \cup {Null}]
  BY DEF TypeOK
<1>2. Full \in SUBSET Cells /\ FifoLength = Cardinality(Full)
  BY DEF FifoLength
<1>3. \A i \in Cells : i \in Full <=> EvalFBs[i] # Null
  OBVIOUS
<1> HIDE DEF Full
<1>4. p < q => \A i \in Cells : i \in Full <=> p <= i /\ i < q
  BY <1>1, <1>3, CountType DEF Fifo, Between, Cells
<1>5. q < p => \A i \in Cells : i \in Full <=> p <= i \/ i < q
  BY <1>1, <1>3, CountType DEF Fifo, Between, Cells
<1>6. p = q => Full = {} \/ Full = Cells
  BY <1>2, <1>3 DEF Fifo
<1> HIDE DEF p, q
<1>7. /\ FifoLength \in 0..FBCount
      /\ \A k \in 1..FBCount : CellFrom(p, k, FBCount) \in Full <=> k <= FifoLength
      /\ FifoLength < FBCount => CellFrom(p, FifoLength + 1, FBCount) = q
  <2>1. /\ p \in 0..(FBCount - 1) /\ q \in 0..(FBCount - 1)
        /\ Full \in SUBSET (0..(FBCount - 1))
    BY <1>1, <1>2 DEF Cells
  <2>2. FullCells(FBCount, p, q, Full)
    BY <1>4, <1>5, <1>6 DEF FullCells, Cells
  <2> QED BY <1>2, <2>1, <2>2, CountType, RingCount
<1>8. \A k \in 1..FBCount : Cell(p, k) \in Cells
  BY <1>1, CellType
<1>9. Ring(p, q, EvalFBs, FifoLength)
  BY <1>1, <1>3, <1>7, <1>8 DEF Ring, Cell
<1> QED BY <1>9 DEF p, q

\* ... after a step as well.
LEMMA FifoRingNext ==
    TypeOK' /\ Fifo' =>
        Ring(Current_Python_EvalFB', Current_PLC_EvalFB', EvalFBs', FifoLength')
<1>1. TypeOK' /\ Fifo' => FifoIsRing'
  BY FifoRing, PTL
<1> QED BY <1>1 DEF FifoIsRing

\* A block that is written under cursor q comes last.
LEMMA RingGrows ==
    ASSUME NEW p, NEW q, NEW E, NEW n, Ring(p, q, E, n), E[q] = Null,
           NEW f \in FBs, NEW q2, NEW n2, Ring(p, q2, [E EXCEPT ![q] = f], n2)
    PROVE  /\ n \in Nat /\ n < FBCount /\ n2 = n + 1 /\ Cell(p, n + 1) = q
           /\ \A k \in 1..n : Cell(p, k) \in Cells \ {q}
<1> DEFINE E2 == [E EXCEPT ![q] = f]
<1>1. PICK k \in 1..FBCount : Cell(p, k) = q
  BY CellType DEF Ring
<1>2. n \in Nat /\ n < FBCount /\ Cell(p, n + 1) = q
  BY <1>1, CountType DEF Ring
<1>3. n2 \in 0..FBCount /\ \A l \in 1..FBCount : E2[Cell(p, l)] # Null <=> l <= n2
  BY DEF Ring
<1>4. \A l \in 1..FBCount : Cell(p, l) \in Cells
  BY CellType DEF Ring
<1>5. \A l \in 1..n : l \in 1..FBCount /\ Cell(p, l) # q
  BY <1>2, CountType DEF Ring
<1>6. n + 1 \in 1..FBCount /\ E2[Cell(p, n + 1)] # Null
  BY <1>2, CountType, PyEvalAssumption DEF Ring, PyEvalAssumption
<1>7. n + 1 <= n2
  BY <1>3, <1>6
<1>8. ASSUME n + 1 < n2 PROVE FALSE
  <2>1. n2 \in 1..FBCount /\ n2 # n + 1
    BY <1>2, <1>3, <1>8
  <2>2. E2[Cell(p, n2)] # Null
    BY <1>3, <2>1
  <2>3. Cell(p, n2) # q
    BY <1>2, <1>6, <2>1, CellType DEF Ring
  <2>4. E[Cell(p, n2)] # Null
    BY <1>4, <2>1, <2>2, <2>3 DEF Ring
  <2>5. n2 <= n
    BY <2>1, <2>4 DEF Ring
  <2> QED BY <1>2, <1>8, <2>1, <2>5, CountType
<1>9. n2 = n + 1
  BY <1>2, <1>3, <1>7, <1>8, CountType
<1> QED BY <1>2, <1>4, <1>5, <1>9

\* When the cell under cursor p is cleared, each block comes one earlier.
LEMMA RingShrinks ==
    ASSUME NEW p, NEW q, NEW E, NEW n, Ring(p, q, E, n), E[p] # Null,
           NEW n2, Ring(NextCell(p), q, [E EXCEPT ![p] = Null], n2)
    PROVE  /\ n \in Nat \ {0} /\ n <= FBCount /\ n2 = n - 1
           /\ \A k \in 1..(n - 1) : /\ Cell(NextCell(p), k) = Cell(p, k + 1)
                                    /\ Cell(p, k + 1) \in Cells \ {p}
<1> DEFINE E2 == [E EXCEPT ![p] = Null]
           r == NextCell(p)
<1>1. p \in Cells /\ r \in Cells
  BY NextCellType DEF Ring
<1>2. n \in Nat \ {0} /\ n <= FBCount
  <2>1. 1 \in 1..FBCount
    BY CountType
  <2>2. Cell(p, 1) = p
    BY <1>1, CellType
  <2> QED BY <2>1, <2>2, CountType DEF Ring
<1>3. ASSUME NEW k \in 1..(FBCount - 1)
      PROVE  /\ Cell(r, k) = Cell(p, k + 1)
             /\ Cell(p, k + 1) \in Cells \ {p}
             /\ E2[Cell(r, k)] = E[Cell(p, k + 1)]
             /\ E[Cell(p, k + 1)] # Null <=> k + 1 <= n
  <2>1. k \in 1..FBCount /\ k + 1 \in 1..FBCount /\ 1 \in 1..FBCount /\ k + 1 # 1
    BY CountType
  <2>2. Cell(r, k) = Cell(p, k + 1)
    BY <1>1, CellType
  <2>3. Cell(p, k + 1) \in Cells /\ Cell(p, k + 1) # Cell(p, 1) /\ Cell(p, 1) = p
    BY <1>1, <2>1, CellType
  <2> QED BY <2>1, <2>2, <2>3 DEF Ring
<1>4. FBCount \in 1..FBCount /\ E2[Cell(r, FBCount)] = Null
  BY <1>1, CountType, CellType DEF Ring
<1>5. n2 \in 0..FBCount /\ \A k \in 1..FBCount : E2[Cell(r, k)] # Null <=> k <= n2
  BY DEF Ring
<1>6. \A k \in 1..(FBCount - 1) : k <= n2 <=> k + 1 <= n
  <2> SUFFICES ASSUME NEW k \in 1..(FBCount - 1) PROVE k <= n2 <=> k + 1 <= n
    OBVIOUS
  <2>1. k \in 1..FBCount
    BY CountType
  <2> QED BY <1>3, <1>5, <2>1
<1>7. n2 < FBCount
  BY <1>4, <1>5, CountType
<1> HIDE DEF E2, r
<1>8. n2 = n - 1
  <2>1. n2 = 0 \/ n2 + 1 <= n
    BY <1>5, <1>6, <1>7, CountType
  <2>2. n = 1 \/ n - 1 <= n2
    <3>1. n = 1 \/ n - 1 \in 1..(FBCount - 1)
      BY <1>2, CountType
    <3>2. n - 1 + 1 <= n
      BY <1>2
    <3> QED BY <1>2, <1>6, <3>1, <3>2
  <2> QED BY <1>2, <1>5, <2>1, <2>2
<1>9. \A k \in 1..(n - 1) : k \in 1..(FBCount - 1)
  BY <1>2, CountType
<1> QED BY <1>2, <1>3, <1>8, <1>9 DEF r

----------------------------------------------------------------------------
\* What BUFFER may hold.
Texts == Codes \cup Results \cup {NoValue}

\* The commands of the blocks in a fifo, with the texts in B.
Queue(p, E, B, n) == [i \in 1..n |-> <<E[Cell(p, i)], B[E[Cell(p, i)]]>>]

\* They are a sequence.
LEMMA QueueType ==
    ASSUME NEW p, NEW q, NEW E, NEW n, Ring(p, q, E, n), NEW B \in [FBs -> Texts]
    PROVE  /\ n \in Nat
           /\ Queue(p, E, B, n) \in Seq(FBs \X Texts)
           /\ Len(Queue(p, E, B, n)) = n
           /\ \A i \in 1..n : /\ E[Cell(p, i)] \in FBs
                              /\ Queue(p, E, B, n)[i] = <<E[Cell(p, i)], B[E[Cell(p, i)]]>>
<1>1. n \in Nat /\ \A i \in 1..n : i \in 1..FBCount
  BY CountType DEF Ring
<1>2. \A i \in 1..n : E[Cell(p, i)] \in FBs
  <2>1. \A i \in 1..FBCount : Cell(p, i) \in Cells
    BY CellType DEF Ring
  <2> QED BY <1>1, <2>1 DEF Ring
<1>3. Queue(p, E, B, n) \in [1..n -> FBs \X Texts]
  BY <1>2 DEF Queue
<1>4. Queue(p, E, B, n) \in Seq(FBs \X Texts)
  BY <1>1, <1>3, SeqDef
<1>5. Len(Queue(p, E, B, n)) = n
  BY <1>1, <1>3, <1>4, LenProperties
<1> QED BY <1>1, <1>2, <1>4, <1>5 DEF Queue

\* A fifo without blocks has none.
LEMMA QueueEmpty ==
    ASSUME NEW p, NEW q, NEW E, NEW n, Ring(p, q, E, n), NEW B \in [FBs -> Texts],
           E[p] = Null
    PROVE  Queue(p, E, B, n) = << >> \/ \E i \in Cells : E[i] # Null
<1> SUFFICES ASSUME \A i \in Cells : E[i] = Null PROVE Queue(p, E, B, n) = << >>
  OBVIOUS
<1>1. n \in Nat
  BY QueueType
<1>2. n = 0
  <2>1. 1 \in 1..FBCount /\ Cell(p, 1) = p
    BY CountType, CellType DEF Ring
  <2> QED BY <1>1, <2>1 DEF Ring
<1>3. Queue(p, E, B, n) \in Seq(FBs \X Texts) /\ Len(Queue(p, E, B, n)) = 0
  BY <1>2, QueueType
<1> QED BY <1>3, EmptySeq

\* Block f enters the fifo at q, and the texts of the others stay.
Enters(f, p, q, E, n, B, q2, E2, n2, B2) ==
    /\ Ring(p, q, E, n) /\ B \in [FBs -> Texts]
    /\ Ring(p, q2, E2, n2) /\ B2 \in [FBs -> Texts]
    /\ f \in FBs /\ E[q] = Null /\ E2 = [E EXCEPT ![q] = f]
    /\ \A i \in Cells : E[i] # f
    /\ \A g \in FBs \ {f} : B2[g] = B[g]

\* Then its command is appended.
LEMMA QueueGrows ==
    ASSUME NEW f, NEW p, NEW q, NEW E, NEW n, NEW B,
           NEW q2, NEW E2, NEW n2, NEW B2, Enters(f, p, q, E, n, B, q2, E2, n2, B2)
    PROVE  Queue(p, E2, B2, n2) = Append(Queue(p, E, B, n), <<f, B2[f]>>)
<1> SUFFICES
      ASSUME Ring(p, q, E, n), B \in [FBs -> Texts],
             Ring(p, q2, E2, n2), B2 \in [FBs -> Texts],
             f \in FBs, E[q] = Null, E2 = [E EXCEPT ![q] = f],
             \A i \in Cells : E[i] # f, \A g \in FBs \ {f} : B2[g] = B[g]
      PROVE  Queue(p, E2, B2, n2) = Append(Queue(p, E, B, n), <<f, B2[f]>>)
  BY DEF Enters
<1>0. Ring(p, q2, E2, n2) /\ E2 = [E EXCEPT ![q] = f]
  OBVIOUS
<1> DEFINE s == Queue(p, E, B, n)
           t == Queue(p, E2, B2, n2)
           e == <<f, B2[f]>>
<1>1. /\ n \in Nat /\ n2 = n + 1 /\ Cell(p, n + 1) = q
      /\ \A k \in 1..n : Cell(p, k) \in Cells \ {q}
  BY RingGrows
<1>2. /\ s \in Seq(FBs \X Texts) /\ Len(s) = n
      /\ \A i \in 1..n : /\ E[Cell(p, i)] \in FBs
                         /\ s[i] = <<E[Cell(p, i)], B[E[Cell(p, i)]]>>
  BY QueueType
<1>3. /\ t \in Seq(FBs \X Texts) /\ Len(t) = n2
      /\ \A i \in 1..n2 : t[i] = <<E2[Cell(p, i)], B2[E2[Cell(p, i)]]>>
  <2>1. Ring(p, q2, E2, n2) /\ B2 \in [FBs -> Texts]
    BY <1>0
  <2> QED BY ONLY <2>1, QueueType
<1>4. e \in FBs \X Texts
  OBVIOUS
<1>5. q \in Cells /\ E2[q] = f
  BY <1>0 DEF Ring
<1>6. t[n + 1] = e
  <2>1. n + 1 \in 1..n2 /\ E2[Cell(p, n + 1)] = f
    BY <1>1, <1>5
  <2> QED BY <1>3, <2>1
<1>7. ASSUME NEW i \in 1..n PROVE t[i] = s[i]
  <2>1. i \in 1..n2 /\ Cell(p, i) \in Cells \ {q}
    BY <1>1
  <2>2. E2[Cell(p, i)] = E[Cell(p, i)] /\ E[Cell(p, i)] \in FBs \ {f}
    BY <1>0, <1>2, <2>1 DEF Ring
  <2> QED BY <1>2, <1>3, <2>1, <2>2
<1> HIDE DEF s, t, e
<1>8. /\ Append(s, e) \in Seq(FBs \X Texts) /\ Len(Append(s, e)) = n + 1
      /\ \A i \in 1..n : Append(s, e)[i] = s[i]
      /\ Append(s, e)[n + 1] = e
  BY <1>2, <1>4, AppendProperties
<1>9. \A i \in 1..Len(t) : t[i] = Append(s, e)[i]
  <2> SUFFICES ASSUME NEW i \in 1..n2 PROVE t[i] = Append(s, e)[i]
    BY <1>3
  <2>1. i \in 1..n \/ i = n + 1
    BY <1>1
  <2> QED BY <1>6, <1>7, <1>8, <2>1
<1>10. t = Append(s, e)
  BY <1>1, <1>3, <1>8, <1>9, SeqEqual
<1> QED BY <1>0, <1>10 DEF s, t, e

\* The first block leaves the fifo, and the texts of the others stay.
Leaves(p, q, E, n, B, r, E2, n2, B2) ==
    /\ Ring(p, q, E, n) /\ B \in [FBs -> Texts]
    /\ Ring(r, q, E2, n2) /\ B2 \in [FBs -> Texts]
    /\ E[p] # Null /\ r = NextCell(p) /\ E2 = [E EXCEPT ![p] = Null]
    /\ \A i \in Cells : E[i] = E[p] => i = p
    /\ \A g \in FBs \ {E[p]} : B2[g] = B[g]

\* Then its command was the head, and the tail is left.
LEMMA QueueShrinks ==
    ASSUME NEW p, NEW q, NEW E, NEW n, NEW B,
           NEW r, NEW E2, NEW n2, NEW B2, Leaves(p, q, E, n, B, r, E2, n2, B2)
    PROVE  /\ Queue(p, E, B, n) # << >>
           /\ Head(Queue(p, E, B, n)) = <<E[p], B[E[p]]>>
           /\ Queue(r, E2, B2, n2) = Tail(Queue(p, E, B, n))
<1> SUFFICES
      ASSUME Ring(p, q, E, n), B \in [FBs -> Texts],
             Ring(r, q, E2, n2), B2 \in [FBs -> Texts],
             E[p] # Null, r = NextCell(p), E2 = [E EXCEPT ![p] = Null],
             \A i \in Cells : E[i] = E[p] => i = p,
             \A g \in FBs \ {E[p]} : B2[g] = B[g]
      PROVE  /\ Queue(p, E, B, n) # << >>
             /\ Head(Queue(p, E, B, n)) = <<E[p], B[E[p]]>>
             /\ Queue(r, E2, B2, n2) = Tail(Queue(p, E, B, n))
  BY DEF Leaves
<1>0. Ring(r, q, E2, n2) /\ E2 = [E EXCEPT ![p] = Null] /\ r = NextCell(p)
  OBVIOUS
<1> DEFINE s == Queue(p, E, B, n)
           t == Queue(r, E2, B2, n2)
<1>1. /\ n \in Nat \ {0} /\ n2 = n - 1
      /\ \A k \in 1..(n - 1) : /\ Cell(r, k) = Cell(p, k + 1)
                               /\ Cell(p, k + 1) \in Cells \ {p}
  <2>1. /\ Ring(p, q, E, n) /\ E[p] # Null
        /\ Ring(NextCell(p), q, [E EXCEPT ![p] = Null], n2)
    BY <1>0
  <2> QED BY ONLY <1>0, <2>1, RingShrinks
<1>2. /\ s \in Seq(FBs \X Texts) /\ Len(s) = n
      /\ \A i \in 1..n : /\ E[Cell(p, i)] \in FBs
                         /\ s[i] = <<E[Cell(p, i)], B[E[Cell(p, i)]]>>
  BY QueueType
<1>3. /\ t \in Seq(FBs \X Texts) /\ Len(t) = n2
      /\ \A i \in 1..n2 : t[i] = <<E2[Cell(r, i)], B2[E2[Cell(r, i)]]>>
  <2>1. Ring(r, q, E2, n2) /\ B2 \in [FBs -> Texts]
    BY <1>0
  <2> QED BY ONLY <2>1, QueueType
<1>4. s[1] = <<E[p], B[E[p]]>>
  <2>1. 1 \in 1..n /\ Cell(p, 1) = p
    BY <1>1, CellType DEF Ring
  <2> QED BY <1>2, <2>1
<1>5. ASSUME NEW i \in 1..n2 PROVE t[i] = s[i + 1]
  <2>1. i \in 1..(n - 1) /\ i + 1 \in 1..n
    BY <1>1
  <2>2. Cell(r, i) = Cell(p, i + 1) /\ Cell(p, i + 1) \in Cells \ {p}
    BY <1>1, <2>1
  <2>3. E2[Cell(r, i)] = E[Cell(p, i + 1)] /\ E[Cell(p, i + 1)] \in FBs \ {E[p]}
    BY <1>0, <1>2, <2>1, <2>2 DEF Ring
  <2>4. t[i] = <<E2[Cell(r, i)], B2[E2[Cell(r, i)]]>>
    BY <1>3
  <2>5. s[i + 1] = <<E[Cell(p, i + 1)], B[E[Cell(p, i + 1)]]>>
    BY <1>2, <2>1
  <2> QED BY <2>3, <2>4, <2>5
<1> HIDE DEF s, t
<1>6. s # << >>
  BY <1>1, <1>2, EmptySeq
<1>7. /\ Tail(s) \in Seq(FBs \X Texts) /\ Len(Tail(s)) = n - 1
      /\ \A i \in 1..(n - 1) : Tail(s)[i] = s[i + 1]
  BY <1>2, <1>6, HeadTailProperties
<1>8. \A i \in 1..Len(t) : t[i] = Tail(s)[i]
  BY <1>1, <1>3, <1>5, <1>7
<1>9. t = Tail(s)
  BY <1>1, <1>3, <1>7, <1>8, SeqEqual
<1>10. Head(s) = s[1]
  BY <1>2, <1>6
<1> QED BY <1>0, <1>4, <1>6, <1>9, <1>10 DEF s, t

----------------------------------------------------------------------------
\* What waits for a block is the result of a command.
Answers == \A f \in FBs : State[f] = "ANSWERED" => BUFFER[f] \in Results

\* Nothing is answered at first.
LEMMA InitAnswers == Init => Answers
BY DEF Init, Answers

\* Only IteratorDeliver answers, with the result of the command under the cursor.
LEMMA StepAnswers == IInv /\ Answers /\ [Next]_vars => Answers'
<1> SUFFICES ASSUME IInv, Answers, [Next]_vars PROVE Answers'
  OBVIOUS
<1> SUFFICES ASSUME NEW g \in FBs, State'[g] = "ANSWERED" PROVE BUFFER'[g] \in Results
  BY DEF Answers
<1>0. State \in [FBs -> FBStates] /\ BUFFER \in [FBs -> Texts]
  BY DEF IInv, TypeOK, Texts
<1>1. CASE Start
  BY <1>1 DEF Start
<1>2. ASSUME NEW f \in FBs, NEW trig \in BOOLEAN, NEW code \in Codes,
             PythonEvalFB(f, trig, code)
      PROVE  BUFFER'[g] \in Results
  <2>1. CASE Pushes(f, trig)
    <3>1. /\ State' = [State EXCEPT ![f] = "REQUESTED"]
          /\ BUFFER' = [BUFFER EXCEPT ![f] = PrebufferThen(f, trig, code)]
      BY <1>2, <2>1 DEF PythonEvalFB
    <3> QED BY <1>0, <3>1 DEF Answers
  <2>2. CASE ~Pushes(f, trig)
    <3>1. /\ State' = IF Publishes(f) THEN [State EXCEPT ![f] = "FREE"] ELSE State
          /\ BUFFER' = BUFFER
      BY <1>2, <2>2 DEF PythonEvalFB
    <3> QED BY <1>0, <3>1 DEF Answers
  <2> QED BY <2>1, <2>2
<1>3. CASE IteratorDeliver
  <2> DEFINE f == CurrentFB
  <2>1. CASE f # Null /\ State[f] = "PROCESSING"
    <3>1. /\ State' = [State EXCEPT ![f] = "ANSWERED"]
          /\ BUFFER' = [BUFFER EXCEPT ![f] = res]
      BY <1>3, <2>1 DEF IteratorDeliver
    <3>2. f \in FBs /\ BUFFER[f] \in Codes
      BY <2>1 DEF IInv, TypeOK, CurrentFB, Commands
    <3>3. res = ResultOf(BUFFER[f])
      BY <1>3, <2>1 DEF IteratorDeliver, GotoPython, IInv, Evaluation
    <3>4. res \in Results
      BY <3>2, <3>3 DEF Results
    <3> HIDE DEF f
    <3> QED BY <1>0, <3>1, <3>2, <3>4 DEF Answers
  <2>2. CASE ~(f # Null /\ State[f] = "PROCESSING")
    BY <1>3, <2>2 DEF IteratorDeliver, Answers
  <2> QED BY <2>1, <2>2
<1>4. CASE IteratorFetch
  <2>1. State' = [State EXCEPT ![CurrentFB] = "PROCESSING"] /\ BUFFER' = BUFFER
    BY <1>4 DEF IteratorFetch
  <2> QED BY <1>0, <2>1 DEF Answers
<1>5. ASSUME UNCHANGED fbVars PROVE BUFFER'[g] \in Results
  BY <1>5 DEF fbVars, Answers
<1> QED
  BY <1>1, <1>2, <1>3, <1>4, <1>5, CodesOfType
  DEF Next, PlcStep, Call, Retrieve, Publish, PublishUnlock, Kill, Cleanup, PythonStep,
      PythonStart, IteratorEnter, IteratorLock, IteratorSleep, IteratorWoken,
      IteratorAgain, IteratorRelock, Evaluate, EvaluateDies, vars

\* An answered block always has the result of a command to take.
THEOREM PyEvalAnswers == Spec => [](IInv /\ Answers)
<1>1. Init => IInv /\ Answers
  BY InitIInv, InitAnswers
<1>2. (IInv /\ Answers) /\ [Next]_vars => (IInv /\ Answers)'
  BY StepIInv, StepAnswers
<1> QED BY <1>1, <1>2, PTL DEF Spec

----------------------------------------------------------------------------
(* The refinement: each step of PyEval is one of PyGateway, or none.        *)

\* The refinement mapping in the terms of the lemmas above.
LEMMA BarIsQueue ==
    queueBar = Queue(Current_Python_EvalFB, EvalFBs, BUFFER, FifoLength)
BY DEF queueBar, Queue, Cell, CellFrom

\* The same after a step.
LEMMA BarIsQueueNext ==
    queueBar' = Queue(Current_Python_EvalFB', EvalFBs', BUFFER', FifoLength')
BY DEF queueBar, Queue, Cell, CellFrom

\* A block that Python does not owe an answer is not queued.
LEMMA NotInFifo ==
    ASSUME TypeOK, Fifo, NEW f \in FBs, State[f] \in {"FREE", "ANSWERED"}
    PROVE  /\ \A i \in Cells : EvalFBs[i] # f
           /\ ~Gateway!Queued(f)
<1>1. \A i \in Cells : EvalFBs[i] # f
  BY PyEvalAssumption DEF Fifo, PyEvalAssumption
<1> DEFINE p == Current_Python_EvalFB
<1>2. Ring(p, Current_PLC_EvalFB, EvalFBs, FifoLength) /\ BUFFER \in [FBs -> Texts]
  BY FifoRing DEF FifoIsRing, TypeOK, Texts
<1>3. /\ FifoLength \in Nat /\ Len(queueBar) = FifoLength
      /\ \A i \in 1..FifoLength :
            queueBar[i] = <<EvalFBs[Cell(p, i)], BUFFER[EvalFBs[Cell(p, i)]]>>
  BY ONLY <1>2, QueueType, BarIsQueue
<1>4. \A i \in 1..FifoLength : Cell(p, i) \in Cells
  BY <1>2, <1>3, CellType, CountType DEF Ring
<1>5. \A i \in 1..FifoLength : queueBar[i][1] # f
  BY <1>1, <1>3, <1>4
<1> QED BY <1>1, <1>3, <1>5 DEF Gateway!Queued

\* The steps that leave the fifo and the blocks alone are none of the gateway's.
LEMMA StutterStep ==
    ASSUME UNCHANGED <<fifoVars, fbVars>>
    PROVE  UNCHANGED Gateway!gatewayVars
<1> USE DEF fifoVars, fbVars
<1>1. queueBar' = queueBar
  BY DEF queueBar, FifoLength
<1>2. evaluatingBar' = evaluatingBar
  BY DEF evaluatingBar, CurrentFB
<1>3. replyBar' = replyBar /\ RESULT' = RESULT
  BY DEF replyBar
<1> QED BY <1>1, <1>2, <1>3 DEF Gateway!gatewayVars

\* The initial states map to the gateway's.
LEMMA InitGateway == Init => Gateway!GatewayInit
<1> SUFFICES ASSUME Init PROVE Gateway!GatewayInit
  OBVIOUS
<1>1. IInv
  BY InitIInv
<1>2. queueBar = << >>
  <2>1. /\ Ring(Current_Python_EvalFB, Current_PLC_EvalFB, EvalFBs, FifoLength)
        /\ BUFFER \in [FBs -> Texts]
    BY <1>1, FifoRing DEF FifoIsRing, IInv, TypeOK, Texts
  <2>2. EvalFBs[Current_Python_EvalFB] = Null /\ ~\E i \in Cells : EvalFBs[i] # Null
    BY <1>1 DEF Init, IInv, TypeOK
  <2> QED BY <2>1, <2>2, QueueEmpty, BarIsQueue
<1>3. evaluatingBar = FALSE
  BY <1>1 DEF Init, IInv, TypeOK, evaluatingBar, CurrentFB
<1>4. replyBar = [f \in FBs |-> NoValue]
  BY DEF Init, replyBar
<1>5. RESULT = [f \in FBs |-> NoValue]
  BY DEF Init
<1> QED BY <1>2, <1>3, <1>4, <1>5 DEF Gateway!GatewayInit

\* startPLC() forgets what was asked for.
LEMMA StartStep ==
    ASSUME IInv', Start PROVE Gateway!Reset
<1>1. queueBar' = << >>
  <2>1. /\ Ring(Current_Python_EvalFB', Current_PLC_EvalFB', EvalFBs', FifoLength')
        /\ BUFFER' \in [FBs -> Texts]
    BY FifoRingNext DEF IInv, TypeOK, Texts
  <2>2. EvalFBs'[Current_Python_EvalFB'] = Null /\ ~\E i \in Cells : EvalFBs'[i] # Null
    BY DEF Start, IInv, TypeOK
  <2> QED BY <2>1, <2>2, QueueEmpty, BarIsQueueNext
<1>2. evaluatingBar' = FALSE
  BY DEF Start, IInv, TypeOK, evaluatingBar, CurrentFB
<1>3. replyBar' = [f \in FBs |-> NoValue]
  BY DEF Start, replyBar
<1>4. RESULT' = [f \in FBs |-> NoValue]
  BY DEF Start
<1> QED BY <1>1, <1>2, <1>3, <1>4 DEF Gateway!Reset

\* PythonIterator() hands the first command out.
LEMMA FetchStep ==
    ASSUME IInv, IteratorFetch PROVE Gateway!Fetch
<1> DEFINE p == Current_Python_EvalFB
<1>0. /\ CurrentFB \in FBs /\ State[CurrentFB] = "REQUESTED" /\ CurrentFB # Null
      /\ State' = [State EXCEPT ![CurrentFB] = "PROCESSING"]
      /\ UNCHANGED <<EvalFBs, Current_Python_EvalFB, BUFFER, RESULT>>
      /\ State \in [FBs -> FBStates]
  BY PyEvalAssumption
  DEF IteratorFetch, HasCommand, IInv, TypeOK, CurrentFB, fifoVars, PyEvalAssumption
<1>1. queueBar' = queueBar
  BY <1>0 DEF queueBar, FifoLength
<1>2. queueBar # << >>
  <2>1. Ring(p, Current_PLC_EvalFB, EvalFBs, FifoLength) /\ BUFFER \in [FBs -> Texts]
    BY FifoRing DEF FifoIsRing, IInv, TypeOK, Texts
  <2>2. /\ FifoLength \in Nat /\ queueBar \in Seq(FBs \X Texts)
        /\ Len(queueBar) = FifoLength
    BY ONLY <2>1, QueueType, BarIsQueue
  <2>3. 1 \in 1..FBCount /\ Cell(p, 1) = p
    BY <2>1, CountType, CellType DEF Ring
  <2>4. FifoLength # 0
    BY <1>0, <2>1, <2>3 DEF Ring, CurrentFB
  <2> QED BY <2>2, <2>4, EmptySeq
<1>3. evaluatingBar = FALSE
  BY <1>0 DEF evaluatingBar
<1>4. evaluatingBar' = TRUE
  <2>1. CurrentFB' = CurrentFB
    BY <1>0 DEF CurrentFB
  <2>2. CurrentFB' # Null /\ State'[CurrentFB'] = "PROCESSING"
    BY <1>0, <2>1
  <2> QED BY <2>2 DEF evaluatingBar
<1>5. replyBar' = replyBar
  <2>1. \A f \in FBs : /\ State'[f] = "ANSWERED" <=> State[f] = "ANSWERED"
                       /\ BUFFER'[f] = BUFFER[f]
    BY <1>0
  <2> QED BY <2>1 DEF replyBar
<1> QED BY <1>0, <1>1, <1>2, <1>3, <1>4, <1>5 DEF Gateway!Fetch

\* PythonIterator() brings its result back, if there is one to bring.
LEMMA DeliverStep ==
    ASSUME IInv, IInv', IteratorDeliver
    PROVE  Gateway!Answer \/ UNCHANGED Gateway!gatewayVars
<1> DEFINE p == Current_Python_EvalFB
           q == Current_PLC_EvalFB
<1>1. CASE CurrentFB # Null /\ State[CurrentFB] = "PROCESSING"
  <2>1. PICK f \in FBs : f = CurrentFB
    BY <1>1 DEF IInv, TypeOK, CurrentFB
  <2>2. /\ f # Null /\ EvalFBs[p] = f /\ State[f] = "PROCESSING" /\ BUFFER[f] \in Codes
        /\ BUFFER' = [BUFFER EXCEPT ![f] = res]
        /\ State' = [State EXCEPT ![f] = "ANSWERED"]
        /\ EvalFBs' = [EvalFBs EXCEPT ![p] = Null]
        /\ Current_Python_EvalFB' = NextCell(p)
        /\ UNCHANGED <<Current_PLC_EvalFB, RESULT>>
    BY <1>1, <2>1 DEF IteratorDeliver, CurrentFB, IInv, Commands
  <2>3. res = ResultOf(BUFFER[f])
    BY <1>1, <2>1 DEF IteratorDeliver, GotoPython, IInv, Evaluation
  <2>4. /\ Ring(p, q, EvalFBs, FifoLength)
        /\ BUFFER \in [FBs -> Texts] /\ BUFFER' \in [FBs -> Texts]
        /\ State \in [FBs -> FBStates] /\ p \in Cells
    BY FifoRing DEF FifoIsRing, IInv, TypeOK, Texts
  <2>5. Ring(NextCell(p), q, [EvalFBs EXCEPT ![p] = Null], FifoLength')
    BY <2>2, FifoRingNext DEF IInv
  <2>6. \A i \in Cells : EvalFBs[i] = EvalFBs[p] => i = p
    BY <2>2, <2>4 DEF IInv, Fifo
  <2>7. \A g \in FBs \ {EvalFBs[p]} : BUFFER'[g] = BUFFER[g]
    BY <2>2, <2>4
  <2>8. /\ queueBar # << >> /\ Head(queueBar) = <<f, BUFFER[f]>>
        /\ Queue(NextCell(p), [EvalFBs EXCEPT ![p] = Null], BUFFER', FifoLength')
              = Tail(queueBar)
    <3>1. PICK E2, n, n2, B2 :
             /\ E2 = EvalFBs' /\ n = FifoLength /\ n2 = FifoLength' /\ B2 = BUFFER'
             /\ Leaves(p, q, EvalFBs, n, BUFFER, NextCell(p), E2, n2, B2)
      BY <2>2, <2>4, <2>5, <2>6, <2>7 DEF Leaves
    <3>2. /\ Queue(p, EvalFBs, BUFFER, n) # << >>
          /\ Head(Queue(p, EvalFBs, BUFFER, n)) = <<EvalFBs[p], BUFFER[EvalFBs[p]]>>
          /\ Queue(NextCell(p), E2, B2, n2) = Tail(Queue(p, EvalFBs, BUFFER, n))
      BY ONLY <3>1, QueueShrinks
    <3> QED BY <2>2, <3>1, <3>2, BarIsQueue
  <2>9. queueBar' = Tail(queueBar)
    BY <2>2, <2>8, BarIsQueueNext
  <2>10. evaluatingBar
    BY <1>1 DEF evaluatingBar
  <2>11. evaluatingBar' = FALSE
    <3>1. ASSUME CurrentFB' # Null, State'[CurrentFB'] = "PROCESSING" PROVE FALSE
      <4>1. CurrentFB' \in FBs
        BY <3>1 DEF IInv, TypeOK, CurrentFB
      <4>2. CurrentFB' # f /\ State[CurrentFB'] = "PROCESSING"
        BY <2>2, <2>4, <3>1, <4>1
      <4> QED BY <2>1, <4>1, <4>2 DEF IInv, Evaluation
    <3> QED BY <3>1 DEF evaluatingBar
  <2>12. replyBar' = [replyBar EXCEPT ![f] = ResultOf(BUFFER[f])]
    <3>1. \A g \in FBs : /\ State'[g] = IF g = f THEN "ANSWERED" ELSE State[g]
                         /\ BUFFER'[g] = IF g = f THEN ResultOf(BUFFER[f]) ELSE BUFFER[g]
      BY <2>2, <2>3, <2>4
    <3> QED BY <3>1 DEF replyBar
  <2>13. Head(queueBar)[1] = f /\ Head(queueBar)[2] = BUFFER[f]
    BY <2>8
  <2>14. \A c : Gateway!ResultOf(c) = ResultOf(c)
    BY DEF Gateway!ResultOf, ResultOf
  <2>15. Gateway!Answer
    BY <2>2, <2>9, <2>10, <2>11, <2>12, <2>13, <2>14 DEF Gateway!Answer
  <2> QED BY <2>15
<1>2. CASE ~(CurrentFB # Null /\ State[CurrentFB] = "PROCESSING")
  BY <1>2, StutterStep DEF IteratorDeliver, fifoVars, fbVars
<1> QED BY <1>1, <1>2

\* A call that enters the block in the fifo.
LEMMA PushStep ==
    ASSUME IInv, Answers, IInv', NEW f \in FBs, NEW trig \in BOOLEAN, NEW code \in Codes,
           PythonEvalFB(f, trig, code), Pushes(f, trig)
    PROVE  Gateway!GatewayNext
<1> DEFINE p == Current_Python_EvalFB
           q == Current_PLC_EvalFB
           copy == PrebufferThen(f, trig, code)
<1>1. /\ Locked /\ State[f] \in {"FREE", "ANSWERED"}
      /\ EvalFBs' = [EvalFBs EXCEPT ![q] = f]
      /\ BUFFER' = [BUFFER EXCEPT ![f] = copy]
      /\ State' = [State EXCEPT ![f] = "REQUESTED"]
      /\ RESULT' = IF Publishes(f) THEN [RESULT EXCEPT ![f] = BUFFER[f]] ELSE RESULT
      /\ Current_Python_EvalFB' = p
  BY DEF PythonEvalFB, Pushes
<1>2. /\ State \in [FBs -> FBStates] /\ BUFFER \in [FBs -> Texts]
      /\ BUFFER' \in [FBs -> Texts] /\ p \in Cells /\ q \in Cells
      /\ EvalFBs \in [Cells -> FBs \cup {Null}] /\ RESULT \in [FBs -> Texts]
  BY DEF IInv, TypeOK, Texts
<1>3. copy \in Codes /\ BUFFER'[f] = copy
  <2>1. BUFFER'[f] = copy /\ State'[f] = "REQUESTED"
    BY <1>1, <1>2
  <2>2. BUFFER'[f] \in Codes
    BY <2>1 DEF IInv, Commands
  <2> QED BY <2>1, <2>2
<1>4. EvalFBs[q] = Null
  BY <1>1, CursorCellFree DEF IInv, CellIsFree
<1>5. (\A i \in Cells : EvalFBs[i] # f) /\ ~Gateway!Queued(f)
  BY <1>1, NotInFifo DEF IInv
<1>6. queueBar' = Append(queueBar, <<f, copy>>)
  <2>1. Ring(p, q, EvalFBs, FifoLength)
    BY FifoRing DEF FifoIsRing, IInv
  <2>2. Ring(p, Current_PLC_EvalFB', EvalFBs', FifoLength')
    BY <1>1, FifoRingNext DEF IInv
  <2>3. \A g \in FBs \ {f} : BUFFER'[g] = BUFFER[g]
    BY <1>1, <1>2
  <2>4. PICK E2, n, q2, n2, B2 :
           /\ E2 = EvalFBs' /\ n = FifoLength /\ n2 = FifoLength' /\ B2 = BUFFER'
           /\ q2 = Current_PLC_EvalFB'
           /\ Enters(f, p, q, EvalFBs, n, BUFFER, q2, E2, n2, B2)
    BY <1>1, <1>2, <1>4, <1>5, <2>1, <2>2, <2>3 DEF Enters
  <2>5. Queue(p, E2, B2, n2) = Append(Queue(p, EvalFBs, BUFFER, n), <<f, B2[f]>>)
    BY ONLY <2>4, QueueGrows
  <2> QED BY <1>1, <1>3, <2>4, <2>5, BarIsQueue, BarIsQueueNext
<1>7. Gateway!Put(f, copy)
  BY <1>5, <1>6 DEF Gateway!Put
<1>8. evaluatingBar' = evaluatingBar
  <2>1. CASE p = q
    <3>1. CurrentFB = Null /\ CurrentFB' = f /\ State'[f] # "PROCESSING"
      BY <1>1, <1>2, <1>4, <2>1 DEF CurrentFB
    <3> QED BY <3>1 DEF evaluatingBar
  <2>2. CASE p # q
    <3>1. CurrentFB' = CurrentFB /\ CurrentFB # f /\ CurrentFB \in FBs \cup {Null}
      BY <1>1, <1>2, <1>5, <2>2 DEF CurrentFB
    <3>2. CurrentFB # Null => State'[CurrentFB'] = State[CurrentFB]
      BY <1>1, <1>2, <3>1
    <3> QED BY <3>1, <3>2 DEF evaluatingBar
  <2> QED BY <2>1, <2>2
<1>9. \A g \in FBs : /\ State'[g] = IF g = f THEN "REQUESTED" ELSE State[g]
                     /\ BUFFER'[g] = IF g = f THEN copy ELSE BUFFER[g]
  BY <1>1, <1>2
<1>10. CASE State[f] = "FREE"
  <2>1. replyBar[f] = NoValue
    BY <1>10 DEF replyBar
  <2>2. replyBar' = replyBar
    BY <1>9, <1>10 DEF replyBar
  <2>3. RESULT' = RESULT
    BY <1>1, <1>10 DEF Publishes
  <2>4. Gateway!Request(f, copy)
    BY <1>7, <1>8, <2>1, <2>2, <2>3 DEF Gateway!Request
  <2> QED BY <1>3, <2>4 DEF Gateway!GatewayNext
<1>11. CASE State[f] = "ANSWERED"
  <2>1. replyBar[f] = BUFFER[f] /\ BUFFER[f] # NoValue
    BY <1>11, ResultAssumption DEF replyBar, Answers
  <2>2. replyBar' = [replyBar EXCEPT ![f] = NoValue]
    BY <1>9, <1>11 DEF replyBar
  <2>3. RESULT' = [RESULT EXCEPT ![f] = replyBar[f]]
    BY <1>1, <1>11, <2>1 DEF Publishes
  <2>4. Gateway!Take(f)
    BY <1>3, <1>7, <1>8, <2>1, <2>2, <2>3 DEF Gateway!Take
  <2> QED BY <2>4 DEF Gateway!GatewayNext
<1> QED BY <1>1, <1>10, <1>11

\* A call that does not, and publishes an answer or nothing.
LEMMA QuietCallStep ==
    ASSUME IInv, Answers, NEW f \in FBs, NEW trig \in BOOLEAN, NEW code \in Codes,
           PythonEvalFB(f, trig, code), ~Pushes(f, trig)
    PROVE  Gateway!GatewayNext \/ UNCHANGED Gateway!gatewayVars
<1>1. /\ State' = IF Publishes(f) THEN [State EXCEPT ![f] = "FREE"] ELSE State
      /\ RESULT' = IF Publishes(f) THEN [RESULT EXCEPT ![f] = BUFFER[f]] ELSE RESULT
      /\ UNCHANGED <<EvalFBs, Current_Python_EvalFB, BUFFER>>
  BY DEF PythonEvalFB
<1>2. State \in [FBs -> FBStates] /\ CurrentFB \in FBs \cup {Null}
  BY DEF IInv, TypeOK, CurrentFB
<1>3. queueBar' = queueBar
  BY <1>1 DEF queueBar, FifoLength
<1>4. CurrentFB' = CurrentFB
  BY <1>1 DEF CurrentFB
<1>5. CASE Publishes(f)
  <2>1. /\ State[f] = "ANSWERED" /\ State' = [State EXCEPT ![f] = "FREE"]
        /\ RESULT' = [RESULT EXCEPT ![f] = BUFFER[f]]
    BY <1>1, <1>5 DEF Publishes
  <2>2. \A g \in FBs : State'[g] = IF g = f THEN "FREE" ELSE State[g]
    BY <1>2, <2>1
  <2>3. evaluatingBar' = evaluatingBar
    <3>1. CurrentFB # Null =>
             (State'[CurrentFB'] = "PROCESSING" <=> State[CurrentFB] = "PROCESSING")
      BY <1>2, <1>4, <2>1, <2>2
    <3> QED BY <1>4, <3>1 DEF evaluatingBar
  <2>4. replyBar[f] = BUFFER[f] /\ BUFFER[f] # NoValue
    BY <2>1, ResultAssumption DEF replyBar, Answers
  <2>5. replyBar' = [replyBar EXCEPT ![f] = NoValue]
    BY <1>1, <2>1, <2>2 DEF replyBar
  <2>6. Gateway!Take(f)
    BY <1>3, <2>1, <2>3, <2>4, <2>5 DEF Gateway!Take
  <2> QED BY <2>6 DEF Gateway!GatewayNext
<1>6. CASE ~Publishes(f)
  <2>1. State' = State /\ RESULT' = RESULT
    BY <1>1, <1>6
  <2>2. evaluatingBar' = evaluatingBar
    BY <1>4, <2>1 DEF evaluatingBar
  <2>3. replyBar' = replyBar
    BY <1>1, <2>1 DEF replyBar
  <2> QED BY <1>3, <2>1, <2>2, <2>3 DEF Gateway!gatewayVars
<1> QED BY <1>5, <1>6

\* Every step is one of the gateway's, or none.
LEMMA StepGateway ==
    ASSUME IInv, Answers, IInv', [Next]_vars
    PROVE  [Gateway!GatewayNext]_(Gateway!gatewayVars)
<1>1. CASE Start
  BY <1>1, StartStep DEF Gateway!GatewayNext
<1>2. ASSUME NEW f \in FBs, Call(f)
      PROVE  Gateway!GatewayNext \/ UNCHANGED Gateway!gatewayVars
  <2>1. PICK trig \in BOOLEAN, code \in Codes : PythonEvalFB(f, trig, code)
    BY <1>2, CodesOfType DEF Call
  <2>2. CASE Pushes(f, trig)
    BY <2>1, <2>2, PushStep
  <2>3. CASE ~Pushes(f, trig)
    BY <2>1, <2>3, QuietCallStep
  <2> QED BY <2>2, <2>3
<1>3. CASE IteratorDeliver
  BY <1>3, DeliverStep DEF Gateway!GatewayNext
<1>4. CASE IteratorFetch
  BY <1>4, FetchStep DEF Gateway!GatewayNext
<1>5. CASE \/ PlcStep \/ Kill \/ Cleanup
           \/ PythonStart \/ IteratorEnter \/ IteratorLock \/ IteratorSleep
           \/ IteratorWoken \/ IteratorAgain \/ IteratorRelock \/ Evaluate
           \/ EvaluateDies \/ UNCHANGED vars
  <2>1. UNCHANGED <<fifoVars, fbVars>>
    BY <1>5 DEF PlcStep, Retrieve, Publish, PublishUnlock, Kill, Cleanup, PythonStart,
                IteratorEnter, IteratorLock, IteratorSleep, IteratorWoken,
                IteratorAgain, IteratorRelock, Evaluate, EvaluateDies, vars
  <2> QED BY <2>1, StutterStep
<1> QED BY <1>1, <1>2, <1>3, <1>4, <1>5 DEF Next, PythonStep

\* The fifo of plc_python.c, its two cursors, its flags and its two threads
\* implement PyGateway, for any number of blocks: commands are evaluated one at a
\* time, each once, in the order in which they were put, and each block takes the
\* result of its own command.
THEOREM PyEvalImplementsPyGateway == Spec => ImplementsPyGateway
<1>1. Init => Gateway!GatewayInit
  BY InitGateway
<1>2. (IInv /\ Answers) /\ (IInv /\ Answers)' /\ [Next]_vars
        => [Gateway!GatewayNext]_(Gateway!gatewayVars)
  BY StepGateway
<1> QED
  BY <1>1, <1>2, PyEvalAnswers, PTL DEF Spec, Gateway!GatewaySpec, ImplementsPyGateway
=============================================================================
