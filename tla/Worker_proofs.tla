-------------------------- MODULE Worker_proofs --------------------------
(***************************************************************************)
(* Proofs about Worker, for any set of threads and any number of calls:    *)
(* no notification is lost, and the worker implements JobService.          *)
(***************************************************************************)
EXTENDS Worker, TLAPS

\* Before the loop begins nobody is past the check of enabled; the first job is in
\* the slot until it is done or has failed; quit() is for runloop() and marks the loop
\* as finished before it takes the mutex; and interleave() has a job for the main
\* thread as long as that one runs the reactor.
Control ==
    /\ main = "init" => /\ job = NoJob /\ ~enabled
                        /\ \A c \in Callers : pc[c] \in {"idle", "lock", "quitLock"}
    /\ job = FirstJob => main \in {"first", "failed", "fed", "served"}
    /\ main = "first" => job = FirstJob
    /\ main = "running" => job \in Callers
    /\ main \in {"fed", "served", "reDone", "inDone"} => loop = "interleave"
    /\ reactor # "runs" => loop = "interleave"
    /\ loop = "interleave" => (finish <=> reactor \in {"joining", "joined"})
    /\ loop = "interleave" /\ main \in {"first", "running"} => reactor = "runs"
    /\ main = "served" => ~finish /\ job # NoJob
    /\ main = "fed" /\ reactor = "runs" => job # NoJob
    /\ \A c \in Callers : pc[c] = "quitLock" => finish /\ loop = "runloop"
    /\ \A c \in Callers : pc[c] \in {"lock", "inFree", "reFree"} => success[c] = "none"

IInv == /\ TypeOK
        /\ Control
        /\ JobHasOwner
        /\ WorkerAwake
        /\ DoneNotMissed
        /\ FreeNotMissed

----------------------------------------------------------------------------
\* free.notify() changes the program counter of at most one waiter, and of one
\* as soon as there is one.
LEMMA NotifyFreeEffect ==
    ASSUME NEW p \in [Callers -> CallPcs], NEW q \in NotifyFree(p)
    PROVE  /\ q \in [Callers -> CallPcs]
           /\ \A c \in Callers : \/ q[c] = p[c]
                                 \/ p[c] = "inFree" /\ q[c] = "reFree"
           /\ (\E c \in Callers : p[c] = "inFree") =>
                 \E c \in Callers : q[c] = "reFree"
<1>1. CASE {c \in Callers : p[c] = "inFree"} = {}
  BY <1>1 DEF NotifyFree
<1>2. CASE {c \in Callers : p[c] = "inFree"} # {}
  <2>1. PICK d \in {c \in Callers : p[c] = "inFree"} :
               q = [p EXCEPT ![d] = "reFree"]
    BY <1>2 DEF NotifyFree
  <2>2. q[d] = "reFree" /\ d \in Callers
    BY <2>1
  <2> QED BY <2>1, <2>2 DEF CallPcs
<1> QED BY <1>1, <1>2

\* done.notify() likewise; with a single waiter it is that one it wakes.
LEMMA NotifyDoneEffect ==
    ASSUME NEW p \in [Callers -> CallPcs], NEW q \in NotifyDone(p)
    PROVE  /\ q \in [Callers -> CallPcs]
           /\ \A c \in Callers : \/ q[c] = p[c]
                                 \/ p[c] = "inDone" /\ q[c] = "reDone"
           /\ \A c \in Callers :
                 (\A d \in Callers : p[d] = "inDone" => d = c) => q[c] # "inDone"
<1>1. CASE {c \in Callers : p[c] = "inDone"} = {}
  BY <1>1 DEF NotifyDone
<1>2. CASE {c \in Callers : p[c] = "inDone"} # {}
  <2>1. PICK d \in {c \in Callers : p[c] = "inDone"} :
               q = [p EXCEPT ![d] = "reDone"]
    BY <1>2 DEF NotifyDone
  <2>2. q[d] = "reDone" /\ d \in Callers /\ p[d] = "inDone"
    BY <2>1
  <2> QED BY <2>1, <2>2 DEF CallPcs
<1> QED BY <1>1, <1>2

\* done.notify_all() wakes every waiter.
LEMMA NotifyAllDoneEffect ==
    ASSUME TypeOK, NotifyAllDone
    PROVE  /\ pc' \in [Callers -> CallPcs]
           /\ \A c \in Callers : \/ pc'[c] = pc[c] /\ pc[c] # "inDone"
                                 \/ pc[c] = "inDone" /\ pc'[c] = "reDone"
BY DEF TypeOK, NotifyAllDone, CallPcs

\* An outcome is that of the job in the slot.
LEMMA OutcomeEffect ==
    ASSUME TypeOK, NEW o \in {"ok", "failed"}, Outcome(o)
    PROVE  /\ success' \in [Callers -> Success]
           /\ \A c \in Callers : success'[c] = IF c = job THEN o ELSE success[c]
BY DEF TypeOK, Outcome, Success

----------------------------------------------------------------------------
LEMMA InitIInv == Init => IInv
<1> SUFFICES ASSUME Init PROVE IInv
  OBVIOUS
<1> USE WorkerAssumption DEF Init, WorkerAssumption
<1>1. TypeOK
  <2>1. finish \in BOOLEAN /\ enabled \in BOOLEAN
    BY Zenon
  <2>2. /\ job \in Callers \cup {FirstJob, NoJob} /\ main \in MainPcs
        /\ loop \in Loops /\ reactor \in {"runs", "ended", "joining", "joined"}
    BY DEF MainPcs
  <2>3. /\ pc \in [Callers -> CallPcs]
        /\ success \in [Callers -> Success]
        /\ ops \in [Callers -> 0..MaxOps]
    BY DEF CallPcs, Success
  <2> QED BY <2>1, <2>2, <2>3 DEF TypeOK
<1>2. Control
  BY DEF Control
<1>3. JobHasOwner /\ WorkerAwake /\ DoneNotMissed
  BY DEF JobHasOwner, WorkerAwake, DoneNotMissed
<1>4. FreeNotMissed
  BY DEF FreeNotMissed, Waiting
<1> QED BY <1>1, <1>2, <1>3, <1>4 DEF IInv

\* Steps keep the types.
LEMMA TypeStep == TypeOK /\ [Next]_vars => TypeOK'
<1> SUFFICES ASSUME TypeOK, [Next]_vars PROVE TypeOK'
  OBVIOUS
<1> USE WorkerAssumption DEF WorkerAssumption, TypeOK, loopVars
<1>1. ASSUME NEW c \in Callers, CallEnter(c) PROVE TypeOK'
  BY <1>1 DEF CallEnter, CallPcs, Success
<1>2. ASSUME NEW c \in Callers, QuitMark(c) PROVE TypeOK'
  BY <1>2 DEF QuitMark, CallPcs
<1>3. ASSUME NEW c \in Callers, CallRefused(c) PROVE TypeOK'
  BY <1>3 DEF CallRefused, CallPcs
<1>4. ASSUME NEW c \in Callers, CallWaitFree(c) PROVE TypeOK'
  BY <1>4 DEF CallWaitFree, CallPcs
<1>5. ASSUME NEW c \in Callers, CallPost(c) PROVE TypeOK'
  BY <1>5 DEF CallPost, NotifyTodo, CallPcs, MainPcs
<1>6. ASSUME NEW c \in Callers, CallWaitDone(c) PROVE TypeOK'
  BY <1>6 DEF CallWaitDone, CallPcs
<1>7. ASSUME NEW c \in Callers, CallReturn(c) PROVE TypeOK'
  <2> DEFINE p == [pc EXCEPT ![c] = "idle"]
  <2>1. p \in [Callers -> CallPcs]
    BY DEF CallPcs
  <2>2. pc' \in NotifyFree(p)
    BY <1>7 DEF CallReturn
  <2>3. pc' \in [Callers -> CallPcs]
    BY <2>1, <2>2, NotifyFreeEffect
  <2> QED BY <1>7, <2>3 DEF CallReturn
<1>8. ASSUME NEW c \in Callers, QuitLock(c) PROVE TypeOK'
  <2> DEFINE p == [pc EXCEPT ![c] = "idle"]
  <2>1. p \in [Callers -> CallPcs]
    BY DEF CallPcs
  <2>2. pc' \in NotifyDone(p)
    BY <1>8 DEF QuitLock
  <2>3. pc' \in [Callers -> CallPcs]
    BY <2>1, <2>2, NotifyDoneEffect
  <2> QED BY <1>8, <2>3 DEF QuitLock, NotifyTodo, MainPcs
<1>9. CASE RunloopStart
  BY <1>9 DEF RunloopStart, MainPcs
<1>10. CASE JobBegin
  BY <1>10 DEF JobBegin, MainPcs
<1>11. CASE FirstJobDone
  <2>1. pc' \in [Callers -> CallPcs]
    BY <1>11, NotifyFreeEffect DEF FirstJobDone
  <2> QED BY <1>11, <2>1 DEF FirstJobDone, LoopTest, MainPcs
<1>12. ASSUME NEW o \in {"ok", "failed"}, JobEnd(o) PROVE TypeOK'
  <2>1. PICK p \in NotifyDone(pc) : pc' \in NotifyFree(p)
    BY <1>12 DEF JobEnd
  <2>2. p \in [Callers -> CallPcs]
    BY <2>1, NotifyDoneEffect
  <2>3. pc' \in [Callers -> CallPcs]
    BY <2>1, <2>2, NotifyFreeEffect
  <2> QED BY <1>12, <2>3, OutcomeEffect DEF JobEnd, LoopTest, MainPcs
<1>13. CASE FirstJobFails
  BY <1>13 DEF FirstJobFails, MainPcs
<1>14. CASE UNCHANGED vars
  BY <1>14 DEF vars
<1>15. CASE InterleaveStart
  BY <1>15 DEF InterleaveStart, MainPcs
<1>16. CASE PendingBegin
  BY <1>16 DEF PendingBegin, MainPcs
<1>17. ASSUME NEW o \in {"ok", "failed"}, PendingEnd(o) PROVE TypeOK'
  BY <1>17, NotifyAllDoneEffect, OutcomeEffect DEF PendingEnd, MainPcs
<1>18. CASE FeedNext
  <2>1. pc' \in [Callers -> CallPcs]
    BY <1>18, NotifyFreeEffect DEF FeedNext
  <2> QED BY <1>18, <2>1 DEF FeedNext, LoopTest, MainPcs
<1>19. CASE FeedFirstFails
  BY <1>19 DEF FeedFirstFails, MainPcs
<1>20. CASE FeedBegin
  BY <1>20 DEF FeedBegin, MainPcs
<1>21. CASE FeedRetest
  BY <1>21 DEF FeedRetest, MainPcs
<1>22. CASE ReactorEnds
  BY <1>22 DEF ReactorEnds
<1>23. CASE Stop
  BY <1>23, NotifyAllDoneEffect DEF Stop, MainPcs
<1>24. CASE StopJoined
  BY <1>24 DEF StopJoined
<1> QED
  BY <1>1, <1>2, <1>3, <1>4, <1>5, <1>6, <1>7, <1>8, <1>9, <1>10, <1>11, <1>12,
     <1>13, <1>14, <1>15, <1>16, <1>17, <1>18, <1>19, <1>20, <1>21, <1>22, <1>23, <1>24
  DEF Next, CallStep, MainStep, FeedStep, StopStep, JobOutcome

\* Every step keeps the inductive invariant.
LEMMA StepIInv == IInv /\ [Next]_vars => IInv'
<1> SUFFICES ASSUME IInv, [Next]_vars PROVE IInv'
  OBVIOUS
<1>t. TypeOK /\ TypeOK'
  BY TypeStep DEF IInv
<1> DEFINE Goal == Control' /\ JobHasOwner' /\ WorkerAwake' /\ DoneNotMissed' /\ FreeNotMissed'
<1> SUFFICES Goal
  BY <1>t DEF IInv
<1> USE <1>t, WorkerAssumption DEF WorkerAssumption, TypeOK, IInv, loopVars
<1>1. ASSUME NEW c \in Callers, CallEnter(c) PROVE Goal
  <2> USE <1>1 DEF CallEnter, CallPcs
  <2>1. Control'
    BY DEF Control
  <2>2. JobHasOwner'
    BY DEF Control, JobHasOwner
  <2>3. WorkerAwake' /\ DoneNotMissed'
    BY DEF WorkerAwake, DoneNotMissed
  <2>4. FreeNotMissed'
    BY DEF FreeNotMissed, Waiting
  <2> QED BY <2>1, <2>2, <2>3, <2>4
<1>2. ASSUME NEW c \in Callers, QuitMark(c) PROVE Goal
  <2> USE <1>2 DEF QuitMark
  <2>1. Control'
    BY DEF Control
  <2>2. JobHasOwner'
    BY DEF Control, JobHasOwner
  <2>3. WorkerAwake' /\ DoneNotMissed'
    BY DEF WorkerAwake, DoneNotMissed
  <2>4. FreeNotMissed'
    BY DEF FreeNotMissed, Waiting
  <2> QED BY <2>1, <2>2, <2>3, <2>4
<1>3. ASSUME NEW c \in Callers, CallRefused(c) PROVE Goal
  <2> USE <1>3 DEF CallRefused
  <2>1. Control'
    BY DEF Control
  <2>2. JobHasOwner'
    BY DEF Control, JobHasOwner
  <2>3. WorkerAwake' /\ DoneNotMissed'
    BY DEF WorkerAwake, DoneNotMissed
  <2>4. FreeNotMissed'
    BY DEF FreeNotMissed, Waiting
  <2> QED BY <2>1, <2>2, <2>3, <2>4
<1>4. ASSUME NEW c \in Callers, CallWaitFree(c) PROVE Goal
  <2> USE <1>4 DEF CallWaitFree, AtFreeTest, MutexFree
  <2>1. Control'
    BY DEF Control
  <2>2. JobHasOwner'
    BY DEF Control, JobHasOwner
  <2>3. WorkerAwake' /\ DoneNotMissed'
    BY DEF WorkerAwake, DoneNotMissed
  <2>4. FreeNotMissed'
    BY DEF FreeNotMissed, Waiting
  <2> QED BY <2>1, <2>2, <2>3, <2>4
<1>5. ASSUME NEW c \in Callers, CallPost(c) PROVE Goal
  <2> USE <1>5 DEF CallPost, AtFreeTest, MutexFree, NotifyTodo
  <2>1. Control'
    BY DEF Control
  <2>2. JobHasOwner'
    BY DEF Control, JobHasOwner
  <2>3. WorkerAwake' /\ DoneNotMissed'
    BY DEF Control, WorkerAwake, DoneNotMissed
  <2>4. FreeNotMissed'
    BY DEF FreeNotMissed, Waiting
  <2> QED BY <2>1, <2>2, <2>3, <2>4
<1>6. ASSUME NEW c \in Callers, CallWaitDone(c) PROVE Goal
  <2> USE <1>6 DEF CallWaitDone, MutexFree
  <2>1. Control'
    BY DEF Control
  <2>2. JobHasOwner'
    BY DEF Control, JobHasOwner
  <2>3. WorkerAwake' /\ DoneNotMissed'
    BY DEF WorkerAwake, DoneNotMissed
  <2>4. FreeNotMissed'
    BY DEF FreeNotMissed, Waiting
  <2> QED BY <2>1, <2>2, <2>3, <2>4
<1>7. ASSUME NEW c \in Callers, CallReturn(c) PROVE Goal
  <2> DEFINE p == [pc EXCEPT ![c] = "idle"]
  <2>0. /\ p \in [Callers -> CallPcs]
        /\ pc' \in NotifyFree(p)
    BY <1>7 DEF CallReturn, CallPcs
  <2>1. /\ \A d \in Callers : \/ pc'[d] = p[d]
                              \/ p[d] = "inFree" /\ pc'[d] = "reFree"
        /\ (\E d \in Callers : p[d] = "inFree") =>
              \E d \in Callers : pc'[d] = "reFree"
    <3> HIDE DEF p
    <3> QED BY <2>0, NotifyFreeEffect
  <2>2. /\ UNCHANGED <<finish, enabled, job, loop, main, reactor, success>>
        /\ pc[c] = "reDone" /\ success[c] # "none" /\ MutexFree
    BY <1>7 DEF CallReturn
  <2>3. Control'
    BY <2>1, <2>2 DEF Control, MutexFree
  <2>4. JobHasOwner'
    BY <2>1, <2>2 DEF JobHasOwner
  <2>5. WorkerAwake' /\ DoneNotMissed'
    BY <2>1, <2>2 DEF WorkerAwake, DoneNotMissed
  <2>6. FreeNotMissed'
    BY <2>1, <2>2 DEF FreeNotMissed, Waiting
  <2> QED BY <2>3, <2>4, <2>5, <2>6
<1>8. ASSUME NEW c \in Callers, QuitLock(c) PROVE Goal
  <2> DEFINE p == [pc EXCEPT ![c] = "idle"]
  <2>0. /\ p \in [Callers -> CallPcs]
        /\ pc' \in NotifyDone(p)
    BY <1>8 DEF QuitLock, CallPcs
  <2>1. \A d \in Callers : \/ pc'[d] = p[d]
                           \/ p[d] = "inDone" /\ pc'[d] = "reDone"
    BY <2>0, NotifyDoneEffect
  <2>2. /\ UNCHANGED <<finish, success, loop, reactor>> /\ loop = "runloop"
        /\ enabled' = FALSE /\ job' = NoJob
        /\ pc[c] = "quitLock" /\ MutexFree
        /\ main' = IF main = "inTodo" THEN "reTodo" ELSE main
    BY <1>8 DEF QuitLock, NotifyTodo, Control
  <2>3. finish /\ finish'
    BY <2>2 DEF Control
  <2>4. Control'
    BY <2>1, <2>2, <2>3 DEF Control, MutexFree
  <2>5. JobHasOwner' /\ WorkerAwake' /\ DoneNotMissed' /\ FreeNotMissed'
    BY <2>2, <2>3 DEF JobHasOwner, WorkerAwake, DoneNotMissed, FreeNotMissed
  <2> QED BY <2>4, <2>5
<1>9. CASE RunloopStart
  <2> USE <1>9 DEF RunloopStart
  <2>1. Control' /\ JobHasOwner'
    BY DEF Control, JobHasOwner
  <2>2. WorkerAwake' /\ DoneNotMissed'
    BY DEF Control, WorkerAwake, DoneNotMissed
  <2>3. FreeNotMissed'
    BY DEF FreeNotMissed
  <2> QED BY <2>1, <2>2, <2>3
<1>10. CASE JobBegin
  <2> USE <1>10 DEF JobBegin
  <2>1. Control' /\ JobHasOwner'
    BY DEF Control, JobHasOwner
  <2>2. WorkerAwake' /\ DoneNotMissed'
    BY DEF WorkerAwake, DoneNotMissed
  <2>3. FreeNotMissed'
    BY DEF FreeNotMissed, Waiting
  <2> QED BY <2>1, <2>2, <2>3
<1>11. CASE FirstJobDone
  <2>1. /\ \A d \in Callers : \/ pc'[d] = pc[d]
                              \/ pc[d] = "inFree" /\ pc'[d] = "reFree"
        /\ (\E d \in Callers : pc[d] = "inFree") =>
              \E d \in Callers : pc'[d] = "reFree"
    BY <1>11, NotifyFreeEffect DEF FirstJobDone
  <2>2. /\ UNCHANGED <<finish, enabled, success, loop, reactor>> /\ loop = "runloop"
        /\ job = FirstJob /\ job' = NoJob
        /\ main' \in {"exited", "inTodo"}
    BY <1>11 DEF FirstJobDone, LoopTest, Control
  <2>3. Control'
    BY <2>1, <2>2 DEF Control
  <2>4. JobHasOwner' /\ DoneNotMissed'
    BY <2>1, <2>2 DEF JobHasOwner, DoneNotMissed
  <2>5. WorkerAwake' /\ FreeNotMissed'
    BY <2>1, <2>2 DEF WorkerAwake, FreeNotMissed, Waiting
  <2> QED BY <2>3, <2>4, <2>5
<1>12. ASSUME NEW o \in {"ok", "failed"}, JobEnd(o) PROVE Goal
  <2>0. PICK p \in NotifyDone(pc) : pc' \in NotifyFree(p)
    BY <1>12 DEF JobEnd
  <2>1. /\ p \in [Callers -> CallPcs]
        /\ \A d \in Callers : \/ p[d] = pc[d]
                              \/ pc[d] = "inDone" /\ p[d] = "reDone"
        /\ \A c \in Callers :
              (\A d \in Callers : pc[d] = "inDone" => d = c) => p[c] # "inDone"
    BY <2>0, NotifyDoneEffect
  <2>2. /\ \A d \in Callers : \/ pc'[d] = p[d]
                              \/ p[d] = "inFree" /\ pc'[d] = "reFree"
        /\ (\E d \in Callers : p[d] = "inFree") =>
              \E d \in Callers : pc'[d] = "reFree"
    BY <2>0, <2>1, NotifyFreeEffect
  <2>3. /\ UNCHANGED <<finish, enabled, loop, reactor>> /\ loop = "runloop"
        /\ main = "running" /\ main' \in {"exited", "inTodo"}
        /\ job \in Callers /\ job' = NoJob
        /\ \A d \in Callers : success'[d] = IF d = job THEN o ELSE success[d]
    BY <1>12, OutcomeEffect DEF JobEnd, LoopTest, Control
  <2>4. /\ pc[job] \in {"inDone", "reDone"}
        /\ success[job] = "none"
    BY <2>3 DEF JobHasOwner
  <2>5. Control'
    BY <2>1, <2>2, <2>3, <2>4 DEF Control
  <2>6. ASSUME ~finish, NEW c \in Callers, pc[c] = "inDone" PROVE c = job
    BY <2>6 DEF JobHasOwner, DoneNotMissed
  <2>7. JobHasOwner'
    BY <2>1, <2>2, <2>3, <2>4 DEF JobHasOwner
  <2>8. DoneNotMissed'
    BY <2>1, <2>2, <2>3, <2>6 DEF DoneNotMissed
  <2>9. WorkerAwake' /\ FreeNotMissed'
    BY <2>1, <2>2, <2>3 DEF WorkerAwake, FreeNotMissed, Waiting
  <2> QED BY <2>5, <2>7, <2>8, <2>9
<1>13. CASE FirstJobFails
  <2> USE <1>13 DEF FirstJobFails
  <2>1. Control' /\ JobHasOwner'
    BY DEF Control, JobHasOwner
  <2>2. WorkerAwake' /\ DoneNotMissed' /\ FreeNotMissed'
    BY DEF WorkerAwake, DoneNotMissed, FreeNotMissed, Waiting
  <2> QED BY <2>1, <2>2
<1>14. CASE UNCHANGED vars
  BY <1>14 DEF vars, Control, JobHasOwner, WorkerAwake, DoneNotMissed,
     FreeNotMissed, Waiting
<1>15. CASE InterleaveStart
  <2> USE <1>15 DEF InterleaveStart
  <2>1. Control' /\ JobHasOwner'
    BY DEF Control, JobHasOwner
  <2>2. WorkerAwake' /\ DoneNotMissed' /\ FreeNotMissed'
    BY DEF Control, WorkerAwake, DoneNotMissed, FreeNotMissed
  <2> QED BY <2>1, <2>2
<1>16. CASE PendingBegin
  <2> USE <1>16 DEF PendingBegin
  <2>1. Control' /\ JobHasOwner'
    BY DEF Control, JobHasOwner
  <2>2. WorkerAwake' /\ DoneNotMissed' /\ FreeNotMissed'
    BY DEF WorkerAwake, DoneNotMissed, FreeNotMissed, Waiting
  <2> QED BY <2>1, <2>2
<1>17. ASSUME NEW o \in {"ok", "failed"}, PendingEnd(o) PROVE Goal
  <2>1. \A d \in Callers : \/ pc'[d] = pc[d] /\ pc[d] # "inDone"
                           \/ pc[d] = "inDone" /\ pc'[d] = "reDone"
    BY <1>17, NotifyAllDoneEffect DEF PendingEnd
  <2>2. \A d \in Callers : success'[d] = IF d = job THEN o ELSE success[d]
    BY <1>17, OutcomeEffect DEF PendingEnd
  <2>3. /\ UNCHANGED <<finish, enabled, job, loop, reactor>>
        /\ loop = "interleave" /\ main \in {"first", "running"} /\ main' = "served"
        /\ job # NoJob /\ ~finish
    BY <1>17 DEF PendingEnd, Control
  <2>4. job \in Callers => pc[job] \in {"inDone", "reDone"}
    BY <2>3 DEF JobHasOwner
  <2>5. Control'
    BY <2>1, <2>2, <2>3, <2>4 DEF Control
  <2>6. JobHasOwner' /\ DoneNotMissed'
    BY <2>1, <2>2, <2>3, <2>4 DEF JobHasOwner, DoneNotMissed
  <2>7. WorkerAwake' /\ FreeNotMissed'
    BY <2>3 DEF WorkerAwake, FreeNotMissed
  <2> QED BY <2>5, <2>6, <2>7
<1>18. CASE FeedNext
  <2>1. /\ \A d \in Callers : \/ pc'[d] = pc[d]
                              \/ pc[d] = "inFree" /\ pc'[d] = "reFree"
        /\ (\E d \in Callers : pc[d] = "inFree") =>
              \E d \in Callers : pc'[d] = "reFree"
    BY <1>18, NotifyFreeEffect DEF FeedNext
  <2>2. /\ UNCHANGED <<finish, enabled, success, loop, reactor>> /\ ~finish
        /\ job # NoJob /\ job' = NoJob /\ main = "served" /\ main' = "inTodo"
    BY <1>18 DEF FeedNext, LoopTest, Control
  <2>3. Control'
    BY <2>1, <2>2 DEF Control
  <2>4. JobHasOwner' /\ DoneNotMissed'
    BY <2>1, <2>2 DEF JobHasOwner, DoneNotMissed
  <2>5. WorkerAwake' /\ FreeNotMissed'
    BY <2>1, <2>2 DEF WorkerAwake, FreeNotMissed, Waiting
  <2> QED BY <2>3, <2>4, <2>5
<1>19. CASE FeedFirstFails
  <2> USE <1>19 DEF FeedFirstFails
  <2>1. Control' /\ JobHasOwner'
    BY DEF Control, JobHasOwner
  <2>2. WorkerAwake' /\ DoneNotMissed' /\ FreeNotMissed'
    BY DEF WorkerAwake, DoneNotMissed, FreeNotMissed, Waiting
  <2> QED BY <2>1, <2>2
<1>20. CASE FeedBegin
  <2> USE <1>20 DEF FeedBegin
  <2>1. Control' /\ JobHasOwner'
    BY DEF Control, JobHasOwner
  <2>2. WorkerAwake' /\ DoneNotMissed' /\ FreeNotMissed'
    BY DEF WorkerAwake, DoneNotMissed, FreeNotMissed, Waiting
  <2> QED BY <2>1, <2>2
<1>21. CASE FeedRetest
  <2> USE <1>21 DEF FeedRetest
  <2>1. Control' /\ JobHasOwner'
    BY DEF Control, JobHasOwner
  <2>2. WorkerAwake' /\ DoneNotMissed' /\ FreeNotMissed'
    BY DEF WorkerAwake, DoneNotMissed, FreeNotMissed, Waiting
  <2> QED BY <2>1, <2>2
<1>22. CASE ReactorEnds \/ StopJoined
  <2> USE <1>22 DEF ReactorEnds, StopJoined
  <2>1. Control' /\ JobHasOwner'
    BY DEF Control, JobHasOwner
  <2>2. WorkerAwake' /\ DoneNotMissed' /\ FreeNotMissed'
    BY DEF WorkerAwake, DoneNotMissed, FreeNotMissed, Waiting
  <2> QED BY <2>1, <2>2
<1>23. CASE Stop
  <2>1. \A d \in Callers : \/ pc'[d] = pc[d] /\ pc[d] # "inDone"
                           \/ pc[d] = "inDone" /\ pc'[d] = "reDone"
    BY <1>23, NotifyAllDoneEffect DEF Stop
  <2>2. /\ UNCHANGED <<success, loop>> /\ loop = "interleave"
        /\ finish' = TRUE /\ enabled' = FALSE /\ job' = NoJob
        /\ reactor = "ended" /\ reactor' = "joining"
        /\ main \notin {"first", "running"}
        /\ main' = CASE main = "inTodo" -> "reTodo"
                    [] main \in {"fed", "served"} -> "reDone"
                    [] OTHER -> main
    BY <1>23 DEF Stop, MutexFree, Control
  <2>3. Control'
    BY <2>1, <2>2 DEF Control
  <2>4. JobHasOwner' /\ WorkerAwake' /\ DoneNotMissed' /\ FreeNotMissed'
    BY <2>2 DEF JobHasOwner, WorkerAwake, DoneNotMissed, FreeNotMissed
  <2> QED BY <2>3, <2>4
<1> QED
  BY <1>1, <1>2, <1>3, <1>4, <1>5, <1>6, <1>7, <1>8, <1>9, <1>10, <1>11, <1>12,
     <1>13, <1>14, <1>15, <1>16, <1>17, <1>18, <1>19, <1>20, <1>21, <1>22, <1>23
  DEF Next, CallStep, MainStep, FeedStep, StopStep, JobOutcome, IInv

----------------------------------------------------------------------------
\* In every reachable state of the worker, whoever calls and whoever quits, no
\* notification has been lost.
THEOREM WorkerInvariant == Spec => []IInv
<1>1. Init => IInv
  BY InitIInv
<1>2. IInv /\ [Next]_vars => IInv'
  BY StepIInv
<1> QED BY <1>1, <1>2, PTL DEF Spec

\* The variables of the worker keep their types.
THEOREM WorkerTypeCorrect == Spec => []TypeOK
BY WorkerInvariant, PTL DEF IInv

\* A posted job has its owner waiting for it, the worker thread does not sleep
\* on it, and without quit() no caller sleeps past the end of its job or beside
\* an empty slot.
THEOREM NoLostNotification ==
    Spec => [](JobHasOwner /\ WorkerAwake /\ DoneNotMissed /\ FreeNotMissed)
BY WorkerInvariant, PTL DEF IInv

\* Worker.call() never leaves a job in the slot that nobody waits for, and never
\* puts one over another caller's job.
THEOREM JobsHaveOwners == Spec => []JobHasOwner
BY NoLostNotification, PTL

\* done.notify() wakes one of all callers that wait on "done": it is always the
\* one whose job has run.
THEOREM DoneWakesOwner == Spec => []DoneNotMissed
BY NoLostNotification, PTL

\* free.notify() is never lost: no caller sleeps beside an empty slot that
\* nobody is about to fill.
THEOREM FreeIsPassedOn == Spec => []FreeNotMissed
BY NoLostNotification, PTL

----------------------------------------------------------------------------
\* A step that leaves alone what phaseBar reads of caller c leaves alone the
\* phase of c.
LEMMA SamePhase ==
    ASSUME NEW c \in Callers, pc'[c] = pc[c], success'[c] = success[c],
           (job = c) <=> (job' = c),
           (main = "running") <=> (main' = "running")
    PROVE  phaseBar'[c] = phaseBar[c]
BY DEF phaseBar

LEMMA AllSamePhase ==
    ASSUME \A c \in Callers : phaseBar'[c] = phaseBar[c]
    PROVE  phaseBar' = phaseBar
BY DEF phaseBar

LEMMA OnePhase ==
    ASSUME NEW c \in Callers, NEW from, NEW to,
           phaseBar[c] = from, phaseBar'[c] = to,
           \A d \in Callers \ {c} : phaseBar'[d] = phaseBar[d]
    PROVE  Service!Move(c, from, to)
<1>1. phaseBar = [x \in Callers |-> phaseBar[x]]
  BY DEF phaseBar
<1>2. phaseBar' = [x \in Callers |-> phaseBar'[x]]
  BY DEF phaseBar
<1>3. phaseBar' = [phaseBar EXCEPT ![c] = to]
  BY <1>1, <1>2
<1> QED BY <1>3 DEF Service!Move

\* The initial state of the worker is one of the service, and each of its
\* steps is one of the service or leaves the service where it is.
LEMMA InitJobService == Init => Service!JobInit
<1> SUFFICES ASSUME Init PROVE Service!JobInit
  OBVIOUS
<1>1. phaseBar = [c \in Callers |-> "idle"]
  BY DEF Init, phaseBar
<1>2. enabled = FALSE
  BY DEF Init
<1> QED BY <1>1, <1>2 DEF Service!JobInit

LEMMA StepJobService ==
    IInv /\ [Next]_vars => [Service!JobNext]_(Service!jobVars)
<1> SUFFICES ASSUME IInv, [Next]_vars
             PROVE  Service!JobNext \/ UNCHANGED Service!jobVars
  OBVIOUS
<1> USE WorkerAssumption DEF WorkerAssumption, IInv, TypeOK, loopVars
<1> DEFINE Goal == Service!JobNext \/ UNCHANGED Service!jobVars
<1> DEFINE Others(c) == \A d \in Callers \ {c} : phaseBar'[d] = phaseBar[d]
<1> SUFFICES Goal
  OBVIOUS
<1> HIDE DEF Goal
<1>a. ASSUME phaseBar' = phaseBar, enabled' = enabled PROVE Goal
  BY <1>a DEF Service!jobVars, Goal
<1>1. ASSUME NEW c \in Callers, CallEnter(c) PROVE Goal
  <2>1. Others(c) /\ enabled' = enabled
    BY <1>1, SamePhase DEF CallEnter
  <2>2. phaseBar[c] = "idle" /\ phaseBar'[c] = "asked"
    BY <1>1 DEF CallEnter, phaseBar
  <2> QED BY <2>1, <2>2, OnePhase DEF Goal, Service!JobNext, Service!Ask
<1>2. ASSUME NEW c \in Callers, QuitMark(c) PROVE Goal
  <2>1. Others(c) /\ enabled' = enabled
    BY <1>2, SamePhase DEF QuitMark
  <2>2. phaseBar[c] = "idle" /\ phaseBar'[c] = "idle"
    BY <1>2 DEF QuitMark, phaseBar
  <2> QED BY <2>1, <2>2, <1>a, AllSamePhase
<1>3. ASSUME NEW c \in Callers, CallRefused(c) PROVE Goal
  <2>1. Others(c) /\ enabled' = enabled /\ ~enabled
    BY <1>3, SamePhase DEF CallRefused
  <2>2. phaseBar[c] = "asked" /\ phaseBar'[c] = "idle"
    BY <1>3 DEF CallRefused, phaseBar
  <2> QED BY <2>1, <2>2, OnePhase DEF Goal, Service!JobNext, Service!Refuse
<1>4. ASSUME NEW c \in Callers, CallWaitFree(c) PROVE Goal
  <2>1. Others(c) /\ enabled' = enabled
    BY <1>4, SamePhase DEF CallWaitFree
  <2>2. phaseBar'[c] = "accepted"
    BY <1>4 DEF CallWaitFree, phaseBar
  <2>3. CASE pc[c] = "reFree"
    <3>1. phaseBar[c] = "accepted"
      BY <2>3 DEF phaseBar
    <3> QED BY <2>1, <2>2, <3>1, <1>a, AllSamePhase
  <2>4. CASE pc[c] = "lock" /\ enabled
    <3>1. phaseBar[c] = "asked"
      BY <2>4 DEF phaseBar
    <3> QED BY <2>1, <2>2, <2>4, <3>1, OnePhase
            DEF Goal, Service!JobNext, Service!Accept
  <2> QED BY <1>4, <2>3, <2>4 DEF CallWaitFree, AtFreeTest
<1>5. ASSUME NEW c \in Callers, CallPost(c) PROVE Goal
  <2>0. /\ job = NoJob /\ job' = c /\ main # "running" /\ main' # "running"
        /\ pc' = [pc EXCEPT ![c] = "inDone"] /\ success[c] = "none"
        /\ UNCHANGED <<enabled, success>>
    BY <1>5 DEF CallPost, AtFreeTest, MutexFree, NotifyTodo, Control
  <2>1. Others(c)
    BY <2>0, SamePhase
  <2>2. phaseBar'[c] = "accepted"
    BY <2>0 DEF phaseBar
  <2>3. CASE pc[c] = "reFree"
    <3>1. phaseBar[c] = "accepted"
      BY <2>3 DEF phaseBar
    <3> QED BY <2>0, <2>1, <2>2, <3>1, <1>a, AllSamePhase
  <2>4. CASE pc[c] = "lock" /\ enabled
    <3>1. phaseBar[c] = "asked"
      BY <2>4 DEF phaseBar
    <3> QED BY <2>0, <2>1, <2>2, <2>4, <3>1, OnePhase
            DEF Goal, Service!JobNext, Service!Accept
  <2> QED BY <1>5, <2>3, <2>4 DEF CallPost, AtFreeTest
<1>6. ASSUME NEW c \in Callers, CallWaitDone(c) PROVE Goal
  <2>1. Others(c) /\ enabled' = enabled
    BY <1>6, SamePhase DEF CallWaitDone
  <2>2. phaseBar'[c] = phaseBar[c]
    BY <1>6 DEF CallWaitDone, phaseBar
  <2> QED BY <2>1, <2>2, <1>a, AllSamePhase
<1>7. ASSUME NEW c \in Callers, CallReturn(c) PROVE Goal
  <2> DEFINE p == [pc EXCEPT ![c] = "idle"]
  <2>0. /\ p \in [Callers -> CallPcs]
        /\ pc' \in NotifyFree(p)
    BY <1>7 DEF CallReturn, CallPcs
  <2>1. \A d \in Callers : \/ pc'[d] = p[d]
                           \/ p[d] = "inFree" /\ pc'[d] = "reFree"
    BY <2>0, NotifyFreeEffect
  <2>2. /\ UNCHANGED <<enabled, job, main, success>>
        /\ pc[c] = "reDone" /\ success[c] # "none"
    BY <1>7 DEF CallReturn
  <2>3. ASSUME NEW d \in Callers \ {c} PROVE phaseBar'[d] = phaseBar[d]
    <3>1. CASE pc'[d] = pc[d]
      BY <2>2, <3>1, SamePhase
    <3>2. CASE pc[d] = "inFree" /\ pc'[d] = "reFree"
      BY <3>2 DEF phaseBar
    <3> QED BY <2>1, <3>1, <3>2
  <2>4. phaseBar[c] = success[c] /\ phaseBar'[c] = "idle"
    BY <2>1, <2>2 DEF phaseBar
  <2>5. Service!Move(c, success[c], "idle")
    BY <2>3, <2>4, OnePhase
  <2>6. success[c] \in Service!Outcomes
    BY <2>2 DEF Success, Service!Outcomes
  <2> QED BY <2>2, <2>5, <2>6 DEF Goal, Service!JobNext, Service!Return
<1>8. ASSUME NEW c \in Callers, QuitLock(c) PROVE Goal
  <2> DEFINE p == [pc EXCEPT ![c] = "idle"]
  <2>0. /\ p \in [Callers -> CallPcs]
        /\ pc' \in NotifyDone(p)
    BY <1>8 DEF QuitLock, CallPcs
  <2>1. \A d \in Callers : \/ pc'[d] = p[d]
                           \/ p[d] = "inDone" /\ pc'[d] = "reDone"
    BY <2>0, NotifyDoneEffect
  <2>2. /\ enabled' = FALSE /\ job' = NoJob /\ success' = success
        /\ pc[c] = "quitLock" /\ main # "running" /\ main' # "running"
        /\ main # "served"
    BY <1>8 DEF QuitLock, NotifyTodo, MutexFree, Control
  <2>3. phaseBar'[c] = phaseBar[c]
    BY <2>1, <2>2 DEF phaseBar
  <2>4. ASSUME NEW d \in Callers, d # job PROVE phaseBar'[d] = phaseBar[d]
    <3>1. CASE d = c
      BY <2>3, <3>1
    <3>2. CASE d # c
      BY <2>1, <2>2, <2>4, <3>2 DEF phaseBar
    <3> QED BY <3>1, <3>2
  <2>5. CASE job \in Callers
    <3>1. job # c /\ pc[job] \in {"inDone", "reDone"} /\ success[job] = "none"
      BY <2>2, <2>5 DEF JobHasOwner
    <3>2. pc'[job] \in {"inDone", "reDone"}
      BY <2>1, <2>5, <3>1
    <3>3. phaseBar[job] = "accepted" /\ phaseBar'[job] = "dropped"
      BY <2>2, <2>5, <3>1, <3>2 DEF phaseBar
    <3>4. Service!Move(job, "accepted", "dropped")
      BY <2>4, <2>5, <3>3, OnePhase
    <3> QED BY <2>2, <2>5, <3>4 DEF Goal, Service!JobNext, Service!Close
  <2>6. CASE job \notin Callers
    <3>1. phaseBar' = phaseBar
      BY <2>4, <2>6, AllSamePhase
    <3> QED BY <2>2, <3>1 DEF Goal, Service!JobNext, Service!Close
  <2> QED BY <2>5, <2>6
<1>9. CASE RunloopStart
  <2>1. phaseBar' = phaseBar
    <3> SUFFICES ASSUME NEW c \in Callers PROVE phaseBar'[c] = phaseBar[c]
      BY AllSamePhase
    <3> QED BY <1>9, SamePhase DEF RunloopStart, Control
  <2> QED BY <1>9, <2>1 DEF RunloopStart, Goal, Service!JobNext, Service!OpenService
<1>10. CASE JobBegin
  <2>1. UNCHANGED <<enabled, job, pc, success>> /\ main = "reTodo"
    BY <1>10 DEF JobBegin
  <2>2. CASE job = NoJob
    <3>1. main' # "running"
      BY <1>10, <2>2 DEF JobBegin
    <3>2. \A c \in Callers : phaseBar'[c] = phaseBar[c]
      BY <2>1, <3>1, SamePhase
    <3>3. phaseBar' = phaseBar
      BY <3>2, AllSamePhase
    <3>4. enabled' = enabled
      BY <2>1
    <3> QED BY <3>3, <3>4, <1>a
  <2>3. CASE job # NoJob
    <3>1. main' = "running" /\ job \in Callers
      BY <1>10, <2>3 DEF JobBegin, Control
    <3>2. \A c \in Callers \ {job} : phaseBar'[c] = phaseBar[c]
      BY <2>1, <3>1 DEF phaseBar
    <3>3. /\ phaseBar[job] = "accepted" /\ phaseBar'[job] = "running"
      BY <2>1, <3>1 DEF phaseBar, JobHasOwner
    <3>4. Service!Move(job, "accepted", "running")
      BY <3>1, <3>2, <3>3, OnePhase
    <3>5. \A c \in Callers : phaseBar[c] # "running"
      BY <2>1 DEF phaseBar, Success
    <3> QED BY <2>1, <3>1, <3>4, <3>5 DEF Goal, Service!JobNext, Service!Begin
  <2> QED BY <2>2, <2>3
<1>11. CASE FirstJobDone
  <2>1. \A d \in Callers : \/ pc'[d] = pc[d]
                           \/ pc[d] = "inFree" /\ pc'[d] = "reFree"
    BY <1>11, NotifyFreeEffect DEF FirstJobDone
  <2>2. /\ UNCHANGED <<enabled, success>>
        /\ job = FirstJob /\ job' = NoJob
        /\ main # "running" /\ main' # "running"
    BY <1>11 DEF FirstJobDone, LoopTest, Control
  <2>3. ASSUME NEW d \in Callers PROVE phaseBar'[d] = phaseBar[d]
    BY <2>1, <2>2 DEF phaseBar
  <2>4. phaseBar' = phaseBar
    BY <2>3, AllSamePhase
  <2>5. enabled' = enabled
    BY <2>2
  <2> QED BY <2>4, <2>5, <1>a
<1>12. ASSUME NEW o \in {"ok", "failed"}, JobEnd(o) PROVE Goal
  <2>0. PICK p \in NotifyDone(pc) : pc' \in NotifyFree(p)
    BY <1>12 DEF JobEnd
  <2>1. /\ p \in [Callers -> CallPcs]
        /\ \A d \in Callers : \/ p[d] = pc[d]
                              \/ pc[d] = "inDone" /\ p[d] = "reDone"
    BY <2>0, NotifyDoneEffect
  <2>2. \A d \in Callers : \/ pc'[d] = p[d]
                           \/ p[d] = "inFree" /\ pc'[d] = "reFree"
    BY <2>0, <2>1, NotifyFreeEffect
  <2>3. /\ enabled' = enabled
        /\ main = "running" /\ main' # "running"
        /\ job \in Callers /\ job' = NoJob
        /\ \A d \in Callers : success'[d] = IF d = job THEN o ELSE success[d]
    BY <1>12, OutcomeEffect DEF JobEnd, LoopTest, Control
  <2>4. /\ pc[job] \in {"inDone", "reDone"}
        /\ success[job] = "none"
    BY <2>3 DEF JobHasOwner
  <2>5. ASSUME NEW d \in Callers \ {job} PROVE phaseBar'[d] = phaseBar[d]
    BY <2>1, <2>2, <2>3 DEF phaseBar
  <2>6. phaseBar[job] = "running" /\ phaseBar'[job] = o
    BY <2>1, <2>2, <2>3, <2>4 DEF phaseBar
  <2>7. Service!Move(job, "running", o)
    BY <2>3, <2>5, <2>6, OnePhase
  <2> QED BY <2>3, <2>7 DEF Goal, Service!JobNext, Service!End, Service!Outcomes
<1>13. CASE FirstJobFails
  <2>1. \A c \in Callers : phaseBar'[c] = phaseBar[c]
    BY <1>13, SamePhase DEF FirstJobFails
  <2>2. phaseBar' = phaseBar
    BY <2>1, AllSamePhase
  <2>3. enabled' = enabled
    BY <1>13 DEF FirstJobFails
  <2> QED BY <2>2, <2>3, <1>a
<1>14. CASE UNCHANGED vars
  <2>1. \A c \in Callers : phaseBar'[c] = phaseBar[c]
    BY <1>14, SamePhase DEF vars
  <2>2. phaseBar' = phaseBar
    BY <2>1, AllSamePhase
  <2>3. enabled' = enabled
    BY <1>14 DEF vars
  <2> QED BY <2>2, <2>3, <1>a
<1>15. CASE InterleaveStart
  <2>1. phaseBar' = phaseBar
    <3> SUFFICES ASSUME NEW c \in Callers PROVE phaseBar'[c] = phaseBar[c]
      BY AllSamePhase
    <3> QED BY <1>15, SamePhase DEF InterleaveStart, Control
  <2> QED BY <1>15, <2>1 DEF InterleaveStart, Goal, Service!JobNext, Service!OpenService
<1>16. CASE PendingBegin
  <2>1. UNCHANGED <<enabled, job, pc, success>> /\ main = "fed" /\ job # NoJob
    BY <1>16 DEF PendingBegin, Control
  <2>2. CASE job = FirstJob
    <3>1. main' # "running"
      BY <1>16, <2>2 DEF PendingBegin
    <3>2. \A c \in Callers : phaseBar'[c] = phaseBar[c]
      BY <2>1, <3>1, SamePhase
    <3>3. phaseBar' = phaseBar
      BY <3>2, AllSamePhase
    <3>4. enabled' = enabled
      BY <2>1
    <3> QED BY <3>3, <3>4, <1>a
  <2>3. CASE job # FirstJob
    <3>1. main' = "running" /\ job \in Callers
      BY <1>16, <2>1, <2>3 DEF PendingBegin
    <3>2. \A c \in Callers \ {job} : phaseBar'[c] = phaseBar[c]
      BY <2>1, <3>1 DEF phaseBar
    <3>3. /\ phaseBar[job] = "accepted" /\ phaseBar'[job] = "running"
      BY <2>1, <3>1 DEF phaseBar, JobHasOwner
    <3>4. Service!Move(job, "accepted", "running")
      BY <3>1, <3>2, <3>3, OnePhase
    <3>5. \A c \in Callers : phaseBar[c] # "running"
      BY <2>1 DEF phaseBar, Success
    <3> QED BY <2>1, <3>1, <3>4, <3>5 DEF Goal, Service!JobNext, Service!Begin
  <2> QED BY <2>2, <2>3
<1>17. ASSUME NEW o \in {"ok", "failed"}, PendingEnd(o) PROVE Goal
  <2>1. \A d \in Callers : \/ pc'[d] = pc[d] /\ pc[d] # "inDone"
                           \/ pc[d] = "inDone" /\ pc'[d] = "reDone"
    BY <1>17, NotifyAllDoneEffect DEF PendingEnd
  <2>2. \A d \in Callers : success'[d] = IF d = job THEN o ELSE success[d]
    BY <1>17, OutcomeEffect DEF PendingEnd
  <2>3. UNCHANGED <<enabled, job>> /\ main \in {"first", "running"} /\ main' = "served"
    BY <1>17 DEF PendingEnd
  <2>4. ASSUME NEW d \in Callers, d # job PROVE phaseBar'[d] = phaseBar[d]
    BY <2>1, <2>2, <2>3, <2>4 DEF phaseBar
  <2>5. CASE job \in Callers
    <3>1. main = "running" /\ pc[job] \in {"inDone", "reDone"} /\ success[job] = "none"
      BY <2>3, <2>5 DEF JobHasOwner, Control
    <3>2. phaseBar[job] = "running" /\ phaseBar'[job] = o
      BY <2>1, <2>2, <2>5, <3>1 DEF phaseBar
    <3>3. Service!Move(job, "running", o)
      BY <2>4, <2>5, <3>2, OnePhase
    <3> QED BY <2>3, <2>5, <3>3 DEF Goal, Service!JobNext, Service!End, Service!Outcomes
  <2>6. CASE job \notin Callers
    <3>1. phaseBar' = phaseBar
      BY <2>4, <2>6, AllSamePhase
    <3>2. enabled' = enabled
      BY <2>3
    <3> QED BY <3>1, <3>2, <1>a
  <2> QED BY <2>5, <2>6
<1>18. CASE FeedNext
  <2>1. \A d \in Callers : \/ pc'[d] = pc[d]
                           \/ pc[d] = "inFree" /\ pc'[d] = "reFree"
    BY <1>18, NotifyFreeEffect DEF FeedNext
  <2>2. /\ UNCHANGED <<enabled, success>> /\ job' = NoJob
        /\ main = "served" /\ main' # "running" /\ ~finish
    BY <1>18 DEF FeedNext, LoopTest, Control
  <2>3. ASSUME NEW d \in Callers PROVE phaseBar'[d] = phaseBar[d]
    <3>1. pc[d] \in {"inDone", "reDone"} => success[d] # "none"
      BY <2>2 DEF JobHasOwner
    <3> QED BY <2>1, <2>2, <3>1 DEF phaseBar, CallPcs
  <2>4. phaseBar' = phaseBar
    BY <2>3, AllSamePhase
  <2>5. enabled' = enabled
    BY <2>2
  <2> QED BY <2>4, <2>5, <1>a
<1>19. CASE FeedFirstFails \/ FeedBegin \/ FeedRetest \/ ReactorEnds \/ StopJoined
  <2>1. /\ UNCHANGED <<enabled, job, pc, success>>
        /\ (main = "running") <=> (main' = "running")
    BY <1>19 DEF FeedFirstFails, FeedBegin, FeedRetest, ReactorEnds, StopJoined
  <2>2. \A c \in Callers : phaseBar'[c] = phaseBar[c]
    BY <2>1, SamePhase
  <2>3. phaseBar' = phaseBar
    BY <2>2, AllSamePhase
  <2>4. enabled' = enabled
    BY <2>1
  <2> QED BY <2>3, <2>4, <1>a
<1>20. CASE Stop
  <2>1. \A d \in Callers : \/ pc'[d] = pc[d] /\ pc[d] # "inDone"
                           \/ pc[d] = "inDone" /\ pc'[d] = "reDone"
    BY <1>20, NotifyAllDoneEffect DEF Stop
  <2>2. /\ enabled' = FALSE /\ job' = NoJob /\ success' = success
        /\ main # "running" /\ main' # "running"
    BY <1>20 DEF Stop, MutexFree
  <2>3. ASSUME NEW d \in Callers, d # job PROVE phaseBar'[d] = phaseBar[d]
    BY <2>1, <2>2, <2>3 DEF phaseBar
  <2>4. CASE job \in Callers /\ main # "served"
    <3>1. pc[job] \in {"inDone", "reDone"} /\ success[job] = "none"
      BY <2>4 DEF JobHasOwner
    <3>2. phaseBar[job] = "accepted" /\ phaseBar'[job] = "dropped"
      BY <2>1, <2>2, <2>4, <3>1 DEF phaseBar
    <3>3. Service!Move(job, "accepted", "dropped")
      BY <2>3, <2>4, <3>2, OnePhase
    <3> QED BY <2>2, <2>4, <3>3 DEF Goal, Service!JobNext, Service!Close
  <2>5. CASE job \in Callers /\ main = "served"
    <3>1. pc[job] \in {"inDone", "reDone"} => success[job] # "none"
      BY <2>5 DEF JobHasOwner, Control
    <3>2. phaseBar'[job] = phaseBar[job]
      BY <2>1, <2>2, <2>5, <3>1 DEF phaseBar, CallPcs
    <3>3. phaseBar' = phaseBar
      BY <2>3, <3>2, AllSamePhase
    <3> QED BY <2>2, <3>3 DEF Goal, Service!JobNext, Service!Close
  <2>6. CASE job \notin Callers
    <3>1. phaseBar' = phaseBar
      BY <2>3, <2>6, AllSamePhase
    <3> QED BY <2>2, <3>1 DEF Goal, Service!JobNext, Service!Close
  <2> QED BY <2>4, <2>5, <2>6
<1> QED
  BY <1>1, <1>2, <1>3, <1>4, <1>5, <1>6, <1>7, <1>8, <1>9, <1>10, <1>11, <1>12,
     <1>13, <1>14, <1>15, <1>16, <1>17, <1>18, <1>19, <1>20
  DEF Next, CallStep, MainStep, FeedStep, StopStep, JobOutcome, Goal

\* Whoever calls and whoever quits: jobs run one at a time, each at most once,
\* a caller gets the outcome of its own job, and a discarded job never runs.
THEOREM WorkerImplementsJobService == Spec => ImplementsJobService
<1>1. IInv /\ [Next]_vars => [Service!JobNext]_(Service!jobVars)
  BY StepJobService
<1> QED BY InitJobService, WorkerInvariant, <1>1, PTL
        DEF Spec, ImplementsJobService, Service!JobSpec
=============================================================================
