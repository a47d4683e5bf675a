------------------------------ MODULE Worker ------------------------------
(***************************************************************************)
(* runtime/Worker.py: the worker that serialises, in the main thread,      *)
(* every call that touches the PLC shared object.                          *)
(*                                                                         *)
(* The main thread is the worker thread (runloop()), or it runs the reactor*)
(* and wx, and a thread of its own hands it one job after the other        *)
(* (interleave()).  The job loop, in either thread, is "main" below.       *)
(*                                                                         *)
(* One mutex, three conditions over it (todo, done, free).  Only the worker*)
(* thread keeps the mutex over more than one step: it holds it while it    *)
(* executes a job.  Every critical section of a caller is one step here.   *)
(* A thread in a wait set is one whose program counter is "inDone" or      *)
(* "inFree" (callers), "inTodo", "fed" or "inDone" (job loop); a notified  *)
(* thread still has to take the mutex and to look at its predicate again.  *)
(*                                                                         *)
(* A definition under "Slip:" is no part of the model: it is a variant of  *)
(* the one that follows with a mistake in it, which a property must notice.*)
(***************************************************************************)
EXTENDS Naturals

CONSTANTS Callers,      \* threads that use worker.call(): RPC, WAMP, web...
          Quitters,     \* those among them that may use worker.quit()
          FirstJob,     \* the job given to runloop()
          NoJob,        \* None
          Loops,        \* the ways to run the worker: "runloop", "interleave"
          MaxOps        \* bound: operations started by each thread

ASSUME WorkerAssumption == /\ Quitters \subseteq Callers
                           /\ NoJob \notin Callers
                           /\ FirstJob \notin Callers
                           /\ NoJob # FirstJob
                           /\ Loops \subseteq {"runloop", "interleave"}
                           /\ MaxOps \in Nat

VARIABLES
    finish,             \* worker._finish
    enabled,            \* worker.enabled
    job,                \* worker.job, named by the caller that created it
    loop,               \* how the worker is run
    main,               \* program counter of the job loop
    reactor,            \* interleave(): what the main thread does beside the jobs
    pc,                 \* pc[c]: program counter of caller c
    success,            \* success[c]: job.success of the latest job of c
    ops                 \* ops[c]: operations c has started

loopVars == <<loop, reactor>>
vars == <<finish, enabled, job, loopVars, main, pc, success, ops>>

MainPcs == {"init", "first", "inTodo", "reTodo", "running", "exited", "failed",
            "fed", "served", "reDone", "inDone"}
CallPcs == {"idle", "lock", "inFree", "reFree", "inDone", "reDone", "quitLock"}
Success == {"none", "ok", "failed"}

TypeOK == /\ finish \in BOOLEAN
          /\ enabled \in BOOLEAN
          /\ job \in Callers \cup {FirstJob, NoJob}
          /\ loop \in Loops
          /\ main \in MainPcs
          /\ reactor \in {"runs", "ended", "joining", "joined"}
          /\ pc \in [Callers -> CallPcs]
          /\ success \in [Callers -> Success]
          /\ ops \in [Callers -> 0..MaxOps]

Init == /\ finish = FALSE
        /\ enabled = FALSE
        /\ job = NoJob
        /\ loop \in Loops
        /\ main = "init"
        /\ reactor = "runs"
        /\ pc = [c \in Callers |-> "idle"]
        /\ success = [c \in Callers |-> "none"]
        /\ ops = [c \in Callers |-> 0]

\* The mutex is with the worker thread while it executes a job, and stays
\* with it for ever when an exception leaves the job loop: that of the first
\* job, or one of the loop itself.
MutexFree == main \notin {"first", "running", "failed"}

----------------------------------------------------------------------------
(* Conditions.  notify() moves one waiter, if there is one, out of the wait *)
(* set: a notification with nobody waiting is lost.                         *)

Waiting(label) == {c \in Callers : pc[c] = label}

NotifyTodo == main' = IF main = "inTodo" THEN "reTodo" ELSE main

\* Slip: the wrong condition is notified.
NotifyFreeWrong(p) ==
    LET waiters == {c \in Callers : p[c] = "inDone"} IN
    IF waiters = {} THEN {p} ELSE {[p EXCEPT ![c] = "reDone"] : c \in waiters}

\* The possible values of pc after free.notify(), where p is pc before it.
NotifyFree(p) ==
    LET waiters == {c \in Callers : p[c] = "inFree"} IN
    IF waiters = {} THEN {p} ELSE {[p EXCEPT ![c] = "reFree"] : c \in waiters}

\* The same for done.notify().
NotifyDone(p) ==
    LET waiters == {c \in Callers : p[c] = "inDone"} IN
    IF waiters = {} THEN {p} ELSE {[p EXCEPT ![c] = "reDone"] : c \in waiters}

----------------------------------------------------------------------------
(* worker.call(), from a thread that is not the worker thread. *)

CallEnter(c) ==
    /\ pc[c] = "idle"
    /\ ops[c] < MaxOps
    /\ ops' = [ops EXCEPT ![c] = @ + 1]
    /\ success' = [success EXCEPT ![c] = "none"]
    /\ pc' = [pc EXCEPT ![c] = "lock"]
    /\ UNCHANGED <<finish, enabled, job, main, loopVars>>

\* raise EOFError("Worker is disabled")
CallRefused(c) ==
    /\ pc[c] = "lock"
    /\ MutexFree
    /\ ~enabled
    /\ pc' = [pc EXCEPT ![c] = "idle"]
    /\ UNCHANGED <<finish, enabled, job, main, success, ops, loopVars>>

\* Has caller c the mutex, past the check of enabled, to test its predicate?
AtFreeTest(c) == /\ pc[c] = "reFree" \/ (pc[c] = "lock" /\ enabled)
                 /\ MutexFree

CallWaitFree(c) ==
    /\ AtFreeTest(c)
    /\ job # NoJob
    /\ pc' = [pc EXCEPT ![c] = "inFree"]
    /\ UNCHANGED <<finish, enabled, job, main, success, ops, loopVars>>

\* Slip: the slot is not looked at.
CallPostBlind(c) ==
    /\ AtFreeTest(c)
    /\ job' = c
    /\ NotifyTodo
    /\ pc' = [pc EXCEPT ![c] = "inDone"]
    /\ UNCHANGED <<finish, enabled, success, ops, loopVars>>

\* Slip: the worker thread is not notified.
CallPostSilent(c) ==
    /\ AtFreeTest(c)
    /\ job = NoJob
    /\ job' = c
    /\ pc' = [pc EXCEPT ![c] = "inDone"]
    /\ UNCHANGED <<finish, enabled, main, success, ops, loopVars>>

\* self.job = _job; todo.notify(); then the wait for its completion begins.
CallPost(c) ==
    /\ AtFreeTest(c)
    /\ job = NoJob
    /\ job' = c
    /\ NotifyTodo
    /\ pc' = [pc EXCEPT ![c] = "inDone"]
    /\ UNCHANGED <<finish, enabled, success, ops, loopVars>>

CallWaitDone(c) ==
    /\ pc[c] = "reDone"
    /\ MutexFree
    /\ success[c] = "none"
    /\ pc' = [pc EXCEPT ![c] = "inDone"]
    /\ UNCHANGED <<finish, enabled, job, main, success, ops, loopVars>>

\* Slip: wait() in place of wait_for().
CallReturnUntested(c) ==
    /\ pc[c] = "reDone"
    /\ MutexFree
    /\ pc' \in NotifyFree([pc EXCEPT ![c] = "idle"])
    /\ UNCHANGED <<finish, enabled, job, main, success, ops, loopVars>>

\* The result is delivered, or the exception of the job raised again.
CallReturn(c) ==
    /\ pc[c] = "reDone"
    /\ MutexFree
    /\ success[c] # "none"
    /\ pc' \in NotifyFree([pc EXCEPT ![c] = "idle"])
    /\ UNCHANGED <<finish, enabled, job, main, success, ops, loopVars>>

----------------------------------------------------------------------------
(* worker.runloop(), in the main thread. *)

RunloopStart ==
    /\ loop = "runloop" /\ main = "init"
    /\ enabled' = TRUE
    /\ job' = FirstJob
    /\ main' = "first"
    /\ UNCHANGED <<finish, pc, success, ops, loopVars>>

\* while not self._finish: todo.wait_for(...), reached with the job slot empty.
LoopTest == main' = IF finish THEN "exited" ELSE "inTodo"

FirstJobDone ==
    /\ loop = "runloop" /\ main = "first"
    /\ job' = NoJob
    /\ pc' \in NotifyFree(pc)
    /\ LoopTest
    /\ UNCHANGED <<finish, enabled, success, ops, loopVars>>

\* The exception is raised again out of runloop(): nothing releases the mutex.
FirstJobFails ==
    /\ loop = "runloop" /\ main = "first"
    /\ main' = "failed"
    /\ UNCHANGED <<finish, enabled, job, pc, success, ops, loopVars>>

\* A notified worker thread tests whether there is a job, and waits if not.
JobBegin ==
    /\ loop = "runloop" /\ main = "reTodo"
    /\ main' = IF job # NoJob THEN "running" ELSE "inTodo"
    /\ UNCHANGED <<finish, enabled, job, pc, success, ops, loopVars>>

\* self.success = True, or False and exc_info, in the job of the slot.
Outcome(outcome) == success' = IF job \in Callers
                               THEN [success EXCEPT ![job] = outcome] ELSE success

\* Slip: the outcome is left in the slot.
JobEndInSlot(outcome) ==
    /\ loop = "runloop" /\ main = "running"
    /\ job' = outcome
    /\ \E p \in NotifyDone(pc) : pc' \in NotifyFree(p)
    /\ LoopTest
    /\ UNCHANGED <<finish, enabled, success, ops, loopVars>>

\* Slip: the caller is not notified.
JobEndSilent(outcome) ==
    /\ loop = "runloop" /\ main = "running"
    /\ Outcome(outcome)
    /\ job' = NoJob
    /\ pc' \in NotifyFree(pc)
    /\ LoopTest
    /\ UNCHANGED <<finish, enabled, ops, loopVars>>

JobEnd(outcome) ==
    /\ loop = "runloop" /\ main = "running"
    /\ Outcome(outcome)
    /\ job' = NoJob
    /\ \E p \in NotifyDone(pc) : pc' \in NotifyFree(p)
    /\ LoopTest
    /\ UNCHANGED <<finish, enabled, ops, loopVars>>

----------------------------------------------------------------------------
(* worker.quit(), also reached through finish() from RepairPLC. *)

QuitMark(c) ==
    /\ loop = "runloop"
    /\ c \in Quitters
    /\ pc[c] = "idle"
    /\ ops[c] < MaxOps
    /\ ops' = [ops EXCEPT ![c] = @ + 1]
    /\ finish' = TRUE
    /\ pc' = [pc EXCEPT ![c] = "quitLock"]
    /\ UNCHANGED <<enabled, job, main, success, loopVars>>

QuitLock(c) ==
    /\ pc[c] = "quitLock"
    /\ MutexFree
    /\ enabled' = FALSE
    /\ job' = NoJob
    /\ NotifyTodo
    /\ pc' \in NotifyDone([pc EXCEPT ![c] = "idle"])
    /\ UNCHANGED <<finish, success, ops, loopVars>>

----------------------------------------------------------------------------
(* worker.interleave() and stop().  The loop, in a thread of its own, gives *)
(* do_pending_job to the main thread and waits on done ("fed") for the job  *)
(* to have an outcome ("served").                                           *)

\* The possible value of pc after done.notify_all().
NotifyAllDone == pc' = [c \in Callers |-> IF pc[c] = "inDone" THEN "reDone" ELSE pc[c]]

InterleaveStart ==
    /\ loop = "interleave" /\ main = "init"
    /\ enabled' = TRUE
    /\ job' = FirstJob
    /\ main' = "fed"
    /\ UNCHANGED <<finish, pc, success, ops, loopVars>>

\* do_pending_job(), called by the main loop of wx, takes the mutex ...
PendingBegin ==
    /\ main = "fed"
    /\ reactor = "runs"
    /\ main' = IF job = FirstJob THEN "first" ELSE "running"
    /\ UNCHANGED <<finish, enabled, job, pc, success, ops, loopVars>>

\* Slip: notify() in place of notify_all(), which two threads wait for.
PendingEndOne(outcome) ==
    /\ loop = "interleave" /\ main \in {"first", "running"}
    /\ Outcome(outcome)
    /\ \/ NotifyAllDone /\ main' = "inDone"
       \/ UNCHANGED pc /\ main' = "served"
    /\ UNCHANGED <<finish, enabled, job, ops, loopVars>>

\* ... and gives it back with the job done.
PendingEnd(outcome) ==
    /\ loop = "interleave" /\ main \in {"first", "running"}
    /\ Outcome(outcome)
    /\ NotifyAllDone
    /\ main' = "served"
    /\ UNCHANGED <<finish, enabled, job, ops, loopVars>>

\* Slip: the caller that returns is thought to be enough to notify "free".
FeedNextSilent ==
    /\ main = "served"
    /\ job' = NoJob
    /\ LoopTest
    /\ UNCHANGED <<finish, enabled, pc, success, ops, loopVars>>

FeedNext ==
    /\ main = "served"
    /\ job' = NoJob
    /\ pc' \in NotifyFree(pc)
    /\ LoopTest
    /\ UNCHANGED <<finish, enabled, success, ops, loopVars>>

\* The exception of the first job is raised again, with the mutex held.
FeedFirstFails ==
    /\ main = "served"
    /\ job = FirstJob
    /\ main' = "failed"
    /\ UNCHANGED <<finish, enabled, job, pc, success, ops, loopVars>>

FeedBegin ==
    /\ loop = "interleave" /\ main = "reTodo"
    /\ main' = IF job = NoJob THEN "inTodo" ELSE IF finish THEN "exited" ELSE "fed"
    /\ UNCHANGED <<finish, enabled, job, pc, success, ops, loopVars>>

\* stop() has woken up a loop that was waiting for an outcome.  None has no
\* outcome: an AttributeError leaves the loop with the mutex held.  A job that was
\* posted since has none yet: the loop waits for one that will not come.
FeedRetest ==
    /\ main = "reDone"
    /\ main' = IF job = NoJob THEN "failed" ELSE "inDone"
    /\ UNCHANGED <<finish, enabled, job, pc, success, ops, loopVars>>

\* reactor.run() ends: the window is closed, or finish() has called the stopper.
ReactorEnds ==
    /\ loop = "interleave"
    /\ reactor = "runs" /\ main \notin {"first", "running"}
    /\ reactor' = "ended"
    /\ UNCHANGED <<finish, enabled, job, loop, main, pc, success, ops>>

\* stop(), up to the join of the loop's thread ...
Stop ==
    /\ reactor = "ended"
    /\ MutexFree
    /\ finish' = TRUE
    /\ enabled' = FALSE
    /\ job' = NoJob
    /\ main' = CASE main = "inTodo" -> "reTodo"
                [] main \in {"fed", "served"} -> "reDone"
                [] OTHER -> main
    /\ NotifyAllDone
    /\ reactor' = "joining"
    /\ UNCHANGED <<loop, success, ops>>

\* ... and the join.
StopJoined ==
    /\ reactor = "joining"
    /\ main \in {"exited", "failed"}
    /\ reactor' = "joined"
    /\ UNCHANGED <<finish, enabled, job, loop, main, pc, success, ops>>

----------------------------------------------------------------------------

CallStep(c) == \/ CallRefused(c) \/ CallWaitFree(c) \/ CallPost(c)
               \/ CallWaitDone(c) \/ CallReturn(c) \/ QuitLock(c)

JobOutcome == \/ FirstJobDone
              \/ \E outcome \in {"ok", "failed"} : JobEnd(outcome) \/ PendingEnd(outcome)

FeedStep == InterleaveStart \/ PendingBegin \/ FeedNext \/ FeedBegin \/ FeedRetest

MainStep == RunloopStart \/ JobBegin \/ JobOutcome \/ FeedStep

StopStep == Stop \/ StopJoined

Next == \/ \E c \in Callers : CallEnter(c) \/ QuitMark(c) \/ CallStep(c)
        \/ MainStep
        \/ FirstJobFails \/ FeedFirstFails
        \/ ReactorEnds \/ StopStep

Spec == Init /\ [][Next]_vars

\* A thread that can take a step takes one: threads are scheduled, and every
\* job that is started ends.  Nothing makes the first job fail, a thread
\* begin an operation, or the reactor end.
Fairness == /\ WF_vars(MainStep)
            /\ WF_vars(StopStep)
            /\ \A c \in Callers : WF_vars(CallStep(c))

FairSpec == Spec /\ Fairness

----------------------------------------------------------------------------
(* Properties. *)

\* The job in the slot, unless it is done, belongs to a caller that waits for this
\* very job, and a caller waits for an unfinished job only while the slot holds it:
\* jobs are not overwritten, and not forgotten unless quit() or stop() discards them.
JobHasOwner ==
    /\ job \in Callers /\ main # "served" => /\ pc[job] \in {"inDone", "reDone"}
                                             /\ success[job] = "none"
    /\ ~finish => \A c \in Callers :
           pc[c] \in {"inDone", "reDone"} /\ success[c] = "none" =>
               job = c /\ main # "served"

\* todo.notify() is never lost: the job loop does not sleep on a posted job, with
\* or without quit() and stop().
WorkerAwake == job # NoJob => main # "inTodo"

\* done.notify() wakes the caller whose job it is, although the condition is
\* shared by all of them: a caller whose job has run is never left asleep.
DoneNotMissed ==
    ~finish => \A c \in Callers : pc[c] = "inDone" => success[c] = "none"

\* With the slot empty, callers waiting for it never sleep all at once: one has
\* been notified, or a returning caller is about to notify one.
FreeNotMissed ==
    (~finish /\ job = NoJob /\ Waiting("inFree") # {}) =>
        \E c \in Callers : \/ pc[c] = "reFree"
                           \/ (pc[c] = "reDone" /\ success[c] # "none")

\* Every call of a thread comes back, as long as nobody uses quit(), the reactor is
\* not stopped and the first job does not fail.
CallsReturn == \A c \in Callers :
                  pc[c] # "idle" ~> (pc[c] = "idle" \/ finish \/ main = "failed")

\* quit(), docstring: "unblocks main thread, and terminate execution of
\* runloop()".
QuitTerminates == finish ~> main \in {"exited", "failed"}

\* Where the call of c stands, in the terms of the abstract service.
phaseBar == [c \in Callers |->
    CASE pc[c] \in {"idle", "quitLock"} -> "idle"
      [] pc[c] = "lock" -> "asked"
      [] pc[c] \in {"inFree", "reFree"} -> "accepted"
      [] OTHER -> IF success[c] # "none" THEN success[c]
                  ELSE IF job # c THEN "dropped"
                  ELSE IF main = "running" THEN "running" ELSE "accepted"]

Service == INSTANCE JobService WITH phase <- phaseBar, open <- enabled

\* The worker runs the jobs of the callers one at a time, each at most once,
\* gives each caller the outcome of its own job, and never runs a job that
\* quit() or stop() discarded.
ImplementsJobService == Service!JobSpec
=============================================================================
