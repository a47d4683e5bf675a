---------------------------- MODULE JobService ----------------------------
(***************************************************************************)
(* What runtime/Worker.py promises the threads that call worker.call():    *)
(* jobs of the callers run one at a time, each accepted job runs at most   *)
(* once, and a caller gets back the outcome of its own job and nothing     *)
(* else.  A job that worker.quit() discards never runs.                    *)
(***************************************************************************)
CONSTANTS Callers       \* threads that delegate jobs to the worker thread

VARIABLES phase,        \* phase[c]: where the call of caller c stands
          open          \* does the service accept calls?

jobVars == <<phase, open>>

Outcomes == {"ok", "failed"}
Phases == {"idle", "asked", "accepted", "running", "dropped"} \cup Outcomes

JobTypeOK == /\ phase \in [Callers -> Phases]
             /\ open \in BOOLEAN

JobInit == /\ phase = [c \in Callers |-> "idle"]
           /\ open = FALSE

Move(c, from, to) == /\ phase[c] = from
                     /\ phase' = [phase EXCEPT ![c] = to]

OpenService == open' = TRUE /\ UNCHANGED phase

Ask(c) == Move(c, "idle", "asked") /\ UNCHANGED open

Accept(c) == open /\ Move(c, "asked", "accepted") /\ UNCHANGED open

Refuse(c) == ~open /\ Move(c, "asked", "idle") /\ UNCHANGED open

Begin(c) == /\ \A d \in Callers : phase[d] # "running"
            /\ Move(c, "accepted", "running")
            /\ UNCHANGED open

End(c, o) == Move(c, "running", o) /\ UNCHANGED open

Return(c) == /\ \E o \in Outcomes : Move(c, o, "idle")
             /\ UNCHANGED open

Close == /\ open' = FALSE
         /\ \/ UNCHANGED phase
            \/ \E c \in Callers : Move(c, "accepted", "dropped")

JobNext == \/ OpenService
           \/ Close
           \/ \E c \in Callers : \/ Ask(c) \/ Accept(c) \/ Refuse(c)
                                 \/ Begin(c) \/ Return(c)
                                 \/ \E o \in Outcomes : End(c, o)

JobSpec == JobInit /\ [][JobNext]_jobVars
=============================================================================
