---------------------------- MODULE RetainStore ----------------------------
(***************************************************************************)
(* What the retain files promise to the programs that run one after the    *)
(* other: a program that starts has the values of its last complete save,  *)
(* all of one cycle, or its defaults.  They are lost if a save begins that *)
(* is not the first one after an interrupted save, or after the save of    *)
(* another program, or if the power fails before the system has written    *)
(* them back; in no other way.                                             *)
(***************************************************************************)
CONSTANTS Programs, Images, Default, NONE

VARIABLES running,      \* the program, or NONE
          value,        \* of its retain variables, at the end of a cycle
          stored,       \* what each program would be reminded
          safe,         \* the program whose values a save that begins does not lose
          flushed       \* the programs whose values a power failure does not lose

storeVars == <<running, value, stored, safe, flushed>>

Init == /\ running = NONE /\ value = Default
        /\ stored = [p \in Programs |-> NONE]
        /\ safe = NONE /\ flushed = {}

Start(p) == /\ running = NONE
            /\ running' = p
            /\ value' = IF stored[p] = NONE THEN Default ELSE stored[p]
            /\ UNCHANGED <<stored, safe, flushed>>

Cycle == /\ running # NONE
         /\ value' \in Images
         /\ UNCHANGED <<running, stored, safe, flushed>>

BeginSave == /\ running # NONE
             /\ safe' = NONE
             /\ stored' \in [Programs -> Images \cup {NONE}]
             /\ \A p \in Programs : \/ stored'[p] = stored[p]
                                    \/ stored'[p] = NONE /\ p # safe
             /\ flushed' = {p \in flushed : stored'[p] # NONE}
             /\ UNCHANGED <<running, value>>

EndSave == /\ running # NONE
           /\ stored' = [stored EXCEPT ![running] = value]
           /\ safe' = running
           /\ flushed' = flushed \ {running}
           /\ UNCHANGED <<running, value>>

Stop == /\ running # NONE
        /\ running' = NONE
        /\ UNCHANGED <<value, stored, safe, flushed>>

WriteBack == /\ flushed \subseteq flushed'
             /\ \A p \in flushed' : p \in Programs /\ stored[p] # NONE
             /\ UNCHANGED <<running, value, stored, safe>>

PowerFailure == /\ running' = NONE
                /\ stored' \in [Programs -> Images \cup {NONE}]
                /\ \A p \in flushed : stored'[p] = stored[p]
                /\ safe' \in {safe, NONE}
                /\ flushed' = {p \in Programs : stored'[p] # NONE}
                /\ UNCHANGED value

Next == \/ \E p \in Programs : Start(p)
        \/ Cycle \/ BeginSave \/ EndSave \/ Stop \/ WriteBack \/ PowerFailure

Spec == Init /\ [][Next]_storeVars
=============================================================================
