---------------------------- MODULE PyGateway ----------------------------
(***************************************************************************)
(* What plc_python.c promises the python_eval function blocks of a PLC     *)
(* program: "PLC put python commands in a fifo, respecting execution       *)
(* order".  A block has at most one command outstanding, commands are      *)
(* evaluated one by one in the order they were put, each once, and a block *)
(* receives the result of its own command.                                 *)
(***************************************************************************)
EXTENDS Naturals, Sequences

CONSTANTS FBs,          \* the python_eval blocks of the program
          Codes,        \* the commands they may ask for
          NoValue       \* not a command, and not a result

VARIABLES queue,        \* commands in the order they were put: <<block, code>>
          evaluating,   \* is Python evaluating the first of them?
          reply,        \* reply[f]: the result that waits for block f
          result        \* result[f]: the last result that block f has taken

gatewayVars == <<queue, evaluating, reply, result>>

ResultOf(code) == <<"result", code>>

Queued(f) == \E i \in 1..Len(queue) : queue[i][1] = f

GatewayInit == /\ queue = << >>
               /\ evaluating = FALSE
               /\ reply = [f \in FBs |-> NoValue]
               /\ result = [f \in FBs |-> NoValue]

Put(f, code) == /\ ~Queued(f)
                /\ queue' = Append(queue, <<f, code>>)

\* Block f asks for the evaluation of a command.
Request(f, code) == /\ reply[f] = NoValue
                    /\ Put(f, code)
                    /\ UNCHANGED <<evaluating, reply, result>>

\* Block f takes its result, and may ask again at once.
Take(f) == /\ reply[f] # NoValue
           /\ reply' = [reply EXCEPT ![f] = NoValue]
           /\ result' = [result EXCEPT ![f] = reply[f]]
           /\ UNCHANGED queue \/ \E code \in Codes : Put(f, code)
           /\ UNCHANGED evaluating

Fetch == /\ queue # << >>
         /\ ~evaluating
         /\ evaluating' = TRUE
         /\ UNCHANGED <<queue, reply, result>>

Answer == /\ evaluating
          /\ evaluating' = FALSE
          /\ queue' = Tail(queue)
          /\ reply' = [reply EXCEPT ![Head(queue)[1]] = ResultOf(Head(queue)[2])]
          /\ UNCHANGED result

\* The PLC is stopped and started again: what was asked for is forgotten.
Reset == /\ queue' = << >>
         /\ evaluating' = FALSE
         /\ reply' = [f \in FBs |-> NoValue]
         /\ result' = [f \in FBs |-> NoValue]

GatewayNext == \/ \E f \in FBs, code \in Codes : Request(f, code)
               \/ \E f \in FBs : Take(f)
               \/ Fetch
               \/ Answer
               \/ Reset

GatewaySpec == GatewayInit /\ [][GatewayNext]_gatewayVars
=============================================================================
