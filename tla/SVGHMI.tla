------------------------------ MODULE SVGHMI ------------------------------
(***************************************************************************)
(* The web HMI of a PLC: svghmi/svghmi.c and svghmi/svghmi_server.py, with *)
(* the signal of targets/Linux that joins them.                            *)
(*                                                                         *)
(* Five threads.  The PLC thread writes what has changed to the HMI tree,  *)
(* once per cycle and only if nobody has locked it, and wakes up the send  *)
(* thread, which sends to every session.  The reactor thread opens, serves *)
(* and closes the connections.  As the PLC stops, the worker ends the PLC  *)
(* thread wherever it is and wakes up the send thread for the last time;   *)
(* the python thread closes the sessions and joins the send thread.        *)
(* hmitree_wlock protects the tree; the lock of the session manager, an    *)
(* RLock, is held by the send thread as long as it goes through sessions.  *)
(*                                                                         *)
(* A connection holds its session.  Those that are let in, and when their  *)
(* messages and the end of them are told, is up to the websocket library.  *)
(*                                                                         *)
(* A definition under "Slip:" is no part of the model: it is a variant of  *)
(* the one that follows with a mistake in it, which a property must notice.*)
(***************************************************************************)
EXTENDS HMITree, FiniteSets

CONSTANTS Connections,
          MaxOpens,         \* bound: connections opened
          MaxSubscriptions, \* bound: subscriptions at a time
          MaxStarts         \* bound: starts of the PLC

ASSUME SVGHMIAssumption == /\ NULL \notin Connections
                           /\ IsFiniteSet(Indexes) /\ Indexes # {}
                           /\ Indexes = 0..Cardinality(Indexes) - 1
                           /\ {MaxOpens, MaxSubscriptions, MaxStarts} \subseteq Nat

VARIABLES
    tree, wlock,        \* the HMI tree, and who holds hmitree_wlock
    continue,           \* svghmi_continue_collect
    plc, worker, send, python, reactor,     \* program counters
    left,               \* send thread: sessions yet to serve
    serving,            \* send thread: the session it serves
    closing,            \* python thread: sessions yet to close
    pindex, pfrom,      \* python thread: arguments of svghmi_reset() and its dsc
    rconn,              \* reactor: the connection it works for
    rindex, rfrom, rthen,   \* reactor: the same, and what follows svghmi_reset()
    conn,               \* state of each connection
    has_watchdog,       \* those in watchdog mode
    session_index,      \* the index of the session of each connection
    multiclient_sessions, watchdog_session, session_count, indexes,
    mgr,                \* who holds the lock of the session manager
    listening,
    lost,               \* history: a signal came as the send thread was past its list
    late,               \* history: indexes subscribed after their session, or before the start
    replaced,           \* history: watchdog sessions replaced
    opens, starts

treeVars == <<tree, wlock>>
sendVars == <<send, left, serving>>
pythonVars == <<python, closing, pindex, pfrom>>
reactorVars == <<reactor, rconn, rindex, rfrom, rthen>>
connVars == <<conn, has_watchdog, session_index>>
mgrVars == <<multiclient_sessions, watchdog_session, session_count, indexes, mgr, replaced>>
bounds == <<opens, starts>>
vars == <<treeVars, continue, plc, worker, sendVars, pythonVars, reactorVars, connVars,
          mgrVars, listening, lost, late, bounds>>

Threads == {"plc", "send", "python", "reactor"}
MAX_CONNECTIONS == Cardinality(Indexes)
Followed == {p \in Pairs : tree.subscribed[p]}
Sessions == multiclient_sessions \cup ({watchdog_session} \ {NULL})

TypeOK ==
    /\ tree \in Trees
    /\ wlock \in {"free", "plc", "send"}
    /\ continue \in BOOLEAN
    /\ plc \in {"off", "cycle", "write", "signal"}
    /\ worker \in {"idle", "cleanup", "signal", "delete"}
    /\ send \in {"off", "test", "towait", "wait", "lock", "next", "grab",
                "collect"}
    /\ python \in {"off", "start", "run", "lock", "close", "tail", "spin", "join"}
    /\ reactor \in {"idle", "register", "tail", "spin", "replace", "unregister"}
    /\ left \subseteq Connections /\ serving \in Connections \cup {NULL}
    /\ closing \subseteq Connections
    /\ pindex \in Indexes /\ pfrom \in Items \cup {NULL}
    /\ rconn \in Connections \cup {NULL}
    /\ rindex \in Indexes /\ rfrom \in Items \cup {NULL}
    /\ rthen \in {"idle", "replace"}
    /\ conn \in [Connections -> {"closed", "open", "closing"}]
    /\ has_watchdog \subseteq Connections
    /\ session_index \in [Connections -> Indexes]
    /\ multiclient_sessions \subseteq Connections
    /\ watchdog_session \in Connections \cup {NULL}
    /\ session_count \in (0 - MaxOpens)..MaxOpens
    /\ indexes \subseteq Indexes
    /\ mgr \in Threads \cup {"free"}
    /\ listening \in BOOLEAN /\ lost \in BOOLEAN
    /\ late \subseteq Indexes
    /\ replaced \in 0..MaxOpens /\ opens \in 0..MaxOpens /\ starts \in 0..MaxStarts

Init ==
    /\ tree = InitTree /\ wlock = "free"
    /\ continue = FALSE
    /\ plc = "off" /\ worker = "idle" /\ send = "off" /\ python = "off" /\ reactor = "idle"
    /\ left = {} /\ serving = NULL
    /\ closing = {} /\ pindex = 0 /\ pfrom = NULL
    /\ rconn = NULL /\ rindex = 0 /\ rfrom = NULL /\ rthen = "idle"
    /\ conn = [c \in Connections |-> "closed"]
    /\ has_watchdog = {}
    /\ session_index = [c \in Connections |-> 0]
    /\ multiclient_sessions = {} /\ watchdog_session = NULL
    /\ session_count = 0 /\ indexes = {} /\ mgr = "free"
    /\ listening = FALSE
    /\ lost = FALSE /\ late = {} /\ replaced = 0
    /\ opens = 0 /\ starts = 0

Plc(from, to) == plc = from /\ plc' = to
Send(from, to) == send = from /\ send' = to
Python(from, to) == python = from /\ python' = to
Reactor(from, to) == reactor = from /\ reactor' = to

----------------------------------------------------------------------------
(* RT_to_nRT_signal: a condition variable, and nothing that remembers.      *)

Signal == IF send = "wait" THEN send' = "lock" /\ lost' = FALSE
                           ELSE lost' = TRUE /\ UNCHANGED send

----------------------------------------------------------------------------
(* The PLC thread: __publish_svghmi(), once per cycle.                      *)

\* The lock was free: else nothing happens in this cycle.
PublishLock ==
    /\ Plc("cycle", "write")
    /\ wlock = "free"
    /\ wlock' = "plc"
    /\ UNCHANGED <<tree, continue, worker, sendVars, pythonVars, reactorVars,
                   connVars, mgrVars, listening, lost, late, bounds>>

\* Some variables differ from wbuf, and some periods have elapsed.
PublishWrite(changed, due) ==
    /\ plc = "write"
    /\ tree' = Write(tree, changed, due)
    /\ wlock' = "free"
    /\ plc' = IF Dirtied(tree, tree') THEN "signal" ELSE "cycle"
    /\ UNCHANGED <<continue, worker, sendVars, pythonVars, reactorVars, connVars, mgrVars,
                   listening, lost, late, bounds>>

PublishSome ==
    \E changed \in SUBSET {p[1] : p \in Followed}, due \in SUBSET Followed :
        PublishWrite(changed, due)

\* Slip: the send thread is not woken up.
PublishSilent ==
    /\ Plc("signal", "cycle")
    /\ UNCHANGED <<treeVars, continue, worker, sendVars, pythonVars, reactorVars, connVars,
                   mgrVars, listening, lost, late, bounds>>

PublishSignal ==
    /\ Plc("signal", "cycle")
    /\ Signal
    /\ UNCHANGED <<treeVars, continue, worker, left, serving, pythonVars, reactorVars,
                   connVars, mgrVars, listening, late, bounds>>

----------------------------------------------------------------------------
(* The send thread: SendThreadProc().                                       *)

SendTest ==
    /\ Send("test", IF continue THEN "towait" ELSE "off")
    /\ UNCHANGED <<treeVars, continue, plc, worker, left, serving, pythonVars, reactorVars,
                   connVars, mgrVars, listening, lost, late, bounds>>

\* svghmi_wait()
SendWait ==
    /\ Send("towait", "wait")
    /\ UNCHANGED <<treeVars, continue, plc, worker, left, serving, pythonVars, reactorVars,
                   connVars, mgrVars, listening, lost, late, bounds>>

\* Slip: the lock is released once the list is made.
SendLockBriefly ==
    /\ Send("lock", "next")
    /\ mgr = "free"
    /\ left' = Sessions
    /\ UNCHANGED <<treeVars, continue, plc, worker, serving, pythonVars, reactorVars, connVars,
                   mgrVars, listening, lost, late, bounds>>

\* iter_sessions()
SendLock ==
    /\ Send("lock", "next")
    /\ mgr = "free"
    /\ mgr' = "send"
    /\ left' = Sessions
    /\ lost' = FALSE
    /\ UNCHANGED <<treeVars, continue, plc, worker, serving, pythonVars, reactorVars, connVars,
                   multiclient_sessions, watchdog_session, session_count, indexes, replaced,
                   listening, late, bounds>>

\* Another session, the one with the watchdog first, if the PLC is not stopping.
SendNext ==
    /\ Send("next", "grab")
    /\ continue
    /\ \E c \in left : /\ watchdog_session \in left => c = watchdog_session
                       /\ serving' = c
                       /\ left' = left \ {c}
    /\ UNCHANGED <<treeVars, continue, plc, worker, pythonVars, reactorVars, connVars, mgrVars,
                   listening, lost, late, bounds>>

SendDone ==
    /\ Send("next", "test")
    /\ left = {} \/ ~continue
    /\ left' = {} /\ serving' = NULL
    /\ mgr' = "free"
    /\ UNCHANGED <<treeVars, continue, plc, worker, pythonVars, reactorVars, connVars,
                   multiclient_sessions, watchdog_session, session_count, indexes, replaced,
                   listening, lost, late, bounds>>

\* svghmi_send_collect()
SendGrab ==
    /\ Send("grab", "collect")
    /\ wlock = "free"
    /\ wlock' = "send"
    /\ UNCHANGED <<tree, continue, plc, worker, left, serving, pythonVars,
                   reactorVars, connVars, mgrVars, listening, lost, late, bounds>>

\* With an empty list the result is not initialised: SendThreadProc() may take it for
\* an error and leave out the other sessions.
SendCollect ==
    /\ Send("collect", "next")
    /\ tree' = SendTo(tree, session_index[serving])
    /\ wlock' = "free"
    /\ \/ UNCHANGED left
       \/ tree.tail = NULL /\ left' = {}
    /\ UNCHANGED <<continue, plc, worker, serving, pythonVars, reactorVars, connVars, mgrVars,
                   listening, lost, late, bounds>>

----------------------------------------------------------------------------
(* The session manager, called with its lock free or held by the caller.    *)

\* Slip: counted from 1.
NextIndexFrom1 == CHOOSE x \in 1..MAX_CONNECTIONS + 1 :
                      x \notin indexes /\ \A y \in 1..x - 1 : y \in indexes

\* next_index(): the lowest that is free.
NextIndex == CHOOSE x \in 0..MAX_CONNECTIONS :
                 x \notin indexes /\ \A y \in 0..x - 1 : y \in indexes

\* The session is known and has an index.
Enter(c) ==
    /\ multiclient_sessions' = multiclient_sessions \cup ({c} \ has_watchdog)
    /\ watchdog_session' = IF c \in has_watchdog THEN c ELSE watchdog_session
    /\ indexes' = indexes \cup {NextIndex}
    /\ session_index' = [session_index EXCEPT ![c] = NextIndex]

\* Slip: the index stays in use.
LeaveIndexed(c) ==
    /\ multiclient_sessions' = multiclient_sessions \ {c}
    /\ watchdog_session' = IF c = watchdog_session THEN NULL ELSE watchdog_session
    /\ session_count' = session_count - 1
    /\ indexes' = indexes

\* unregister(), up to session.kill()
Leave(c) ==
    /\ multiclient_sessions' = multiclient_sessions \ {c}
    /\ watchdog_session' = IF c = watchdog_session THEN NULL ELSE watchdog_session
    /\ session_count' = session_count - 1
    /\ indexes' = indexes \ {session_index[c]}

\* close(): of a connection that is not closed yet.
SendClose(c) == conn' = [conn EXCEPT ![c] = IF @ = "open" THEN "closing" ELSE @]

----------------------------------------------------------------------------
(* The reactor thread.                                                      *)

\* onOpen(); the library lets MAX_CONNECTIONS in.
Open(c) ==
    /\ Reactor("idle", "register")
    /\ listening
    /\ opens < MaxOpens
    /\ conn[c] = "closed"
    /\ Cardinality({d \in Connections : conn[d] # "closed"}) < MAX_CONNECTIONS
    /\ conn' = [conn EXCEPT ![c] = "open"]
    /\ has_watchdog' \in {has_watchdog \cup {c}, has_watchdog \ {c}}
    /\ rconn' = c
    /\ opens' = opens + 1
    /\ UNCHANGED <<treeVars, continue, plc, worker, sendVars, pythonVars, rindex, rfrom, rthen,
                   session_index, mgrVars, listening, lost, late, starts>>

\* register(): a watchdog session ends the one before; the count is not raised again.
Register ==
    /\ reactor = "register"
    /\ mgr = "free"
    /\ reactor' = "tail"
    /\ IF rconn \in has_watchdog /\ watchdog_session # NULL
       THEN /\ mgr' = "reactor"
            /\ Leave(watchdog_session)
            /\ replaced' = replaced + 1
            /\ SendClose(watchdog_session)
            /\ rindex' = session_index[watchdog_session]
            /\ rthen' = "replace"
            /\ UNCHANGED session_index
       ELSE /\ Enter(rconn)
            /\ session_count' = session_count + 1
            /\ rindex' = NextIndex
            /\ rthen' = "idle"
            /\ UNCHANGED <<mgr, replaced, conn>>
    /\ UNCHANGED <<treeVars, continue, plc, worker, sendVars, pythonVars, rconn, rfrom,
                   has_watchdog, listening, lost, late, bounds>>

\* register(), after the kill() of the session before.
Replace ==
    /\ Reactor("replace", "tail")
    /\ Enter(rconn)
    /\ rindex' = NextIndex
    /\ rthen' = "idle"
    /\ mgr' = "free"
    /\ UNCHANGED <<treeVars, continue, plc, worker, sendVars, pythonVars, rconn, rfrom, conn,
                   has_watchdog, session_count, replaced, listening, lost, late, bounds>>

\* svghmi_reset() takes the tail of the list ...
ResetTail ==
    /\ Reactor("tail", "spin")
    /\ rfrom' = tree.tail
    /\ UNCHANGED <<treeVars, continue, plc, worker, sendVars, pythonVars, rconn, rindex, rthen,
                   connVars, mgrVars, listening, lost, late, bounds>>

\* ... and has the lock later.
ResetWalk ==
    /\ Reactor("spin", rthen)
    /\ wlock = "free"
    /\ tree' = Reset(tree, rfrom, rindex)
    /\ late' = late \ {rindex}
    /\ rfrom' = NULL
    /\ rconn' = IF rthen = "idle" THEN NULL ELSE rconn
    /\ UNCHANGED <<wlock, continue, plc, worker, sendVars, pythonVars, rindex, rthen,
                   connVars, mgrVars, listening, lost, bounds>>

\* onMessage(): a session that was killed answers until onClose().
Message(c) ==
    /\ reactor = "idle"
    /\ conn[c] # "closed"
    /\ wlock = "free"
    /\ LET x == session_index[c]
       IN /\ \/ /\ Cardinality(Followed) < MaxSubscriptions
                /\ \E i \in Items : tree' = Subscribe(tree, i, x)
             \/ \E i \in Items : tree' = Unsubscribe(tree, i, x)
             \/ tree' = Reset(tree, tree.tail, x)
          /\ late' = IF c \notin Sessions THEN late \cup {x} ELSE late
    /\ UNCHANGED <<wlock, continue, plc, worker, sendVars, pythonVars, reactorVars,
                   connVars, mgrVars, listening, lost, bounds>>

\* onClose()
Close(c) ==
    /\ Reactor("idle", "unregister")
    /\ conn[c] # "closed"
    /\ conn' = [conn EXCEPT ![c] = "closed"]
    /\ rconn' = c
    /\ UNCHANGED <<treeVars, continue, plc, worker, sendVars, pythonVars, rindex, rfrom, rthen,
                   has_watchdog, session_index, mgrVars, listening, lost, late, bounds>>

\* unregister(), unless someone else has done it.
Unregister ==
    /\ reactor = "unregister"
    /\ mgr = "free"
    /\ IF rconn \in Sessions
       THEN /\ reactor' = "tail"
            /\ Leave(rconn)
            /\ rindex' = session_index[rconn]
            /\ rthen' = "idle"
            /\ UNCHANGED rconn
       ELSE /\ reactor' = "idle"
            /\ rconn' = NULL
            /\ UNCHANGED <<multiclient_sessions, watchdog_session, session_count, indexes,
                           rindex, rthen>>
    /\ UNCHANGED <<treeVars, continue, plc, worker, sendVars, pythonVars, rfrom, connVars, mgr,
                   replaced, listening, lost, late, bounds>>

----------------------------------------------------------------------------
(* The PLC starts and stops: the worker and the python thread.              *)

\* startPLC(), with __init_svghmi(): wbuf is set to 0, which some sessions do not know.
StartPLC ==
    /\ plc = "off" /\ worker = "idle" /\ python = "off"
    /\ starts < MaxStarts
    /\ starts' = starts + 1
    /\ plc' = "cycle"
    /\ python' = "start"
    /\ continue' = TRUE
    /\ lost' = FALSE
    /\ \E same \in SUBSET Items :
          tree' = [tree EXCEPT !.known = [p \in Pairs |-> @[p] /\ p[1] \in same]]
    /\ late' = late \cup {p[2] : p \in Followed}
    /\ UNCHANGED <<wlock, worker, sendVars, closing, pindex, pfrom, reactorVars, connVars,
                   mgrVars, listening, opens>>

\* The start methods of the library and of the HMIs.
SvghmiStart ==
    /\ Python("start", "run")
    /\ send' = "test"
    /\ listening' = TRUE
    /\ UNCHANGED <<treeVars, continue, plc, worker, left, serving, closing, pindex, pfrom,
                   reactorVars, connVars, mgrVars, lost, late, bounds>>

\* stopPLC() ends the PLC thread, ...
StopPLC ==
    /\ plc # "off" /\ worker = "idle"
    /\ plc' = "off"
    /\ worker' = "cleanup"
    /\ UNCHANGED <<treeVars, continue, sendVars, pythonVars, reactorVars, connVars, mgrVars,
                   listening, lost, late, bounds>>

\* ... then __cleanup_svghmi() ...
CleanupFlag ==
    /\ worker = "cleanup" /\ worker' = "signal"
    /\ continue' = FALSE
    /\ UNCHANGED <<treeVars, plc, sendVars, pythonVars, reactorVars, connVars, mgrVars,
                   listening, lost, late, bounds>>

\* Slip: the send thread is not woken up, not even by the end of the signal.
CleanupSilent ==
    /\ worker \in {"signal", "delete"}
    /\ worker' = "idle"
    /\ UNCHANGED <<treeVars, continue, plc, sendVars, pythonVars, reactorVars, connVars,
                   mgrVars, listening, lost, late, bounds>>

\* ... wakes the send thread up, and delete_RT_to_nRT_signal() does it again.
CleanupSignal ==
    /\ \/ worker = "signal" /\ worker' = "delete"
       \/ worker = "delete" /\ worker' = "idle"
    /\ Signal
    /\ UNCHANGED <<treeVars, continue, plc, left, serving, pythonVars, reactorVars, connVars,
                   mgrVars, listening, late, bounds>>

\* The stop methods of the HMIs, as soon as the python thread sees that the PLC stops.
StopListening ==
    /\ Python("run", "lock")
    /\ plc = "off"
    /\ listening' = FALSE
    /\ UNCHANGED <<treeVars, continue, plc, worker, sendVars, closing, pindex, pfrom,
                   reactorVars, connVars, mgrVars, lost, late, bounds>>

\* close_all()
CloseAll ==
    /\ Python("lock", "close")
    /\ mgr = "free"
    /\ mgr' = "python"
    /\ closing' = Sessions
    /\ UNCHANGED <<treeVars, continue, plc, worker, sendVars, pindex, pfrom, reactorVars,
                   connVars, multiclient_sessions, watchdog_session, session_count, indexes,
                   replaced, listening, lost, late, bounds>>

CloseNext ==
    /\ Python("close", "tail")
    /\ \E c \in closing : /\ watchdog_session \in closing => c = watchdog_session
                          /\ closing' = closing \ {c}
                          /\ Leave(c)
                          /\ SendClose(c)
                          /\ pindex' = session_index[c]
    /\ UNCHANGED <<treeVars, continue, plc, worker, sendVars, pfrom, reactorVars,
                   has_watchdog, session_index, mgr, replaced, listening, lost, late, bounds>>

CloseTail ==
    /\ Python("tail", "spin")
    /\ pfrom' = tree.tail
    /\ UNCHANGED <<treeVars, continue, plc, worker, sendVars, closing, pindex, reactorVars,
                   connVars, mgrVars, listening, lost, late, bounds>>

CloseWalk ==
    /\ Python("spin", "close")
    /\ wlock = "free"
    /\ tree' = Reset(tree, pfrom, pindex)
    /\ pfrom' = NULL
    /\ UNCHANGED <<wlock, continue, plc, worker, sendVars, closing, pindex,
                   reactorVars, connVars, mgrVars, listening, lost, late, bounds>>

CloseDone ==
    /\ Python("close", "join")
    /\ closing = {}
    /\ mgr' = "free"
    /\ UNCHANGED <<treeVars, continue, plc, worker, sendVars, closing, pindex, pfrom,
                   reactorVars, connVars, multiclient_sessions, watchdog_session,
                   session_count, indexes, replaced, listening, lost, late, bounds>>

Join ==
    /\ Python("join", "off")
    /\ send = "off"
    /\ UNCHANGED <<treeVars, continue, plc, worker, sendVars, closing, pindex, pfrom,
                   reactorVars, connVars, mgrVars, listening, lost, late, bounds>>

----------------------------------------------------------------------------

PlcStep == PublishLock \/ PublishSome \/ PublishSignal

SendStep == \/ SendTest \/ SendWait \/ SendLock \/ SendNext \/ SendDone
            \/ SendGrab \/ SendCollect

ReactorStep == Register \/ Replace \/ ResetTail \/ ResetWalk \/ Unregister

Client == \E c \in Connections : Open(c) \/ Message(c) \/ Close(c)

WorkerStep == CleanupFlag \/ CleanupSignal

PythonStep == \/ SvghmiStart \/ StopListening \/ CloseAll \/ CloseNext \/ CloseTail
              \/ CloseWalk \/ CloseDone \/ Join

Next == \/ StartPLC \/ StopPLC
        \/ PlcStep \/ SendStep \/ ReactorStep \/ Client \/ WorkerStep \/ PythonStep

Spec == Init /\ [][Next]_vars

----------------------------------------------------------------------------
(* Properties.                                                              *)

\* Whatever is subscribed, unsubscribed and reset, in whichever order, the list has the
\* items with a subscriber.
ListKept == ListRight(tree)

\* A change is never forgotten: a session that does not have the value in wbuf is on its
\* way to get it.
NotForgotten ==
    \A p \in Followed :
        tree.known[p] \/ tree.wstate[p] # "free" \/ p[2] \in late

\* Sessions have an index of their own; session_count is their number, less one for every
\* watchdog session that was replaced, and register() never finds it too high.
SessionsApart ==
    /\ \A c, d \in Sessions : c # d => session_index[c] # session_index[d]
    /\ indexes = {session_index[c] : c \in Sessions}
    /\ mgr # "reactor" => session_count = Cardinality(Sessions) - replaced
    /\ reactor = "register" => session_count < MAX_CONNECTIONS

\* Only sessions are subscribed, but for those about to be reset, and for messages that
\* came after the session was killed.
SubscribersKnown ==
    \A p \in Followed :
        \/ p[2] \in indexes \cup late
        \/ reactor \in {"tail", "spin"} /\ rindex = p[2]
        \/ python \in {"tail", "spin"} /\ pindex = p[2]

\* The send thread serves sessions that nobody has unregistered meanwhile.
ServingKept == serving # NULL => serving \in Sessions

HMIOK == ListKept /\ NotForgotten /\ SessionsApart /\ SubscribersKnown /\ ServingKept

\* The send thread waits with something to send only if it is about to be woken up, or if
\* the signal came when it was not waiting: nothing remembers it, and the values stay
\* until the next change.  So it is as the PLC stops: "plc cleanup calls
\* svghmi_(locstring)_cleanup and unlocks send thread" is true of a thread that waits.
WakeUpHeard ==
    send = "wait" =>
        \/ lost
        \/ plc = "signal"
        \/ worker \in {"cleanup", "signal"}
        \/ /\ plc # "off"
           /\ \A p \in Pairs : p[2] \in indexes \ late => tree.wstate[p] # "tosend"
=============================================================================
