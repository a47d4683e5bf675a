# Formal model of the Beremiz runtime

TLA+ modules, TLC configurations and TLAPS proofs about the part of Beremiz that
runs a PLC program: the runtime service (`src/runtime`, `src/Beremiz_service.py`), the
transfer of a program to it (`src/ProjectController.py`, `src/connectors`), and the C
code that is linked into every PLC library (`src/targets`, `src/py_ext`, `src/svghmi`).
It is concurrent code with hand-made synchronisation: conditions over one mutex, a
one-place command slot, mutexes used as signals, a real-time thread that must not
wait, a log without locks, a library that is unloaded while the process goes on. And it is
code that leaves files behind when it is ended half-way: an installed program, retain
variables.

Every definition is translated from the source file and the lines given in
`PROJECT.json` ("map"). Names are those of the source where TLA+ allows it.

    tlc -config WorkerCalls.cfg MCWorker.tla     model-check one run
    tlapm Worker_proofs.tla                      check the proofs of one module

Definitions under a comment that begins with "Slip:" are not part of a model. Each
is a variant, with a mistake in it, of the definition that follows; put in its
place, it makes the property named in `PROJECT.json` ("mutants") fail. They show
that each property depends on what the code does.


## 1. Inventory

### Threads of the runtime

    IDE --(eRPC, WAMP, web)--> caller threads --worker.call()--> main thread (Worker)
                                                                      | runs the jobs
                                                          PLCObject: StartPLC, StopPLC, NewPLC...
                              PythonThreadCmd/Ack |        startPLC()/stopPLC() |      | Traces
                                          python thread <--python_eval-->   PLC thread --> trace thread

- **caller threads**, one per server: they only delegate to the worker.
- **the main thread** runs `worker.runloop()`, and so every method of `PLCObject`
  with the decorator `RunInMain`, one at a time.
- **the python thread** (`PythonThreadProc`) is created when a PLC is loaded; it runs the
  start and stop methods of the extensions and, while the PLC runs, evaluates the
  commands of `python_eval` blocks.
- **the PLC thread**, in the library, runs the program once per period.
- **the trace thread** (`TraceThreadProc`) exists while the IDE debugs.
- beside them: the send thread of SVGHMI, which takes values from the PLC thread to the
  browsers, the reactor thread of its web server, and the threads of the field buses.

stopPLC() ends the PLC thread with a signal, wherever it is: in a critical section, between
a reservation and the copy, in the middle of a file. Most of the hard cases below come
from that.

### Components

| component | state | operations | hard behaviour | what makes it correct |
|---|---|---|---|---|
| Worker (`runtime/Worker.py`) | the one-place slot `job`, `enabled`, `_finish`, `mutex`, conditions `todo`, `done`, `free` | `runloop`, `call`, `quit`, `finish`, `interleave`, `stop` | one `done` and one `free` shared by all callers; `quit` while jobs wait; exceptions while the mutex is held | no job overwritten or lost, no notification lost, own result to each caller, calls return |
| Python gateway (`py_ext/plc_python.c`, `targets/Linux/plc_Linux_main.c`) | the fifo with two cursors, `PythonState`, the state, flags and buffers of each block, two mutexes | `__retrieve_py_ext`, `__PythonEvalFB`, `__publish_py_ext`, `PythonIterator`, `startPLC`, `stopPLC` | try-lock in the real-time thread, sleeping on a signal, stop at any instant | fifo never overflows, wake-ups not lost, order, answers that match, loop ends on stop |
| PLC object (`runtime/PLCObject.py`) | `PLCStatus`, library handle, command and acknowledgement slots, events `PlcStopped`, `PlcStopping`, `TraceThread`, the files of the PLC | `AutoLoad`, `StartPLC`, `StopPLC`, `NewPLC`, `PurgePLC`, `RepairPLC`, trace requests | handshake with the python thread, timeout of 5 s, failures of every call, unloading | status tells the truth, nothing unloaded in use, jobs return |
| Debug traces (`targets/plc_debug.c`, `PLCObject`) | `trace_list`, buffer and its state, `__DEBUG`, `debug_mutex`, `debug_wait_mutex`, `Traces`, `DebugToken` | `SetTraceVariablesList`, `GetTraceVariables`, `__publish_debug`, `TraceThreadProc` | three threads, a mutex that a thread unlocks without having locked it | one owner of the buffer, traces of the list asked for, nobody waits for ever |
| File transfer (`PLCObject`, `ProjectController`, `connectors`) | blobs, `.so`, md5, extra files, `extra_files.txt`, `lasttransferedPLC.md5`; what the IDE has sent and been told | `_Connect`, `_Transfer`, `BlobFromFile`, `SeedBlob`, `AppendChunkToBlob`, `PurgeBlobs`, `NewPLC`, `PurgePLC`, `MatchMD5` | crash, missing blob or full disk between two files; several IDEs; a lost connection | the md5 names a PLC that is there, the IDE is told the truth |
| Retain (`plc_Linux_main_retain.c`, `plc_debug.c`) | main file and backup, the buffered CRC | `InitRetain`, `Retain`, `Remind`, `CheckRetainBuffer`, `InValidateRetainBuffer`, `ValidateRetainBuffer` | end of the thread or power failure while saving | what a program finds is what one save wrote, whole |
| Log (`plc_main_tail.c`) | ring buffer, cursors per level | `LogMessage`, `GetLogMessage`, `ResetLogCount` | lock-free writers that lap one another | a reader never returns another message |
| SVGHMI, C (`svghmi/svghmi.c`) | tree items with states and periods, subscription list, `continue_collect` | publish, `send_collect`, `recv_dispatch`, `reset` | try-lock in the PLC thread, reset against subscription, a signal without memory | every change reaches every subscriber |
| SVGHMI sessions (`svghmi/svghmi_server.py`) | sessions, free indexes, watchdog session, count | `register`, `unregister`, `close_all`, `iter_sessions`, `SendThreadProc`, `onOpen`, `onMessage`, `onClose` | replacement of a watchdog session, a session killed while it is served, messages after that | indexes unique, count right |
| C++ runtime (`C_runtime`) | as the PLC object, without python | as the PLC object | the same transfer, results not tested | as the PLC object |
| Connectors and servers (eRPC, WAMP) | connection, blob identifiers | calls | lost connection, retry | a transfer is all or nothing |
| IDE (`ProjectController.py`) | status, connector, debug token | polling, transfer | status that changes between poll and use | buttons match the status |
| Program editor, code generator, field-bus extensions, web pages, service publication | documents | transformations, I/O | none that an interleaving could break | outside the scope |

`PROJECT.json` lists the same components with what is modelled of each, and under
"hazards" the lines where something can go wrong that a test would hardly reach.


## 2. Modules

| module | models | notes |
|---|---|---|
| `JobService` | what `worker.call()` promises | abstract specification |
| `Worker` | `runtime/Worker.py` | refines `JobService` |
| `PyGateway` | what a `python_eval` block may rely on | abstract specification |
| `PyEval` | `py_ext/plc_python.c`, mutexes of the Linux target, `PythonThreadLoop` | refines `PyGateway` |
| `PLCObject` | the jobs of `PLCObject`, the python and the trace thread, shutdown of `Beremiz_service.py` | stands on `Worker` (one job at a time) and on `PyEval` (the iterator ends on stop) |
| `DebugTrace` | `plc_debug.c`, mutexes of the Linux target, trace requests | details what `PLCObject` knows of the trace thread |
| `Transfer` | the files of the PLC in `PLCObject`, `_Transfer()` and `_Connect()` of the IDE, lost connections | details what `PLCObject` knows of the files |
| `RetainStore` | what the retain files promise | abstract specification |
| `Retain` | `plc_Linux_main_retain.c`, the retain part of `plc_debug.c` | refines `RetainStore` |
| `LogBuffer` | the log of `plc_main_tail.c` | |
| `HMITree` | the data of `svghmi.c`: item states, subscription list | operators on a tree |
| `SVGHMI` | the threads of `svghmi.c` and `svghmi_server.py` | composes `HMITree` with the sessions and the signal |
| `MCWorker`, `MCPyEval`, `MCTransfer`, `MCRetain`, `MCLogBuffer`, `MCSVGHMI` | instances for TLC | |
| `Worker_proofs`, `PyEval_proofs`, `PLCObject_proofs`, `DebugTrace_proofs`, `Transfer_proofs`, `Retain_proofs`, `SVGHMI_proofs`, `LogBuffer_proofs` | theorems | one module per model |

### Worker

`main` is where the main thread is, `pc[c]` where caller `c` is. A thread in the wait set of
a condition has a label that begins with `in`; `notify()` moves one of them, any of
them, to the `re` label, from which it has to take the mutex and test its predicate
again. Callers hold the mutex for a few instructions: each critical section is one
action. The main thread keeps it during a job (`MutexFree`). A job is known by its
caller, and its outcome by `success`; `FirstJob` is the job given to `runloop()`.

`Loops` says which loops the process may choose. With `runloop()` the main thread runs the jobs in
the loop; with `interleave()` a thread of its own (`wakerfeedingloop`, the `Feed...` actions) waits for
jobs and has the main loop of wx run each (`do_pending_job`, the `Pending...` actions), whose outcome
wakes up both the loop and the caller with `notify_all()`; then `ReactorEnds` and `Stop` follow
as the service leaves. What may become of such a thread after `stop()` is in section 3.

`JobService` gives each caller a phase: asked, accepted, running, outcome. The
refinement (`phaseBar`) reads it from `pc`, `success`, the slot and the main thread.

### PyEval

One action for each section of `PythonIterator` between two points at which the
PLC thread can act, and one for each call of `__PythonEvalFB`, which runs in the PLC
thread between `Retrieve` and `Publish`; a call is its whole body, with the four
parts of the function in their order as `Triggers`, `Publishes`, `Pushes` and the values
they leave. `python_wait` is "python_wait_mutex is unlocked": the code uses this
mutex as a binary signal. `Publish` gives the signal and `PublishUnlock` releases
`python_mutex`, in that order, with room for the python thread in between. `Kill` is
the signal of `stopPLC()`, which may find the PLC thread anywhere.

A mutex destroyed while free lets a later lock through, one that is locked when
the PLC thread is ended stays locked: this is what glibc does with what POSIX
leaves undefined.

`CodesOf` gives each block the values that its input CODE takes, in any cycle any of them; `asked` is
the history of what CODE was at the block's latest trigger. `Evaluate` makes a result of what the
code does, its exceptions included. `EvaluateDies` is what is not in the `try` of
`PythonThreadLoop()`: `cmd.decode()`, `res.encode()` and the log message about an exception. A text among the
`Unreadable` may, but need not, end the python thread there (`python` = "dead"), which no restart brings
back: `StartPLC` would wait for it (`PLCObject` has the rest of that story).

### PLCObject

`job` and `at` are the worker's job and its position, cut wherever another thread can
act or is waited for. `Failures` names what the environment may do: files that cannot
be written, a library that does not load, a `runtime_*.py` file that raises, an error
of `startPLC()`, python code slower than the timeout or without an end (`PythonHangs`), text that python
cannot encode or decode, which ends the python thread (`PythonDies`), a PLC thread that dies in
`python_mutex`, or in `debug_mutex`, on which a trace thread that gives up then waits for ever (`trace` = "stuck"). `Kinds` are the two kinds of program: with python blocks, where
`PythonIterator` is that of `PyEval`, and without, where `_LoadPLC` installs an event.

`Shutdown` is the end of `Beremiz_service.py`: `StopPLC`, `UnLoadPLC`, exit. It follows an
interrupt, or a `quit` that takes effect.

`StopPLCTwice` sends a signal to a thread that has been joined: undefined, so the
process may end there.

### DebugTrace

A list of variables is known by the `DebugToken` of its registration; `trace_list`,
`trace_buffer`, `got` and `Traces` say which lists their contents are of. `Mixed` stands for a part
of a list or parts of two. Registration is two steps, so is collection, so that
they can overlap where the mutex does not keep them apart. `PlcEnter` and `PlcTest` are
`TryEnterDebugSection()`: the mutex is taken before `__DEBUG` is read. `resumeDebug()` frees
`debug_mutex` whoever locked it, as `pthread_mutex_unlock()` does with a default mutex.

### Transfer

Several IDEs, each at `ide[i]` of `_Connect()` and `_Transfer()`, and the runtime at `main` of
`NewPLC()` or `PurgePLC()`, where each file is a step: a crash, and the loss of the connection,
come between any two. The files are `so[b]`, the shared object of each build, `files`, `extra_files` (the list; `log` are the names not
flushed to it), `md5`. A file is `Torn` if it is not whole: the md5 between its opening and its
writing, the others when the disk was full. `Restart` is `__init__()` and `AutoLoad()`.

A full disk shows in three ways. An exception is `AppendFails` and `InstallFails`. `os.write()` in
`AppendChunkToBlob()` may write less than it was given, which the code does not look at: `Append` then makes a
blob with the ID of the whole chunk and `Torn` contents. And `extra_files.txt` is never closed or
flushed: what is in its buffer as `NewPLC()` returns is written by the destructor of the
file, which swallows the error (`CloseLog`). `full` counts the last two.

The history says what the properties except: `cut`, that a purge was ended by a crash since the last whole
one; `orphans`, the files whose names died in the buffer of `extra_files.txt`, with the process or for want of
space; `short`, the builds of which a chunk was cut short. A call that is under way as its IDE goes away runs to its end.

### Retain

`pc` is where the PLC thread is in a save (`InValidateRetainBuffer`, `Retain` for each variable,
`ValidateRetainBuffer`); the two files, under their names, hold the
program's hash, an image whose offsets are written one at a time, and a CRC. A CRC that
`fclose()` writes after the `fsync()` is lost by a power failure until the system writes it back.
`RetainStore` knows what every program would be reminded, which of it the next save may
lose (`safe`) and which a power failure may (`flushed`). The refinement reads them from the files.

### LogBuffer

A cell of `LogBuff` holds a part of a body or a tail. `sent` is the history: where each message would be
if the ring had no end, whether it is copied whole, and whether its place was free of slower
writers (`clean`). The reader is the search loop of `GetLogMessage`, one tail at a step.

### HMITree and SVGHMI

`HMITree` has no variables: its operators take a tree (states, list, with `next` and `prev` as in
the source) and return the next one. `SVGHMI` has the five threads and says at which step each
uses them: `PublishSome` under the try-lock, `SendCollect`, `Subscribe` from `Message`, `Reset` in two steps
since `svghmi_reset()` reads the tail before it has the lock. `known` says that a session has been
sent the present value of an item; `late` are the indexes that a killed session's messages, or a
stale reset, have left in the tree; `lost` says that the signal came when the send thread was not waiting.


## 3. Runs

| run | expects | question | bounds |
|---|---|---|---|
| `worker_calls` | pass | Is every call served once, in the right order of notifications, and does the worker implement `JobService`, with either loop? | 3 threads, 2 operations each, one may quit |
| `worker_quit_terminates` | violation | Does `quit()` terminate `runloop()`? | 2 threads, 1 operation |
| `pyeval_fifo` | pass | Is the fifo safe, is no wake-up lost, is `PyGateway` implemented, is everything answered, does the python loop end? | 2 blocks, one of each kind, 2 commands for the one that does not poll, one of which may end the python thread, 1 for the other, 1 start |
| `plcobject_life` | pass | Is the status true, nothing unloaded in use, does every job return? | both kinds, all failures, no bound on requests |
| `plcobject_plain` | violation | Does the iterator of a program without python blocks end after `StopPLC`? | no failures |
| `debugtrace_flow` | pass | Is there one trace thread, one owner of the buffer, does data flow, does nobody wait for ever? | 2 registrations, 2 starts |
| `debugtrace_suspend` | violation | Does `suspendDebug(False)` keep the PLC out? | same |
| `debugtrace_match` | violation | Are traces of the list that was asked for? | same |
| `transfer_disk` | pass | Does the md5 name a whole PLC, and is the IDE told the truth, whatever fails or crashes? | 2 IDEs, 2 builds (extra files {x, y} and {x}), 2 transfers, 1 crash, 1 write cut short by a full disk |
| `retain_files` | pass | Do the two files implement `RetainStore`? | 2 programs, 2 variables, 2 values, no bound on steps |
| `logbuffer_ring` | pass | Is a message that is still there found, and returned as it was written? | 2 writers, ring of 6 cells, sizes 1 and 2, 4 messages |
| `svghmi_sessions` | pass | Does every change reach every subscriber, are indexes unique, is the send thread woken up? | 2 items, 2 connections, 2 indexes, 2 opens, 2 subscriptions, 1 start |

Why the bounds are enough. With three callers one can be in the slot, one returning
and one waiting for the slot, which is what the shared conditions have to tell
apart; the second operation lets a caller return to a queue in which others still
are. Two blocks make the cursors wrap and meet in the full and in the empty fifo; two
commands let CODE change between the trigger and the entry in the fifo, and while the command is there or
is evaluated. The block that polls has one command: what is said of CODE is about the other kind. The
fifo's arithmetic and the notifications for more of them are covered by the
proofs. `PLCObject` and `Retain` have no counter, so their runs are complete for their
abstraction. Two registrations are what it takes to confuse an old list with a new one, two
starts to carry something over from one start to the next. Two transfers of two builds
replace a PLC by another or by itself, by one IDE or by two at the same time; the second build has fewer
files than the first. One chunk cut short, or one lost flush, and one crash can each come at any
point of either, and both in one run; what more of them could add is covered by the proofs, which have no bound. In a ring of 6, four messages lap: the third or the fourth one begins where
the first was, with the writer of the first still busy. Two items make a list with a
neighbour to take out and a tail; two indexes are a watchdog and an ordinary session, or two of
those. A second start of the PLC with HMIs that stay open is beyond that run.

`CHECK_DEADLOCK FALSE` is in every configuration but that of `Retain` because every part may
really come to rest: no caller calls, the PLC is stopped for good, the process has exited. That
nothing rests where it must not is what the liveness properties are for. `Retain` has no such
state: a program can always start.

Symmetry is used over IDEs in `transfer_disk`, over items and connections in `svghmi_sessions`;
both runs check safety only.

### What the passing runs show

- *Worker.* `JobHasOwner`, `WorkerAwake`, `DoneNotMissed`, `FreeNotMissed`: with `notify()` and not
  `notify_all()` on shared conditions it is not plain that the caller whose job has run is
  the one that wakes up. It is, since at most one caller waits on `done` for an
  unfinished job (`FreeNotMissed` is the companion for the slot). `CallsReturn` holds until
  `quit()` or a failing first job; `ImplementsJobService` holds with `quit()` as well, a job it
  erases being "dropped": it never runs, and its caller waits for ever.
- *Gateway.* `CellIsFree` is the comment "Don't have to check if fifo cell is free"; `CommandWakes` that
  no wake-up falls between the test of the fifo and the sleep; `SafeCopy` and `AckCanRise`
  what the comments in `__PythonEvalFB` promise to the program; `ImplementsPyGateway` order, once, and
  own result. `SafeCopy` compares with `asked` and not with `PREBUFFER`, as the copy is what could be late.
  `TriggedAnswered` and `PythonThreadEnds` are the liveness of both sides, as long as the python thread is
  alive: after its death every block that is trigged waits until the PLC is stopped, and the property says so.
- *PLC object.* `StatusIsTrue`, `NotUnloadedInUse`, `CommandHeard`, `PreStartFirst`, and the
  liveness `StartStopReturn` and `UnLoadEnds`. `StartStopReturn` has one exception, which the run needs: the
  trace thread that `StopPLC` joins waits in `_suspendDebug(True)` for a `debug_mutex` that died with the PLC thread
  (`trace` = "stuck"; in `DebugTrace` this is `Stuck`). `Deaf` lists the conditions under which the unloading
  of a PLC hangs from the start, `Lost` what may still happen to the python thread while "Finish" is
  on its way; the run shows that there are no others.
- *Traces.* `OneTraceThread`, `BufferOwned`, `TraceFlows`, `SuspendReturns`, `StopReturns`. `Stuck` is the one way to wait for
  ever: the PLC thread is ended between locking and unlocking `debug_mutex`, in a cycle in which it
  traces or in one in which it finds the debugger off. A registration that fails
  marks the buffer empty without asking who reads it, and `BufferOwned` excepts it.
- *Transfer.* `DiskOK` is four things. `InstalledWhole`: `MatchMD5()` and `AutoLoad()` look at the md5 only,
  and whenever the process ends, what the md5 names is in place with all its files, since it is written
  last. There are two exceptions: a purge cut short, as it removes the md5 last too, and a chunk
  cut short, after which a file is truncated, though none is missing or another build's (`AsWritten`).
  `BlobsMatch`: a blob
  taken from several IDEs at a time holds what its ID says, or a part of that if the chunk was cut short.
  `ExtraFilesListed`: the next purge finds every extra file, also after a failed installation, but for the
  `orphans`. `RunsWhole`: nobody replaces the files of a
  PLC that runs. `ToldWhole` is the promise to the IDE, with the exception of a chunk cut short: the md5
  that the IDE compares says nothing of it.
- *Retain.* `ImplementsRetainStore` says in which cases saved values are lost, and that there are no others.
- *Log.* `CursorRight`: no two writers have the same place. `ReadRight`: a search that begins with all
  messages after the one asked for in place finds it and returns it whole, with its neighbours
  being written, unless a slower writer was still busy in its place.
- *SVGHMI.* `ListKept`, `NotForgotten` (the session that does not have the present value is on its way to get
  it), `SessionsApart`, `SubscribersKnown`, `ServingKept` and `WakeUpHeard`. The exceptions they name (`late`, `lost`,
  `replaced`) are the behaviours below. In particular `WakeUpHeard` does not say that a change is always sent in time: a
  signal that came before the thread waited is `lost`, and the thread then sleeps on what it should send.

### Where the code and its documentation part

The "violation" runs, with their finding in `PROJECT.json`:

1. `quit()` ("unblocks main thread, and terminate execution of runloop()") erases
   the job slot before it notifies: the wait for a job goes on (`Worker.py:183-192`).
2. A python thread that clears `PlcStopping` after `StopPLC` has set it is blocked for
   ever (`PLCObject.py:219`).
3. The trace thread's first `resumeDebug()` may unlock the mutex that the worker holds
   between `suspendDebug(False)` and its own `resumeDebug()` (`PLCObject.py:782`).
4. Values collected for the former list are delivered with the new token, since neither
   the buffer nor the trace thread knows the token (`PLCObject.py:806`).

Met while modelling and kept in the models as behaviour, without a run of their own:

- the exception of a first job leaves `runloop()` with the mutex held (`Worker.py:72`), and the caller of
  a job erased by `quit()` waits for ever (`:172`);
- `"Finish"` is sent although the python thread was not created (`PLCObject.py:425`);
- a command that is not UTF-8, a result that cannot be encoded, or an exception whose log message cannot, ends the
  python thread (`PLCObject.py:435`, `:439`, `:447`, `:456`, outside of the `try` or in its handlers): the blocks are
  not answered any more, `StopPLC` reports `Broken`, and the next `NewPLC` waits for ever for the acknowledgement
  of "Finish" (`:425`); the same for an exception of a start or stop method whose text cannot be logged, or a stop
  method that never comes back (`svghmi_server.py:295`);
- `TraceThreadProc()` ends with `_suspendDebug(True)` if nobody has polled for 3 seconds (`:819`): if the PLC thread was
  ended in its debug section, the trace thread never gets `debug_mutex`, and `StopPLC` never returns from the `join()` (`:567`);
- `TraceThread` may become `None` between the test and the `join()` of `StopPLC` (`:566-567`), which then
  raises, with the PLC stopped and its status still `Started`;
- `RepairPLC` reports `Empty` while the PLC is running (`:676`).
- under `interleave()`, `stop()` may find the loop asleep on the slot that it has just emptied, and its
  `join()` never returns; or waiting for an outcome, where `self.job.success` of `None` raises an
  exception that ends the loop's thread with the mutex held (`Worker.py:123`); the loop's thread may
  begin after `stop()` and enable the worker again; a caller past the test of `enabled` posts a job after
  `stop()` and waits for ever; `finish()` calls the stopper and not `quit()` if there is such a thread;
- a purge cut short by a crash leaves the md5 of a PLC with files removed; the names in
  `extra_files.txt` are not flushed before `NewPLC()` returns, and without that file a purge removes
  nothing at all; the `.so` of an installation that failed stays for ever; an empty md5 file
  makes `AutoLoad()` say `Stopped`; an `fsync()` of the md5 that fails (`:709`) leaves the md5
  on the disk, of a PLC that is reported `Broken`;
- `AppendChunkToBlob()` ignores what `os.write()` returns (`:618`), and the blob's ID is computed from what was
  sent: on a disk that is nearly full a truncated file is installed under the md5 of the whole build, and an
  IDE that connects later is told that its program is in place. The names that `extra_files.txt` has not
  taken as `NewPLC()` returns (`:699-703`) are lost, and their files are never purged;
- a save of retain variables that was interrupted leaves a torn main file, which the next save
  renames over the good backup: a second interruption then loses both (`plc_Linux_main_retain.c:284`). A disk
  that fails goes unnoticed and does the same. `fsync()` comes before the CRC is flushed, so a
  power failure can invalidate both files (`:271`). A program does not recognise the main file
  of another one, and moves it over its own backup;
- a writer of the log that `stopPLC()` ends between its reservation and its tail hides all older
  messages; one that is lapped writes over newer messages; a message asked for by index
  after a reset may be one from before it;
- the signal from the PLC thread to the send thread has no memory: if it comes when the send thread is past its
  list, the values stay until the next change, and at stop, when "plc cleanup ... unlocks send
  thread" (`svghmi_server.py:294`), the thread may sleep on and the `join()` wait for ever;
- a PLC thread ended with `hmitree_wlock` held leaves everybody else spinning;
- `session_count` loses one at every replacement of a watchdog session; the messages of a session that
  was killed go on using its index, which another may have; `svghmi_reset()` reads the tail of
  the list before it has the lock, and may miss a subscription (the next `onOpen` repairs it);
  with nothing to send, `svghmi_send_collect()` returns a variable it has not set.


## 4. Fairness

- *Worker*: weak fairness of the main thread, of the loop's thread and of each caller's own steps.
  Threads are scheduled and jobs end; nothing forces a call to begin, the first job to
  fail or the reactor to end, but a service that leaves goes on to `stop()`. Weak
  fairness is enough although the mutex comes and goes: in these
  instances the mutex is busy for ever only if jobs keep coming, and `MaxOps` bounds them.
- *PyEval*: weak fairness of both threads; strong fairness for taking `python_mutex`, which
  each holds for some instructions per cycle or command. For the PLC thread this is
  the assumption that its try-lock, repeated each cycle, succeeds again and again,
  and that the program calls each block that does not poll in cycles in which it does; without it the
  real-time thread could always come when the python thread is in. Nothing forces a stop, and nothing
  forces an `Unreadable` command to end the python thread, or to spare it.
- *PLCObject*: weak fairness of jobs that have begun, of the python thread, and of a trace
  thread once the PLC thread is gone, unless it is stuck. Python code that the python thread runs ends, unless
  `PythonHangs` or `PythonDies` comes first, which nothing forces or forbids. What the worker calls
  itself is taken to return: `startPLC()` and `stopPLC()` of the library, the init and cleanup methods of
  the extensions, `dlopen()`; so is a trace request, whose wait for `debug_mutex` is in `DebugTrace`. No request is
  forced, and neither is the trace thread's 3 s limit.
- *DebugTrace*: weak fairness of the three threads, strong fairness for taking
  `debug_mutex` in competition. Requests are not forced; the trace thread may, but need not, age out.
- *Transfer*, *Retain*, *LogBuffer*, *SVGHMI*: safety only, no fairness. Nothing in the code forces a
  transfer to go on, a save to follow or a message to be read. That the send thread of SVGHMI is
  woken up is stated as safety (`WakeUpHeard`), with the history `lost` for the signals that nobody hears:
  under weak fairness of its threads the liveness would be false for that reason alone.


## 5. Proofs

For every value of the constants, under the named assumptions of the modules
(`WorkerAssumption`: quitters are callers, the special jobs are none; `PyEvalAssumption`: a finite,
non-empty set of blocks; the program gives its blocks codes; `ResultAssumption`: the value for "no text" is no result; `DebugTraceAssumption`,
`PLCObjectAssumption`, `TransferAssumption`, `RetainAssumption`, `HMITreeAssumption`: the special values are apart
from the others, bounds are numbers; `SVGHMIAssumption`: finitely many indexes, counted from 0;
`LogBufferAssumption`: the ring has a cell). The state spaces need not be finite.

Every safety invariant, action property and refinement that a passing run checks is stated by a theorem.

`Worker_proofs`:

- `WorkerInvariant`, `WorkerTypeCorrect`, `NoLostNotification` and its parts `JobsHaveOwners`, `DoneWakesOwner`,
  `FreeIsPassedOn`. The properties are not inductive alone. The
  strengthening `Control` says that nobody is past the test of `enabled` before the loop runs, that the
  first job is in the slot exactly while the worker is at it, that a job that
  runs is a caller's, that a caller about to quit has set `_finish`, and that who has not
  posted yet has no outcome. Then, for each action, the argument for the
  conditions: a caller is in `inDone` with no outcome only as the owner of
  the slot, so `done.notify()` has one candidate (`NotifyDoneEffect`), and whoever empties the slot
  or returns hands `free` on (`NotifyFreeEffect`).
- `WorkerImplementsJobService`: each step maps to a step of `JobService` or to none
  (`StepJobService`), with the lemmas `SamePhase`, `AllSamePhase` and `OnePhase` about `phaseBar`.

`PyEval_proofs`:

- `PyEvalInvariant`, and from it `PyEvalTypeCorrect`, `FifoNeverOverflows`, `NoLostWakeUp`, `AnswersMatch`,
  `AckFallsFirst`. The
  invariant adds to the properties who may hold `python_mutex` (`Holders`), that the cells
  that hold a block are the ones from the python cursor up to the PLC cursor and hold each
  block that waits, once (`Fifo`), what is under the python cursor during an evaluation
  (`Evaluation`), what buffers contain (`Commands`), and that `PREBUFFER` is what CODE was at the trigger and
  what is in the fifo a copy of it (`Copied`), from which `SafeCopy` follows. `SomeCellFree` is the pigeonhole:
  as many cells as blocks, no block twice, one block absent, so a cell is free.
- `PyEvalImplementsPyGateway`: each step maps to a step of `PyGateway` or to none (`StepGateway`). The abstract
  queue is computed from the cursors and the cells, so the argument begins with rings of cells: between
  two cursors lie as many cells as the fifo has blocks, and counted from the python cursor they are the
  first ones, also when they go round the end (`RingCount`, `FifoRing`). Then writing the cell
  under the PLC cursor appends to the queue (`QueueGrows`) and clearing the one under the
  python cursor takes its head (`QueueShrinks`). The count is compared before and after a step, never
  followed, so there is no induction. `PyEvalAnswers` adds that an answered block has a result.

`PLCObject_proofs`:

- `PLCObjectInvariant`, and from it `PLCObjectTypeCorrect`, `StatusTold`, `UnloadedAlone`, `NoCommandLost`
  and the action property `StartAfterPreStart`. The invariant says which jobs pass through which places (`JobPlaces`), what
  status, library and files agree on between jobs and in each of them (`StatusKept`, `Loaded`), who
  runs (`Running`), what has been stopped by where (`Stopped`), how the command slot, the acknowledgement and
  the python thread's place fit together (`Handshake`), and where a trace thread may be (`Traced`). One lemma
  shows that every action keeps one conjunct: the conjuncts are proved apart, all from the whole.

`DebugTrace_proofs`:

- `DebugTraceInvariant`, and from it `DebugTraceTypeCorrect`, `TraceThreadIsOne`, `BufferHasOneOwner`. `Stopping`
  and `Registering` say what is true at the steps of the worker; `Handover` that a buffer stays marked full
  from the time the PLC thread begins to fill it until the trace thread has freed it, and that
  the trace thread is told of it once, after it was filled.

`Transfer_proofs`:

- `TransferInvariant`, and from it `TransferTypeCorrect`, `DiskIsRight` and the action property
  `IdesToldTruth`. To what the properties say between jobs, the invariant adds what is there at
  each step of one: who is at work for whom (`Busy`), which files are listed, or about to be (`Listed`),
  whether the md5 is gone, torn or the new one by then (`Marked`), which files of the build are in place
  (`Placed`), and that the PLC which may be started is the one that the md5 names (`Ready`). With any
  number of writes cut short: what a full disk truncates is known to be of a build in `short`.

`Retain_proofs`:

- `RetainInvariant`, `RetainTypeCorrect`: a file being saved is the running program's, without CRC, and
  there is no other file to be saved to.
- `RetainImplementsRetainStore`: each step maps to a step of `RetainStore` or to none (`StepRetainStore`).
  `StoredCases` and `SafeIs` compute the mapping, `SameFiles` leaves alone what a step does not touch, `UnfinishedFile` says
  that a file without CRC reminds nobody of anything.

`SVGHMI_proofs`:

- `SVGHMIInvariant`, and from it `SVGHMITypeCorrect`, `HMIIsRight` (the parts of `HMIOK`, among them `ListKept`,
  `SessionsApart` and `ServingKept`) and `WakeUpIsHeard`. The first half is about the list of `HMITree`, which is linked
  by `next` and `prev` and walked from the tail. That a walk from `r` meets the items
  of K, and that walks end, is said without walking: every set closed under `prev` that has `r` contains K
  (`Covers`), every non-empty set has an item whose predecessor is outside (`Acyclic`). In this form
  both are kept by `AppendToList` and `RemoveFromList`, and the recursive functions `Chain` and `Reset` of the
  model are computed from them: two walks agree (`WalksAgree`), each item has one (`WalkExists`), and
  `Reset`, a function of a number of steps, by induction on that number.
- The invariant then adds who holds which lock and what may be a session (`Locks`, `Roles`), that
  there are no more sessions than connections (`Counted`), that a reset that has read the tail
  and waits for the lock will meet all that its session is subscribed to, whatever
  others append or remove meanwhile (`Cover`, the reason why the early read of the tail does no more harm than
  the history `late` says), and what the send thread may have missed at each of its steps (`Wake`).

`LogBuffer_proofs`:

- `LogInvariant`, and from it `LogTypeCorrect` and `LogIsRight`. Messages are laid end to end on
  an unrolled line of bytes, of which the ring is the image by the mask. `Placed` and `Places` say that they
  follow one another without a hole and that each writer at work has one of its own, so writers never
  overlap on the line; less than a lap apart, positions never meet in the ring either
  (`AroundAdds`, `AroundApart`). A cell of a message that is relied on can be overwritten only by a
  writer from a lap before, which `clean` excludes (`CleanKept`), or one from a lap after, and then the
  message is no longer `kept`; hence what is done is intact (`Content`), cell by cell. `Reading` follows the
  reader from tail to tail towards the message it seeks: its place is the end of a message not
  before that one. TLC has checked this invariant on the instance of the `LogBufferRing` run too.

Induction over data is used in two places only (`LeastNumber` and `Induct` in `SVGHMI_proofs`): the
library's theorems that take an operator as a parameter cannot be instantiated, but that the order of numbers is
well-founded is a statement about sets, and gives a least element of the set of counterexamples.

Model-checked only: all liveness, that is `CallsReturn`, `TriggedAnswered`, `PythonThreadEnds`, `StartStopReturn`,
`UnLoadEnds`, `TraceFlows`, `SuspendReturns` and `StopReturns` (temporal reasoning under fairness, and ENABLED, are out of
the prover's reach).


## 6. Not modelled, and the plan

Left out of the modelled components: `PLClibraryLock` (the jobs that
load or free the library run after the trace thread is joined); targets other than Linux (Win32
and Xenomai have primitives of their own). After `stopPLC()` the code locks a destroyed `debug_mutex`,
which glibc lets pass at once; the model goes on treating it as a mutex, which only orders the
worker and a trace thread that ends.

- *Transfer*: contents of more than one chunk; a file whose removal fails though it is there; a last name of `extra_files.txt` that is written in part (the
  model loses it whole);
  power failures, which may keep a later file and lose an earlier one; the dialogs of the IDE.
- *Retain*: the period between saves is left open, any cycle may save; buffers that a killed thread's
  stdio writes when the process exits; a program without retain variables. Two images are taken
  to have different CRCs, and renamings to survive power failures.
- *LogBuffer*: one level; a tail is one cell, read and written at once; the 64-bit cursor may be torn on
  32-bit targets; counters that wrap; the message about a message that is too big.
- *SVGHMI*: values set by an HMI (`rbuf`, `hmitree_rlock`), ages of 16 bits that wrap, the timer of the
  watchdog, overflow of the send buffer, the browser.
- *PLC object*: `RemoteExec`, `ExtendedCall`, `GetVersions`, PSK files. *Debug traces*: values of forced variables.

Whole components not modelled, and why:

- *C++ runtime* (`src/C_runtime`): a second implementation of the same services for targets without
  Python. Its transfer does not make the promises that `Transfer` states, so it is no variant of that module: it
  ignores the results of `PurgePLC()` and `BlobAsFile()`, writes the md5 before the extra files, and
  makes each extra file from the blob of the PLC (`PLCObject.cpp:313`), which is gone by then. The module to
  write is its own: calls of one server, the trace thread, `NewPLC()` file by file.
- *WAMP client, web interface, service publication*: their calls enter through `worker.call()`, which `Worker` models
  with any number of callers; the rest is the work of external libraries.
- *Program editor, graphics, code generator, PLCopen and XML processing, field-bus extensions*: the greater part
  of the repository by lines. They transform documents, in one thread, under the user's
  hand; there is no interleaving, crash or message for a model checker to explore,
  and what would have to be stated is the meaning of whole languages. The parts of them that
  run beside a PLC end in the C code above, or in stacks that are not in the repository.
- *IDE*: `_Connect()` and `_Transfer()` are in `Transfer`; status polling, the debugger's registration and the build are not.

Next, in this order:

1. `CRuntime`, as above.
2. The IDE's status polling and debugger registration against `DebugTrace`.
3. The way back in SVGHMI: `setval`, `rbuf`, `hmitree_rlock`; the watchdog's timer.
4. Proofs: the safety parts that the liveness properties rest on (what enables the step that each waits for), and
   the same for the modules above once they exist.
