----------------------------- MODULE Transfer -----------------------------
(***************************************************************************)
(* How a PLC gets from the IDE to the disk of the runtime: _Transfer() in  *)
(* ProjectController.py and BlobFromFile() in ConnectorBase.py on the side *)
(* of the IDE, the blobs and NewPLC(), PurgePLC(), AutoLoad() and          *)
(* MatchMD5() in runtime/PLCObject.py on the other.                        *)
(*                                                                         *)
(* Several IDEs may be connected, one by eRPC and others by WAMP.  Their   *)
(* calls run one at a time in the worker's thread, but for MatchMD5().  A  *)
(* connection may be lost at any time, before or after the call that is    *)
(* under way.  The process of the runtime may end at any time and start    *)
(* again: it then finds what it had written to the disk by then.           *)
(*                                                                         *)
(* A build stands for its md5, for the name of its shared object and for   *)
(* the contents of its files.  Files are sent in one chunk.  A blob has    *)
(* the digest of its seed and of the data sent as its ID: <<seed, None>>   *)
(* at first, <<seed, contents>> at the end.                                *)
(*                                                                         *)
(* The disk may be full.  Some writes then raise an exception, others fail *)
(* in silence: os.write() of a chunk writes less than it was given, and    *)
(* extra_files.txt, which is not closed, loses what it has in its buffer.  *)
(*                                                                         *)
(* A definition under "Slip:" is no part of the model: it is a variant of  *)
(* the one that follows with a mistake in it, which a property must notice.*)
(***************************************************************************)
EXTENDS Naturals

CONSTANTS Ides,
          Builds,
          Names,        \* of extra files
          Files,        \* the extra files of each build
          None,
          Torn,         \* a file that is not whole: just opened, or cut short
          MaxTransfers, \* bound: calls of _Transfer()
          MaxCrashes,   \* bound: crashes of the runtime
          MaxFull       \* bound: writes that the full disk cuts in silence

ASSUME TransferAssumption == /\ Files \in [Builds -> SUBSET Names]
                             /\ None # Torn
                             /\ {None, Torn} \cap (Builds \cup Names \cup Ides) = {}
                             /\ \A s \in SUBSET Names : s # None
                             /\ Builds \cap Names = {}
                             /\ MaxTransfers \in Nat
                             /\ MaxCrashes \in Nat
                             /\ MaxFull \in Nat

VARIABLES
    \* The disk of the runtime.
    so,                 \* whose contents the shared object of each build has
    files,              \* whose contents each extra file has
    extra_files,        \* the names in extra_files.txt, None: no such file
    md5,                \* lasttransferedPLC.md5
    \* The memory of the runtime.
    status,             \* PLCStatus
    current,            \* CurrentPLCFilename
    loaded,             \* is PLClibraryHandle other than None?
    blobs,
    main,               \* what the worker is at
    job,                \* the IDE that it works for
    repair,             \* is it RepairPLC()?
    todo,               \* extra files yet to remove or to create
    log,                \* what is written to extra_files.txt, but not flushed
    \* The IDEs.
    ide,                \* what each is at
    build,              \* its build
    tosend,             \* the blobs yet to send
    sending,
    told,               \* the build it was last told to be in place
    \* History.
    cut,                \* a purge was cut short by a crash
    orphans,            \* extra files whose names extra_files.txt has lost
    short,              \* the builds of which a chunk was cut short
    transfers, crashes, full

disk == <<so, files, extra_files, md5>>
memory == <<status, current, loaded, blobs, log>>
mainVars == <<main, job, repair, todo>>
ideVars == <<ide, build, tosend, sending, told>>
history == <<cut, orphans, short>>
bounds == <<transfers, crashes, full>>
vars == <<disk, memory, mainVars, ideVars, history, bounds>>

BuildOrNone == Builds \cup {None}
Seeds == Names \cup Builds
Contents == BuildOrNone \cup {Torn}
Blob == [seed : Seeds, digest : BuildOrNone, data : Contents]

FlagsOK == loaded \in BOOLEAN /\ repair \in BOOLEAN /\ cut \in BOOLEAN

ValuesOK ==
    /\ so \in [Builds -> Contents]
    /\ files \in [Names -> Contents]
    /\ extra_files \in (SUBSET Names) \cup {None}
    /\ md5 \in Contents
    /\ status \in {"Empty", "Stopped", "Started", "Broken"}
    /\ current \in Contents
    /\ blobs \subseteq Blob
    /\ main \in {"idle", "purge", "files", "old", "md5", "finish",
                 "so", "open", "extra", "write", "load"}
    /\ job \in Ides \cup {None}
    /\ todo \subseteq Names
    /\ log \subseteq Names
    /\ ide \in [Ides -> {"off", "idle", "seed", "append", "new", "wait"}]
    /\ build \in [Ides -> BuildOrNone]
    /\ tosend \in [Ides -> SUBSET Seeds]
    /\ sending \in [Ides -> Seeds \cup {None}]
    /\ told \in [Ides -> BuildOrNone]
    /\ orphans \subseteq Names
    /\ short \subseteq Builds
    /\ transfers \in 0..MaxTransfers
    /\ crashes \in 0..MaxCrashes
    /\ full \in 0..MaxFull

TypeOK == FlagsOK /\ ValuesOK

Init ==
    /\ so = [b \in Builds |-> None] /\ files = [n \in Names |-> None]
    /\ extra_files = None /\ md5 = None
    /\ status = "Empty" /\ current = None /\ loaded = FALSE /\ blobs = {} /\ log = {}
    /\ main = "idle" /\ job = None /\ repair = FALSE /\ todo = {}
    /\ ide = [i \in Ides |-> "off"] /\ build = [i \in Ides |-> None]
    /\ tosend = [i \in Ides |-> {}] /\ sending = [i \in Ides |-> None]
    /\ told = [i \in Ides |-> None]
    /\ cut = FALSE /\ orphans = {} /\ short = {}
    /\ transfers = 0 /\ crashes = 0 /\ full = 0

\* All the files of a build are in place, and as they were sent.
Whole(b) == so[b] = b /\ \A n \in Files[b] : files[n] = b

\* All the files of a build are in place, as they were written.
InPlace(b) == so[b] \in {b, Torn} /\ \A n \in Files[b] : files[n] \in {b, Torn}

\* The shared object is there: it can be loaded, if it is whole.
HasSo(b) == b \in Builds /\ so[b] # None

DiskFull == full < MaxFull /\ full' = full + 1

Ide(i, from, to) == ide[i] = from /\ ide' = [ide EXCEPT ![i] = to]
Main(from, to) == main = from /\ main' = to

----------------------------------------------------------------------------
(* Blobs.                                                                   *)

WithID(seed, digest) == {x \in blobs : x.seed = seed /\ x.digest = digest}

\* A blob of the same ID is replaced.
SeedBlob(seed) ==
    blobs' = (blobs \ WithID(seed, None))
                 \cup {[seed |-> seed, digest |-> None, data |-> None]}

\* Slip: the blob keeps the ID that it had, as well.
AppendChunkToBlobShared(seed, chunk, written) ==
    \E x \in WithID(seed, None) :
        blobs' = ({IF y = x THEN [y EXCEPT !.data = written] ELSE y : y \in blobs}
                      \ WithID(seed, chunk))
                     \cup {[seed |-> seed, digest |-> chunk, data |-> written]}

\* The ID is that of the chunk, whatever of it os.write() has written.
AppendChunkToBlob(seed, chunk, written) ==
    \E x \in WithID(seed, None) :
        blobs' = (blobs \ (WithID(seed, None) \cup WithID(seed, chunk)))
                     \cup {[seed |-> seed, digest |-> chunk, data |-> written]}

----------------------------------------------------------------------------
(* The IDE.                                                                 *)

\* Slip: the md5 is not compared with that of the build.
ConnectTrusting(i) ==
    /\ Ide(i, "off", "idle")
    /\ job # i
    /\ told' = [told EXCEPT ![i] = md5]
    /\ UNCHANGED <<disk, memory, mainVars, build, tosend, sending, history, bounds>>

\* _Connect(), with CompareLocalAndRemotePLC(): MatchMD5() does not wait for the worker.
Connect(i) ==
    /\ Ide(i, "off", "idle")
    /\ job # i
    /\ told' = [told EXCEPT ![i] = IF md5 = build[i] THEN build[i] ELSE None]
    /\ UNCHANGED <<disk, memory, mainVars, build, tosend, sending, history, bounds>>

\* The connection is lost, with the call that is under way or with its answer, or closed.
Disconnect(i) ==
    /\ ide[i] # "off"
    /\ ide' = [ide EXCEPT ![i] = "off"]
    /\ tosend' = [tosend EXCEPT ![i] = {}] /\ sending' = [sending EXCEPT ![i] = None]
    /\ UNCHANGED <<disk, memory, mainVars, build, told, history, bounds>>

\* _Transfer() of the last build, as far as PurgeBlobs().
BeginTransfer(i, b) ==
    /\ Ide(i, "idle", "seed")
    /\ main = "idle"
    /\ transfers < MaxTransfers
    /\ transfers' = transfers + 1
    /\ blobs' = {}
    /\ build' = [build EXCEPT ![i] = b]
    /\ tosend' = [tosend EXCEPT ![i] = Files[b] \cup {b}]
    /\ told' = [told EXCEPT ![i] = None]
    /\ UNCHANGED <<disk, status, current, loaded, log, mainVars, sending, history, crashes,
                   full>>

\* BlobFromFile(): the extra files in any order, then the shared object.
Seed(i) ==
    /\ Ide(i, "seed", "append")
    /\ main = "idle"
    /\ \E n \in tosend[i] :
          /\ n \in Builds => tosend[i] = {n}
          /\ SeedBlob(n)
          /\ sending' = [sending EXCEPT ![i] = n]
          /\ tosend' = [tosend EXCEPT ![i] = @ \ {n}]
    /\ UNCHANGED <<disk, status, current, loaded, log, mainVars, build, told, history, bounds>>

Append(i) ==
    /\ main = "idle"
    /\ Ide(i, "append", IF tosend[i] = {} THEN "new" ELSE "seed")
    /\ \/ AppendChunkToBlob(sending[i], build[i], build[i]) /\ UNCHANGED <<short, full>>
       \/ /\ AppendChunkToBlob(sending[i], build[i], Torn)
          /\ DiskFull /\ short' = short \cup {build[i]}
    /\ sending' = [sending EXCEPT ![i] = None]
    /\ UNCHANGED <<disk, status, current, loaded, log, mainVars, build, tosend, told, cut,
                   orphans, transfers, crashes>>

\* The runtime has no such blob, it was purged or taken: the answer is no ID, the IDE
\* gives up.
AppendUnknown(i) ==
    /\ main = "idle"
    /\ Ide(i, "append", "idle")
    /\ WithID(sending[i], None) = {}
    /\ tosend' = [tosend EXCEPT ![i] = {}]
    /\ sending' = [sending EXCEPT ![i] = None]
    /\ UNCHANGED <<disk, memory, mainVars, build, told, history, bounds>>

\* Nothing of the chunk can be written: the blob is gone, the exception closes the
\* connection.
AppendFails(i) ==
    /\ main = "idle"
    /\ Ide(i, "append", "off")
    /\ blobs' = blobs \ WithID(sending[i], None)
    /\ tosend' = [tosend EXCEPT ![i] = {}] /\ sending' = [sending EXCEPT ![i] = None]
    /\ UNCHANGED <<disk, status, current, loaded, log, mainVars, build, told, history, bounds>>

\* RepairPLC()
Repair(i) ==
    /\ main = "idle"
    /\ Ide(i, "idle", "wait")
    /\ main' = "purge" /\ job' = i /\ repair' = TRUE
    /\ UNCHANGED <<disk, memory, todo, build, tosend, sending, told, history, bounds>>

----------------------------------------------------------------------------
(* Starting and stopping the PLC.                                           *)

\* LoadPLC(), then startPLC(): the one needs the shared object, both may fail.
StartPLC(i) ==
    /\ main = "idle" /\ ide[i] = "idle"
    /\ status = "Stopped"
    /\ \/ /\ loaded \/ HasSo(current)
          /\ loaded' = TRUE /\ status' = "Started"
       \/ /\ loaded' \in {loaded, (loaded \/ HasSo(current))}
          /\ status' = "Broken"
    /\ UNCHANGED <<disk, current, blobs, log, mainVars, ideVars, history, bounds>>

StopPLC(i) ==
    /\ main = "idle" /\ ide[i] = "idle"
    /\ status = "Started"
    /\ status' = "Stopped"
    /\ UNCHANGED <<disk, current, loaded, blobs, log, mainVars, ideVars, history, bounds>>

----------------------------------------------------------------------------
(* NewPLC().                                                                *)

\* Slip: the PLC is replaced while it runs.
NewPLCAlways(i) ==
    /\ main = "idle"
    /\ Ide(i, "new", "wait")
    /\ main' = "purge" /\ job' = i /\ loaded' = FALSE
    /\ UNCHANGED <<disk, status, current, blobs, log, repair, todo, build, tosend, sending,
                   told, history, bounds>>

NewPLC(i) ==
    /\ main = "idle"
    /\ IF status = "Started"
       THEN Ide(i, "new", "idle") /\ UNCHANGED <<main, job, loaded>>
       ELSE Ide(i, "new", "wait") /\ main' = "purge" /\ job' = i /\ loaded' = FALSE
    /\ UNCHANGED <<disk, status, current, blobs, log, repair, todo, build, tosend, sending,
                   told, history, bounds>>

Purged == main' = (IF repair THEN "finish" ELSE "so") /\ status' = "Empty"

\* PurgePLC(): without extra_files.txt nothing at all is removed.
PurgePLC ==
    /\ main = "purge"
    /\ IF extra_files = None
       THEN Purged /\ UNCHANGED todo
       ELSE main' = "files" /\ todo' = extra_files /\ UNCHANGED status
    /\ UNCHANGED <<disk, current, loaded, blobs, log, job, repair, ideVars, history, bounds>>

\* The extra files in the order of the list, then extra_files.txt, then the shared
\* object, then the md5.  What is not there is passed over.
RemoveExtraFile ==
    /\ main = "files"
    /\ \E n \in todo : files' = [files EXCEPT ![n] = None] /\ todo' = todo \ {n}
    /\ UNCHANGED <<so, extra_files, md5, memory, main, job, repair, ideVars, history, bounds>>

RemoveLog ==
    /\ Main("files", "old")
    /\ todo = {}
    /\ extra_files' = None
    /\ UNCHANGED <<so, files, md5, memory, job, repair, todo, ideVars, history, bounds>>

RemoveOld ==
    /\ Main("old", "md5")
    /\ so' = [b \in Builds |-> IF b = current THEN None ELSE so[b]]
    /\ UNCHANGED <<files, extra_files, md5, memory, job, repair, todo, ideVars, history, bounds>>

RemoveMD5 ==
    /\ main = "md5"
    /\ md5' = None
    /\ cut' = FALSE
    /\ Purged
    /\ UNCHANGED <<so, files, extra_files, current, loaded, blobs, log, job, repair, todo,
                   ideVars, orphans, short, bounds>>

\* extra_files.txt is closed as NewPLC() returns, by nobody in particular: the names that
\* a full disk does not take then are lost, and nobody notices.
CloseLog ==
    /\ log' = {}
    /\ IF main \in {"extra", "write", "load"}
       THEN \E kept \in SUBSET log :
                /\ extra_files' = kept
                /\ orphans' = orphans \cup (log \ kept)
                /\ IF kept = log THEN UNCHANGED full ELSE DiskFull
       ELSE UNCHANGED <<extra_files, orphans, full>>

\* NewPLC() returns, the IDE has its answer if it is still there.
Returns(success) ==
    /\ main' = "idle" /\ job' = None /\ todo' = {}
    /\ CloseLog
    /\ LET answered == ide[job] = "wait"
       IN /\ ide' = IF answered THEN [ide EXCEPT ![job] = "idle"] ELSE ide
          /\ told' = IF answered /\ success THEN [told EXCEPT ![job] = build[job]] ELSE told
    /\ UNCHANGED <<repair, build, tosend, sending, short, transfers, crashes>>

InstallSo ==
    /\ Main("so", "open")
    /\ \E x \in WithID(build[job], build[job]) :
          blobs' = blobs \ {x} /\ so' = [so EXCEPT ![build[job]] = x.data]
    /\ UNCHANGED <<files, extra_files, md5, status, current, loaded, log, job, repair, todo,
                   ideVars, history, bounds>>

OpenLog ==
    /\ Main("open", "extra")
    /\ extra_files' = {}
    /\ todo' = Files[build[job]]
    /\ UNCHANGED <<so, files, md5, memory, job, repair, ideVars, history, bounds>>

\* Slip: the name of a file is not kept.
InstallExtraFileUnlogged ==
    /\ main = "extra"
    /\ \E n \in todo : \E x \in WithID(n, build[job]) :
          /\ blobs' = blobs \ {x}
          /\ files' = [files EXCEPT ![n] = x.data]
          /\ log' = log
          /\ todo' = todo \ {n}
    /\ UNCHANGED <<so, extra_files, md5, status, current, loaded, main, job, repair, ideVars,
                   history, bounds>>

\* One of the files, and its line in extra_files.txt.
InstallExtraFile ==
    /\ main = "extra"
    /\ \E n \in todo : \E x \in WithID(n, build[job]) :
          /\ blobs' = blobs \ {x}
          /\ files' = [files EXCEPT ![n] = x.data]
          /\ log' = log \cup {n}
          /\ todo' = todo \ {n}
    /\ UNCHANGED <<so, extra_files, md5, status, current, loaded, main, job, repair, ideVars,
                   history, bounds>>

\* Slip: the md5 is written before the extra files.
OpenMD5Early ==
    /\ Main("extra", "write")
    /\ md5' = Torn
    /\ UNCHANGED <<so, files, extra_files, memory, job, repair, todo, ideVars, history, bounds>>

OpenMD5 ==
    /\ Main("extra", "write")
    /\ todo = {}
    /\ md5' = Torn
    /\ UNCHANGED <<so, files, extra_files, memory, job, repair, todo, ideVars, history, bounds>>

WriteMD5 ==
    /\ Main("write", "load")
    /\ md5' = build[job]
    /\ current' = build[job]
    /\ cut' = FALSE
    /\ UNCHANGED <<so, files, extra_files, status, loaded, blobs, log, job, repair, todo,
                   ideVars, orphans, short, bounds>>

\* The blob that the installation was to take next.
Taken == LET seed == IF main = "so" THEN {build[job]} ELSE IF main = "extra" THEN todo ELSE {}
         IN UNION {WithID(n, build[job]) : n \in seed}

\* Slip: a blob that is missing is passed over.
InstallFailsSome ==
    /\ main \in {"so", "open", "extra", "write"}
    /\ status' = "Broken"
    /\ Returns(main = "extra")
    /\ UNCHANGED <<so, files, md5, current, loaded, blobs, cut>>

\* A blob is missing, or it was taken and cannot be moved, a file cannot be opened or
\* written, or the md5 was written and fsync() fails.
InstallFails ==
    /\ main \in {"so", "open", "extra", "write"}
    /\ status' = "Broken"
    /\ blobs' = blobs \/ \E x \in Taken : blobs' = blobs \ {x}
    /\ md5' = md5 \/ (main = "write" /\ md5' = build[job])
    /\ Returns(FALSE)
    /\ UNCHANGED <<so, files, current, loaded, cut>>

\* LoadPLC() succeeds, or not.
Load ==
    /\ main = "load"
    /\ \E success \in BOOLEAN :
          /\ loaded' = success
          /\ status' = IF success THEN "Stopped" ELSE "Broken"
          /\ Returns(success)
    /\ UNCHANGED <<so, files, md5, current, blobs, cut>>

----------------------------------------------------------------------------
(* The process ends, and starts again.                                      *)

\* __init__() and AutoLoad()
Restart ==
    /\ blobs' = {} /\ log' = {}
    /\ main' = "idle" /\ job' = None /\ repair' = FALSE /\ todo' = {}
    /\ ide' = [i \in Ides |-> "off"]
    /\ tosend' = [i \in Ides |-> {}] /\ sending' = [i \in Ides |-> None]
    /\ current' = md5
    /\ \E autostart \in BOOLEAN :
          \/ /\ md5 = None
             /\ status' = "Empty" /\ loaded' = FALSE
          \/ /\ md5 # None /\ ~autostart
             /\ status' = "Stopped" /\ loaded' = FALSE
          \/ /\ HasSo(md5) /\ autostart
             /\ status' = "Started" /\ loaded' = TRUE
          \/ /\ md5 # None /\ autostart
             /\ status' = "Broken" /\ loaded' \in {(FALSE), HasSo(md5)}
    /\ UNCHANGED <<disk, build, told, short, transfers, full>>

Crash ==
    /\ crashes < MaxCrashes
    /\ crashes' = crashes + 1
    /\ cut' = (cut \/ main \in {"files", "old", "md5"})
    /\ orphans' = orphans \cup log
    /\ Restart

\* RepairPLC() ends the process on purpose.
Finish ==
    /\ main = "finish"
    /\ Restart
    /\ UNCHANGED <<cut, orphans, crashes>>

----------------------------------------------------------------------------

IdeStep(i) == \/ Connect(i) \/ Disconnect(i)
              \/ \E b \in Builds : BeginTransfer(i, b)
              \/ Seed(i) \/ Append(i) \/ AppendUnknown(i) \/ AppendFails(i)
              \/ NewPLC(i) \/ Repair(i) \/ StartPLC(i) \/ StopPLC(i)

PurgeStep == PurgePLC \/ RemoveExtraFile \/ RemoveLog \/ RemoveOld \/ RemoveMD5

InstallStep == \/ InstallSo \/ OpenLog \/ InstallExtraFile \/ OpenMD5 \/ WriteMD5
               \/ InstallFails \/ Load

Next == (\E i \in Ides : IdeStep(i)) \/ PurgeStep \/ InstallStep \/ Crash \/ Finish

Spec == Init /\ [][Next]_vars

----------------------------------------------------------------------------
(* Properties.                                                              *)

\* A build is whole, unless one of its chunks was cut short: then a file is truncated,
\* but none is missing or another build's.
AsWritten(b) == Whole(b) \/ (b \in short /\ InPlace(b))

\* What lasttransferedPLC.md5 names is in place with all its files, whenever the process
\* ended: MatchMD5() and AutoLoad() look at nothing else.  Only a purge cut short leaves
\* the md5 of a PLC that it took files from, and only os.write() a file that is truncated.
InstalledWhole == md5 \in Builds /\ main \notin {"files", "old", "md5"} => AsWritten(md5) \/ cut

\* However the transfers of several IDEs interleave, a blob holds what its ID says: no
\* file is made of the contents that another IDE sent.  But the ID does not tell that a
\* chunk was cut short.
BlobsMatch == \A x \in blobs : x.data = x.digest \/ (x.data = Torn /\ x.digest \in short)

\* Every extra file on the disk is in extra_files.txt, so that the next purge removes it,
\* also after an installation that failed half-way: but for those whose names were in the
\* buffer as the process ended or as the disk was full.
ExtraFilesListed ==
    main = "idle" => \A n \in Names \ orphans :
                         files[n] # None => extra_files # None /\ n \in extra_files

\* A PLC that runs has its files: nobody replaces them, or purges them but to repair.
RunsWhole == status = "Started" /\ ~repair => AsWritten(current) \/ cut

DiskOK == InstalledWhole /\ BlobsMatch /\ ExtraFilesListed /\ RunsWhole

\* An IDE that is told that its build was installed may count on it, unless a chunk of that
\* build was cut short, which nothing tells.  As it connects, it may also be told so of a
\* PLC about to be purged, or of one whose purge was cut short.
ToldWhole ==
    [][\A i \in Ides :
          told'[i] \notin {None, told[i]} =>
              \/ AsWritten(told'[i])
              \/ ide[i] = "off" /\ (cut \/ main # "idle")]_vars
=============================================================================
