-------------------------- MODULE Transfer_proofs --------------------------
(***************************************************************************)
(* Proofs about Transfer: however many IDEs, builds, files, crashes and    *)
(* writes to a full disk, the md5 on the disk names a PLC that is whole, a *)
(* blob holds what its ID says, extra files are listed for the next purge, *)
(* a running PLC has its files, and an IDE is told the truth: but for the  *)
(* chunks that were cut short, and the names that were lost.               *)
(***************************************************************************)
EXTENDS Transfer, TLAPS

Purging == {"purge", "files", "old", "md5", "finish"}
Installing == {"so", "open", "extra", "write", "load"}

\* The worker is busy for one IDE; the IDE's build is what it installs, and no
\* PLC runs meanwhile, but while the runtime is repaired.
Busy ==
    /\ main # "idle" => job \in Ides
    /\ main = "idle" => ~repair
    /\ main \in Installing => ~repair
    /\ main # "idle" /\ ~repair => build[job] \in Builds /\ status # "Started"
    /\ \A i \in Ides : ide[i] \in {"seed", "append", "new"} => build[i] \in Builds

\* The extra files on the disk are those in extra_files.txt, those that are yet
\* to be removed, or those that are to be flushed to it.
Listed ==
    LET There == {n \in Names \ orphans : files[n] # None}
    IN /\ main \notin {"extra", "write", "load"} => log = {}
       /\ main \in {"idle", "purge"} =>
              There = {} \/ (extra_files # None /\ There \subseteq extra_files)
       /\ main = "files" => /\ extra_files # None
                            /\ todo \subseteq extra_files
                            /\ There \subseteq todo
       /\ main \in {"old", "md5", "finish", "so", "open"} => There = {}
       /\ main \in {"extra", "write", "load"} => There \subseteq log /\ extra_files # None

\* Without a list of extra files there is no md5, and none while files are being
\* replaced: unless a purge was cut short.
Marked ==
    /\ extra_files = None /\ md5 \in Builds => cut \/ main \in {"old", "md5"}
    /\ main \in {"so", "open", "extra"} => md5 \notin Builds \/ cut
    /\ main = "write" => md5 = Torn
    /\ main = "load" => md5 = build[job] /\ current = build[job]

\* Contents that were sent as b's.
Sent(c, b) == c = b \/ (c = Torn /\ b \in short)

\* What the installation has put in its place so far.
Placed ==
    /\ main \in {"open", "extra", "write", "load"} => Sent(so[build[job]], build[job])
    /\ main \in {"extra", "write", "load"} =>
           /\ todo \subseteq Files[build[job]]
           /\ \A n \in Files[build[job]] \ todo : Sent(files[n], build[job])
    /\ main \in {"write", "load"} => todo = {}

\* The PLC that may be started, or runs, is the one that the md5 names.
Ready ==
    main = "idle" => /\ status \in {"Stopped", "Started"} => current = md5
                     /\ status = "Started" => current \in Builds
                     /\ status = "Stopped" /\ loaded => current \in Builds

IInv == /\ TypeOK /\ BlobsMatch /\ Busy /\ Listed
        /\ Marked /\ Placed /\ InstalledWhole /\ Ready

\* What the calls of an IDE leave alone while it sends its blobs.
Kept == /\ UNCHANGED <<disk, status, current, loaded, log, mainVars, cut, orphans>>
        /\ short \subseteq short'

----------------------------------------------------------------------------
(* Builds on the disk.                                                      *)

\* A build is as it was written when each of its files is as it was sent.
LEMMA SentAll ==
    ASSUME NEW b \in Builds, Sent(so[b], b), \A n \in Files[b] : Sent(files[n], b)
    PROVE  AsWritten(b)
BY DEF Sent, AsWritten, Whole, InPlace

\* The build that the md5 names stays as it was while its files do.
LEMMA InstalledKept ==
    ASSUME InstalledWhole, UNCHANGED <<so, files, md5, cut>>, short \subseteq short',
           main' \notin {"files", "old", "md5"} => main \notin {"files", "old", "md5"}
    PROVE  InstalledWhole'
BY DEF InstalledWhole, AsWritten, Whole, InPlace

----------------------------------------------------------------------------

LEMMA InitIInv == Init => IInv
<1> SUFFICES ASSUME Init PROVE IInv
  OBVIOUS
<1>1. FlagsOK
  BY Zenon DEF Init, FlagsOK
<1>2. ValuesOK
  BY TransferAssumption DEF Init, ValuesOK, Contents, BuildOrNone, Blob, Seeds
<1>3. Busy /\ Listed /\ Marked /\ Placed /\ Ready
  BY TransferAssumption DEF Init, Busy, Listed, Marked, Placed, Ready, Installing
<1>4. BlobsMatch /\ InstalledWhole
  BY TransferAssumption DEF Init, BlobsMatch, InstalledWhole
<1> QED BY <1>1, <1>2, <1>3, <1>4 DEF IInv, TypeOK

LEMMA KeptIInv ==
    ASSUME IInv, Kept, build' = build,
           ValuesOK', BlobsMatch',
           \A i \in Ides : ide'[i] = ide[i] \/ build[i] \in Builds
                                            \/ ide'[i] \notin {"seed", "append", "new"}
    PROVE  IInv'
<1> USE DEF IInv, Kept, disk, mainVars
<1>1. FlagsOK'
  BY Zenon DEF FlagsOK, TypeOK
<1>2. Busy'
  BY DEF Busy
<1>3. Listed'
  BY DEF Listed
<1>4. Marked' /\ Placed' /\ Ready'
  BY DEF Marked, Placed, Sent, Ready
<1>5. InstalledWhole'
  BY InstalledKept
<1> QED BY <1>1, <1>2, <1>3, <1>4, <1>5 DEF TypeOK

----------------------------------------------------------------------------
(* The IDEs.                                                               *)

\* The calls that only connect, and send blobs.
LEMMA SendIInv ==
    ASSUME IInv, NEW i \in Ides,
           \/ Connect(i) \/ Disconnect(i) \/ Seed(i) \/ Append(i)
           \/ AppendUnknown(i) \/ AppendFails(i)
    PROVE  IInv'
<1> USE DEF IInv, TypeOK, Ide
<1>1. Kept /\ build' = build
  BY DEF Connect, Disconnect, Seed, Append, AppendUnknown, AppendFails, Kept,
         disk, memory, mainVars, history
<1>2. ASSUME NEW j \in Ides
      PROVE  \/ ide'[j] = ide[j] \/ build[j] \in Builds
             \/ ide'[j] \notin {"seed", "append", "new"}
  BY DEF Connect, Disconnect, Seed, Append, AppendUnknown, AppendFails, Busy, ValuesOK
<1>3. ASSUME Append(i)
      PROVE  \E written \in {build[i], Torn} :
                 /\ AppendChunkToBlob(sending[i], build[i], written)
                 /\ written = build[i] \/ build[i] \in short'
  BY <1>3 DEF Append
<1>4. BlobsMatch'
  <2>1. CASE Seed(i)
    BY <2>1 DEF Seed, SeedBlob, WithID, BlobsMatch, history
  <2>2. CASE Append(i)
    BY <1>1, <1>3, <2>2 DEF AppendChunkToBlob, WithID, BlobsMatch, Kept
  <2>3. CASE ~Seed(i) /\ ~Append(i)
    BY <2>3 DEF Connect, Disconnect, AppendUnknown, AppendFails, memory, history, BlobsMatch
  <2> QED BY <2>1, <2>2, <2>3
<1>5. blobs' \subseteq Blob
  <2>1. CASE Seed(i)
    BY <2>1 DEF Seed, SeedBlob, WithID, ValuesOK, Blob, Contents, BuildOrNone
  <2>2. CASE Append(i)
    <3>1. build[i] \in Builds
      BY <2>2 DEF Append, Busy
    <3>2. PICK written \in {build[i], Torn} :
              AppendChunkToBlob(sending[i], build[i], written)
      BY <1>3, <2>2
    <3>3. PICK x \in WithID(sending[i], None) :
              blobs' = (blobs \ (WithID(sending[i], None) \cup WithID(sending[i], build[i])))
                           \cup {[seed |-> sending[i], digest |-> build[i], data |-> written]}
      BY <3>2 DEF AppendChunkToBlob
    <3>4. sending[i] \in Seeds
      BY <3>3 DEF WithID, ValuesOK, Blob
    <3> QED BY <3>1, <3>3, <3>4 DEF ValuesOK, Blob, Contents, BuildOrNone
  <2>3. CASE ~Seed(i) /\ ~Append(i)
    BY <2>3 DEF Connect, Disconnect, AppendUnknown, AppendFails, memory, ValuesOK
  <2> QED BY <2>1, <2>2, <2>3
<1>6. /\ ide' \in [Ides -> {"off", "idle", "seed", "append", "new", "wait"}]
      /\ tosend' \in [Ides -> SUBSET Seeds]
      /\ sending' \in [Ides -> Seeds \cup {None}]
      /\ told' \in [Ides -> BuildOrNone]
      /\ transfers' = transfers /\ crashes' = crashes
  BY DEF Connect, Disconnect, Seed, Append, AppendUnknown, AppendFails, bounds,
         ValuesOK, BuildOrNone
<1>7. short' \subseteq Builds /\ full' \in 0..MaxFull
  <2>1. CASE Append(i)
    BY <2>1, TransferAssumption DEF Append, Busy, DiskFull, ValuesOK
  <2>2. CASE ~Append(i)
    BY <2>2 DEF Connect, Disconnect, Seed, AppendUnknown, AppendFails, bounds, history,
                ValuesOK
  <2> QED BY <2>1, <2>2
<1>8. ValuesOK'
  BY <1>1, <1>5, <1>6, <1>7 DEF Kept, ValuesOK, disk, mainVars
<1> QED BY <1>1, <1>2, <1>4, <1>8, KeptIInv

LEMMA BeginIInv ==
    ASSUME IInv, NEW i \in Ides, NEW b \in Builds, BeginTransfer(i, b)
    PROVE  IInv'
<1> USE DEF IInv, TypeOK, Ide, BeginTransfer, disk, mainVars, history
<1>1. transfers' \in 0..MaxTransfers
  BY TransferAssumption DEF ValuesOK
<1>2. FlagsOK'
  BY Zenon DEF FlagsOK
<1>3. Files[b] \cup {b} \subseteq Seeds
  BY TransferAssumption DEF Seeds
<1>4. ValuesOK'
  BY <1>1, <1>3 DEF ValuesOK, BuildOrNone
<1>5. BlobsMatch' /\ Busy'
  BY DEF BlobsMatch, Busy, Installing, ValuesOK
<1>6. Listed'
  BY DEF Listed
<1>7. (Marked /\ Placed /\ InstalledWhole /\ Ready)'
  BY InstalledKept DEF Marked, Placed, Sent, Ready
<1> QED BY <1>2, <1>4, <1>5, <1>6, <1>7

\* The worker is idle: it starts or stops the PLC, or begins NewPLC() or RepairPLC().
LEMMA WorkIInv ==
    ASSUME IInv, NEW i \in Ides, StartPLC(i) \/ StopPLC(i) \/ NewPLC(i) \/ Repair(i)
    PROVE  IInv'
<1> USE DEF IInv, TypeOK, Ide, disk, mainVars, ideVars, history, bounds, memory
<1>1. FlagsOK'
  <2>1. CASE StartPLC(i)
    BY <2>1, Zenon DEF StartPLC, FlagsOK
  <2>2. CASE StopPLC(i) \/ NewPLC(i) \/ Repair(i)
    BY <2>2, Zenon DEF StopPLC, NewPLC, Repair, FlagsOK
  <2> QED BY <2>1, <2>2
<1>2. ValuesOK'
  BY DEF StartPLC, StopPLC, NewPLC, Repair, ValuesOK
<1>3. BlobsMatch' /\ main = "idle" /\ UNCHANGED <<disk, build, todo, log, history>>
  BY DEF StartPLC, StopPLC, NewPLC, Repair, BlobsMatch
<1>4. Busy'
  BY DEF StartPLC, StopPLC, NewPLC, Repair, Busy, Installing, ValuesOK
<1>5. main' \in {"idle", "purge"}
  BY DEF StartPLC, StopPLC, NewPLC, Repair
<1>6. Listed'
  BY <1>3, <1>5 DEF Listed
<1>7. (Marked /\ Placed /\ InstalledWhole)'
  BY <1>3, <1>5, InstalledKept DEF Marked, Placed
<1>8. Ready'
  <2>1. CASE StartPLC(i)
    BY <2>1, TransferAssumption DEF StartPLC, Ready, HasSo, ValuesOK, Contents, BuildOrNone
  <2>2. CASE StopPLC(i)
    BY <2>2 DEF StopPLC, Ready
  <2>3. CASE NewPLC(i) \/ Repair(i)
    BY <2>3 DEF NewPLC, Repair, Ready
  <2> QED BY <2>1, <2>2, <2>3
<1> QED BY <1>1, <1>2, <1>3, <1>4, <1>6, <1>7, <1>8

LEMMA IdeIInv == ASSUME IInv, NEW i \in Ides, IdeStep(i) PROVE IInv'
BY SendIInv, BeginIInv, WorkIInv DEF IdeStep

----------------------------------------------------------------------------
(* The worker: PurgePLC().                                                 *)

LEMMA PurgeIInv == ASSUME IInv, PurgeStep PROVE IInv'
<1> USE DEF IInv, TypeOK, Main, memory, disk, ideVars, history, bounds
<1>1. FlagsOK'
  BY Zenon DEF PurgeStep, PurgePLC, Purged, RemoveExtraFile, RemoveLog, RemoveOld,
               RemoveMD5, FlagsOK
<1>2. BlobsMatch'
  BY DEF PurgeStep, PurgePLC, Purged, RemoveExtraFile, RemoveLog, RemoveOld,
         RemoveMD5, BlobsMatch
<1>3. Busy'
  BY DEF PurgeStep, PurgePLC, Purged, RemoveExtraFile, RemoveLog, RemoveOld,
         RemoveMD5, Busy, Installing
<1>4. (Placed /\ Ready)'
  BY DEF PurgeStep, PurgePLC, Purged, RemoveExtraFile, RemoveLog, RemoveOld,
         RemoveMD5, Placed, Ready
<1>5. CASE PurgePLC
  <2>1. ValuesOK'
    BY <1>5 DEF PurgePLC, Purged, ValuesOK
  <2>2. Listed'
    BY <1>5 DEF PurgePLC, Purged, Listed
  <2>3. (Marked /\ InstalledWhole)'
    BY <1>5, InstalledKept DEF PurgePLC, Purged, Marked
  <2> QED BY <1>1, <1>2, <1>3, <1>4, <2>1, <2>2, <2>3
<1>6. CASE RemoveExtraFile
  <2>1. ValuesOK'
    BY <1>6 DEF RemoveExtraFile, ValuesOK, Contents, BuildOrNone
  <2>2. Listed'
    BY <1>6 DEF RemoveExtraFile, Listed, ValuesOK
  <2>3. (Marked /\ InstalledWhole)'
    BY <1>6 DEF RemoveExtraFile, Marked, InstalledWhole
  <2> QED BY <1>1, <1>2, <1>3, <1>4, <2>1, <2>2, <2>3
<1>7. CASE RemoveLog
  <2>1. ValuesOK'
    BY <1>7 DEF RemoveLog, ValuesOK
  <2>2. Listed'
    BY <1>7 DEF RemoveLog, Listed
  <2>3. (Marked /\ InstalledWhole)'
    BY <1>7 DEF RemoveLog, Marked, InstalledWhole
  <2> QED BY <1>1, <1>2, <1>3, <1>4, <2>1, <2>2, <2>3
<1>8. CASE RemoveOld
  <2>1. ValuesOK'
    BY <1>8 DEF RemoveOld, ValuesOK, Contents, BuildOrNone
  <2>2. Listed'
    BY <1>8 DEF RemoveOld, Listed
  <2>3. (Marked /\ InstalledWhole)'
    BY <1>8 DEF RemoveOld, Marked, InstalledWhole
  <2> QED BY <1>1, <1>2, <1>3, <1>4, <2>1, <2>2, <2>3
<1>9. CASE RemoveMD5
  <2>1. ValuesOK'
    BY <1>9 DEF RemoveMD5, Purged, ValuesOK, Contents, BuildOrNone
  <2>2. Listed'
    BY <1>9 DEF RemoveMD5, Purged, Listed
  <2>3. (Marked /\ InstalledWhole)'
    BY <1>9, TransferAssumption DEF RemoveMD5, Purged, Marked, InstalledWhole
  <2> QED BY <1>1, <1>2, <1>3, <1>4, <2>1, <2>2, <2>3
<1> QED BY <1>5, <1>6, <1>7, <1>8, <1>9 DEF PurgeStep

----------------------------------------------------------------------------
(* The worker: NewPLC().                                                   *)

\* What an installation works with.
LEMMA Installer ==
    ASSUME IInv, main \in Installing
    PROVE  /\ job \in Ides /\ build[job] \in Builds /\ Files[build[job]] \subseteq Names
           /\ ~repair /\ status # "Started"
BY TransferAssumption DEF IInv, Busy, Installing

LEMMA InstallSoIInv == ASSUME IInv, InstallSo PROVE IInv'
<1> USE DEF IInv, TypeOK, InstallSo, Main, ideVars, history, bounds
<1>1. main \in Installing /\ build[job] \in Builds
  BY Installer DEF Installing
<1>2. PICK x \in WithID(build[job], build[job]) :
          blobs' = blobs \ {x} /\ so' = [so EXCEPT ![build[job]] = x.data]
  OBVIOUS
<1>3. Sent(x.data, build[job])
  BY <1>2 DEF WithID, BlobsMatch, Sent
<1>4. FlagsOK'
  BY Zenon DEF FlagsOK
<1>5. ValuesOK'
  BY <1>1, <1>2, <1>3 DEF ValuesOK, Sent, Contents, BuildOrNone
<1>6. BlobsMatch' /\ Busy'
  BY <1>2 DEF BlobsMatch, Busy, Installing
<1>7. Listed'
  BY DEF Listed
<1>8. Placed'
  BY <1>1, <1>2, <1>3 DEF Placed, Sent, ValuesOK
<1>9. (Marked /\ InstalledWhole /\ Ready)'
  BY DEF Marked, InstalledWhole, Ready
<1> QED BY <1>4, <1>5, <1>6, <1>7, <1>8, <1>9

LEMMA OpenLogIInv == ASSUME IInv, OpenLog PROVE IInv'
<1> USE DEF IInv, TypeOK, OpenLog, Main, memory, ideVars, history, bounds
<1>1. main \in Installing /\ build[job] \in Builds /\ Files[build[job]] \subseteq Names
  BY Installer DEF Installing
<1>2. FlagsOK'
  BY Zenon DEF FlagsOK
<1>3. ValuesOK'
  BY <1>1 DEF ValuesOK
<1>4. BlobsMatch' /\ Busy'
  BY DEF BlobsMatch, Busy, Installing
<1>5. Listed'
  BY TransferAssumption DEF Listed
<1>6. (Marked /\ Placed /\ InstalledWhole /\ Ready)'
  BY TransferAssumption DEF Marked, Placed, Sent, InstalledWhole, Ready
<1> QED BY <1>2, <1>3, <1>4, <1>5, <1>6

LEMMA InstallExtraFileIInv == ASSUME IInv, InstallExtraFile PROVE IInv'
<1> USE DEF IInv, TypeOK, InstallExtraFile, ideVars, history, bounds
<1>1. main \in Installing /\ build[job] \in Builds
  BY Installer DEF Installing
<1>2. PICK n \in todo : \E x \in WithID(n, build[job]) :
          /\ blobs' = blobs \ {x}
          /\ files' = [files EXCEPT ![n] = x.data]
          /\ log' = log \cup {n}
          /\ todo' = todo \ {n}
  OBVIOUS
<1>3. PICK x \in WithID(n, build[job]) :
          /\ blobs' = blobs \ {x}
          /\ files' = [files EXCEPT ![n] = x.data]
          /\ log' = log \cup {n}
          /\ todo' = todo \ {n}
  BY <1>2
<1>4. Sent(x.data, build[job]) /\ n \in Names
  BY <1>3 DEF WithID, BlobsMatch, ValuesOK, Sent
<1>5. FlagsOK'
  BY Zenon DEF FlagsOK
<1>6. ValuesOK'
  BY <1>1, <1>3, <1>4 DEF ValuesOK, Sent, Contents, BuildOrNone
<1>7. BlobsMatch' /\ Busy'
  BY <1>3 DEF BlobsMatch, Busy, Installing
<1>8. Listed'
  BY <1>3, <1>4 DEF Listed, ValuesOK
<1>9. Placed'
  BY <1>1, <1>3, <1>4, TransferAssumption DEF Placed, Sent, ValuesOK
<1>10. (Marked /\ InstalledWhole /\ Ready)'
  BY DEF Marked, InstalledWhole, Ready
<1> QED BY <1>5, <1>6, <1>7, <1>8, <1>9, <1>10

LEMMA OpenMD5IInv == ASSUME IInv, OpenMD5 PROVE IInv'
<1> USE DEF IInv, TypeOK, OpenMD5, Main, memory, ideVars, history, bounds
<1>1. FlagsOK'
  BY Zenon DEF FlagsOK
<1>2. ValuesOK'
  BY DEF ValuesOK, Contents
<1>3. BlobsMatch' /\ Busy'
  BY DEF BlobsMatch, Busy, Installing
<1>4. Listed'
  BY DEF Listed
<1>5. (Marked /\ Placed /\ InstalledWhole /\ Ready)'
  BY TransferAssumption DEF Marked, Placed, Sent, InstalledWhole, Ready
<1> QED BY <1>1, <1>2, <1>3, <1>4, <1>5

LEMMA WriteMD5IInv == ASSUME IInv, WriteMD5 PROVE IInv'
<1> USE DEF IInv, TypeOK, WriteMD5, Main, ideVars, bounds
<1>1. main \in Installing /\ build[job] \in Builds
  BY Installer DEF Installing
<1>2. FlagsOK'
  BY Zenon DEF FlagsOK
<1>3. ValuesOK'
  BY <1>1 DEF ValuesOK, Contents, BuildOrNone
<1>4. BlobsMatch' /\ Busy'
  BY DEF BlobsMatch, Busy, Installing
<1>5. Listed'
  BY DEF Listed
<1>6. (Marked /\ Placed /\ Ready)'
  BY <1>1 DEF Listed, Marked, Placed, Sent, Ready
<1>7. AsWritten(build[job])
  BY <1>1, SentAll DEF Placed
<1>8. InstalledWhole'
  BY <1>7 DEF InstalledWhole, AsWritten, Whole, InPlace
<1> QED BY <1>2, <1>3, <1>4, <1>5, <1>6, <1>8

\* NewPLC() returns, in one way or the other.
LEMMA ReturnIInv ==
    ASSUME IInv, main \in Installing, NEW success \in BOOLEAN, Returns(success),
           UNCHANGED <<so, files, current, cut>>, blobs' \subseteq blobs,
           md5' = md5 \/ (main = "write" /\ md5' = build[job]),
           FlagsOK',
           status' = "Broken" \/ (status' = "Stopped" /\ main = "load")
    PROVE  IInv'
<1> USE DEF IInv, TypeOK, Returns
<1>1. job \in Ides /\ build[job] \in Builds /\ ~repair
  BY Installer
<1>2. ide' \in [Ides -> {"off", "idle", "seed", "append", "new", "wait"}]
      /\ told' \in [Ides -> BuildOrNone]
      /\ \A i \in Ides : ide'[i] = ide[i] \/ ide'[i] = "idle"
  BY <1>1 DEF ValuesOK, BuildOrNone
<1>3. PICK kept \in SUBSET Names :
          /\ main \in {"extra", "write", "load"} =>
                 /\ kept \subseteq log /\ extra_files' = kept
                 /\ orphans' = orphans \cup (log \ kept)
          /\ main \notin {"extra", "write", "load"} =>
                 UNCHANGED <<extra_files, orphans>>
          /\ log' = {} /\ full' \in 0..MaxFull
  <2>1. CASE main \in {"extra", "write", "load"}
    <3>1. PICK kept \in SUBSET log : /\ extra_files' = kept
                                    /\ orphans' = orphans \cup (log \ kept)
                                    /\ IF kept = log THEN UNCHANGED full ELSE DiskFull
      BY <2>1 DEF CloseLog
    <3>2. full' \in 0..MaxFull
      BY <3>1, TransferAssumption DEF DiskFull, ValuesOK
    <3> QED BY <2>1, <3>1, <3>2 DEF CloseLog, ValuesOK
  <2>2. CASE main \notin {"extra", "write", "load"}
    BY <2>2 DEF CloseLog, ValuesOK
  <2> QED BY <2>1, <2>2
<1>4. ValuesOK'
  BY <1>1, <1>2, <1>3 DEF ValuesOK, Contents, BuildOrNone
<1>5. BlobsMatch' /\ Busy'
  BY <1>1, <1>2 DEF BlobsMatch, Busy, Installing
<1>6. Listed'
  BY <1>3, TransferAssumption DEF Listed, Installing, ValuesOK
<1>7. (Marked /\ Placed)'
  BY <1>3, TransferAssumption DEF Marked, Placed, Installing, Listed, ValuesOK
<1>8. InstalledWhole'
  <2>1. CASE main = "write" /\ md5' = build[job]
    <3>1. AsWritten(build[job])
      BY <1>1, <2>1, SentAll DEF Placed
    <3> QED BY <2>1, <3>1 DEF InstalledWhole, AsWritten, Whole, InPlace
  <2>2. CASE md5' = md5
    BY <2>2, InstalledKept DEF Installing
  <2> QED BY <2>1, <2>2
<1>9. Ready'
  BY <1>1 DEF Ready, Marked
<1> QED BY <1>4, <1>5, <1>6, <1>7, <1>8, <1>9

LEMMA InstallIInv == ASSUME IInv, InstallStep PROVE IInv'
<1>1. CASE InstallFails
  <2>1. FlagsOK'
    BY <1>1, Zenon DEF InstallFails, Returns, IInv, TypeOK, FlagsOK
  <2>2. PICK success \in BOOLEAN : Returns(success)
    BY <1>1 DEF InstallFails
  <2>3. main \in Installing /\ status' = "Broken"
        /\ UNCHANGED <<so, files, current, cut>> /\ blobs' \subseteq blobs
        /\ (md5' = md5 \/ (main = "write" /\ md5' = build[job]))
    BY <1>1 DEF InstallFails, Installing
  <2> QED BY <2>1, <2>2, <2>3, ReturnIInv
<1>2. CASE Load
  <2>1. PICK success \in BOOLEAN : /\ loaded' = success
                                   /\ status' = IF success THEN "Stopped" ELSE "Broken"
                                   /\ Returns(success)
    BY <1>2 DEF Load
  <2>2. FlagsOK'
    BY <1>2, <2>1, Zenon DEF Load, Returns, IInv, TypeOK, FlagsOK
  <2> QED BY <1>2, <2>1, <2>2, ReturnIInv DEF Load, Installing
<1> QED BY <1>1, <1>2, InstallSoIInv, OpenLogIInv, InstallExtraFileIInv, OpenMD5IInv,
           WriteMD5IInv DEF InstallStep

----------------------------------------------------------------------------
(* The process ends, and starts again.                                     *)

LEMMA RestartIInv ==
    ASSUME IInv, Restart, crashes' \in 0..MaxCrashes, cut' \in BOOLEAN,
           orphans' \subseteq Names,
           cut => cut', main \in {"files", "old", "md5"} => cut',
           orphans \cup log \subseteq orphans'
    PROVE  IInv'
<1> USE DEF IInv, TypeOK, Restart, disk
<1>1. FlagsOK'
  <2>1. loaded' \in BOOLEAN
    <3>1. loaded' \in {(FALSE), (TRUE), HasSo(md5)}
      BY Zenon
    <3>2. HasSo(md5) \in BOOLEAN
      BY DEF HasSo
    <3> QED BY <3>1, <3>2, Zenon
  <2> QED BY <2>1, Zenon DEF FlagsOK
<1>2. ValuesOK'
  BY DEF ValuesOK, Contents, BuildOrNone
<1>3. BlobsMatch' /\ Busy'
  BY DEF BlobsMatch, Busy, Installing
<1>4. Listed'
  BY DEF Listed, ValuesOK
<1>5. (Marked /\ Placed)'
  BY TransferAssumption DEF Marked, Placed, ValuesOK
<1>6. InstalledWhole'
  BY DEF InstalledWhole, AsWritten, Whole, InPlace
<1>7. Ready'
  BY TransferAssumption DEF Ready, HasSo, ValuesOK
<1> QED BY <1>1, <1>2, <1>3, <1>4, <1>5, <1>6, <1>7

LEMMA EndIInv == ASSUME IInv, Crash \/ Finish PROVE IInv'
<1>1. CASE Crash
  <2>1. crashes' \in 0..MaxCrashes /\ orphans' \subseteq Names
    BY <1>1, TransferAssumption DEF Crash, IInv, TypeOK, ValuesOK
  <2>2. cut' \in BOOLEAN
    BY <1>1 DEF Crash
  <2>3. (cut => cut') /\ (main \in {"files", "old", "md5"} => cut')
    BY <1>1, Zenon DEF Crash
  <2> QED BY <1>1, <2>1, <2>2, <2>3, RestartIInv DEF Crash
<1>2. CASE Finish
  <2>1. crashes' \in 0..MaxCrashes /\ orphans' \subseteq Names
    BY <1>2 DEF Finish, IInv, TypeOK, ValuesOK
  <2>2. cut' \in BOOLEAN /\ (cut => cut')
    BY <1>2, Zenon DEF Finish, IInv, TypeOK, FlagsOK
  <2>3. log = {} /\ main \notin {"files", "old", "md5"}
    BY <1>2 DEF Finish, IInv, Listed
  <2> QED BY <1>2, <2>1, <2>2, <2>3, RestartIInv DEF Finish
<1> QED BY <1>1, <1>2

LEMMA StepIInv == IInv /\ [Next]_vars => IInv'
<1> SUFFICES ASSUME IInv, [Next]_vars PROVE IInv'
  OBVIOUS
<1>1. CASE UNCHANGED vars
  <2>1. FlagsOK' /\ Busy' /\ Ready'
    BY <1>1, Zenon DEF IInv, TypeOK, FlagsOK, Busy, Ready, vars, disk, memory, mainVars,
                       ideVars, history, bounds
  <2>2. ValuesOK' /\ BlobsMatch' /\ Listed'
    BY <1>1 DEF IInv, TypeOK, ValuesOK, BlobsMatch, Listed, vars, disk, memory, mainVars,
                ideVars, history, bounds
  <2>3. (Marked /\ Placed /\ InstalledWhole)'
    BY <1>1, InstalledKept DEF IInv, Marked, Placed, Sent, vars, disk, memory, mainVars,
                ideVars, history, bounds
  <2> QED BY <2>1, <2>2, <2>3 DEF IInv, TypeOK
<1>2. CASE \E i \in Ides : IdeStep(i)
  BY <1>2, IdeIInv
<1>3. CASE PurgeStep
  BY <1>3, PurgeIInv
<1>4. CASE InstallStep
  BY <1>4, InstallIInv
<1>5. CASE Crash \/ Finish
  BY <1>5, EndIInv
<1> QED BY <1>1, <1>2, <1>3, <1>4, <1>5 DEF Next

----------------------------------------------------------------------------
\* The inductive invariant of the transfer: what is on the disk, and what the
\* worker is doing to it.
THEOREM TransferInvariant == Spec => []IInv
<1>1. Init => IInv
  BY InitIInv
<1>2. IInv /\ [Next]_vars => IInv'
  BY StepIInv
<1> QED BY <1>1, <1>2, PTL DEF Spec

\* The state of the IDEs, of the runtime and of its disk keeps its types.
THEOREM TransferTypeCorrect == Spec => []TypeOK
BY TransferInvariant, PTL DEF IInv

\* PurgePLC() and NewPLC() write and remove their files in an order that leaves,
\* wherever it stops, an md5 that names a whole PLC, a list of all extra files
\* and a running PLC with its files; and blobs are not mixed.  A full disk does no
\* more than to truncate the files of which a chunk was cut short, and to lose the
\* names that were in the buffer of the list.
THEOREM DiskIsRight == Spec => []DiskOK
<1>1. IInv => InstalledWhole /\ BlobsMatch
  BY DEF IInv
<1>2. IInv => ExtraFilesListed
  BY DEF IInv, Listed, ExtraFilesListed
<1>3. IInv => RunsWhole
  <2> SUFFICES ASSUME IInv, status = "Started", ~repair PROVE AsWritten(current) \/ cut
    BY DEF RunsWhole
  <2>1. main = "idle"
    BY DEF IInv, Busy
  <2> QED BY <2>1 DEF IInv, Ready, InstalledWhole
<1> QED BY <1>1, <1>2, <1>3, TransferInvariant, PTL DEF DiskOK

\* What NewPLC() and MatchMD5() tell an IDE is true of the disk at that time.
THEOREM IdesToldTruth == Spec => ToldWhole
<1>1. ASSUME IInv, [Next]_vars, NEW i \in Ides, told'[i] \notin {None, told[i]}
      PROVE  \/ AsWritten(told'[i])
             \/ ide[i] = "off" /\ (cut \/ main # "idle")
  <2>1. told' # told
    BY <1>1
  <2>2. CASE \E j \in Ides : IdeStep(j)
    <3>1. PICK j \in Ides : IdeStep(j)
      BY <2>2
    <3>2. Connect(j) \/ \E b \in Builds : BeginTransfer(j, b)
      BY <2>1, <3>1 DEF IdeStep, Connect, Disconnect, BeginTransfer, Seed, Append,
         AppendUnknown, AppendFails, NewPLC, Repair, StartPLC, StopPLC, ideVars
    <3>3. i = j /\ Connect(j)
      BY <1>1, <3>2 DEF Connect, BeginTransfer, IInv, TypeOK, ValuesOK
    <3>4. ide[i] = "off" /\ md5 \in Builds /\ told'[i] = md5
      BY <1>1, <3>3, TransferAssumption
         DEF Connect, Ide, IInv, TypeOK, ValuesOK, BuildOrNone
    <3>5. main = "idle" => AsWritten(md5) \/ cut
      BY <1>1, <3>4 DEF IInv, InstalledWhole
    <3>6. AsWritten(md5) => AsWritten(told'[i])
      BY <3>4
    <3> QED BY <3>4, <3>5, <3>6, Zenon
  <2>3. CASE PurgeStep
    BY <2>1, <2>3 DEF PurgeStep, PurgePLC, RemoveExtraFile, RemoveLog, RemoveOld,
       RemoveMD5, ideVars
  <2>4. CASE InstallStep
    <3>1. PICK success \in BOOLEAN : Returns(success) /\ (success => main = "load")
      BY <2>1, <2>4 DEF InstallStep, InstallSo, OpenLog, InstallExtraFile, OpenMD5,
         WriteMD5, InstallFails, Load, ideVars
    <3>2. i = job /\ success /\ told'[i] = build[job]
      BY <1>1, <3>1 DEF Returns, IInv, TypeOK, ValuesOK
    <3>3. AsWritten(build[job])
      <4>1. build[job] \in Builds
        BY <1>1, <3>1, <3>2, Installer DEF Installing
      <4> QED BY <1>1, <3>1, <3>2, <4>1, SentAll DEF IInv, Placed
    <3>4. AsWritten(told'[i])
      BY <3>2, <3>3
    <3> QED BY <3>4
  <2>5. CASE Crash \/ Finish
    BY <2>1, <2>5 DEF Crash, Finish, Restart
  <2>6. CASE UNCHANGED vars
    BY <2>1, <2>6 DEF vars, ideVars
  <2> QED BY <1>1, <2>2, <2>3, <2>4, <2>5, <2>6 DEF Next
<1>2. IInv /\ [Next]_vars =>
          [\A i \in Ides :
              told'[i] \notin {None, told[i]} =>
                  \/ AsWritten(told'[i])
                  \/ ide[i] = "off" /\ (cut \/ main # "idle")]_vars
  BY <1>1
<1> QED BY <1>2, TransferInvariant, PTL DEF Spec, ToldWhole
=============================================================================
