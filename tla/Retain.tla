------------------------------- MODULE Retain -------------------------------
(***************************************************************************)
(* The retain variables of a PLC program, saved once in a while to a file  *)
(* by the PLC thread: targets/Linux/plc_Linux_main_retain.c, called from   *)
(* targets/plc_debug.c.  The file of the last save is kept as a backup     *)
(* while the next one is written.                                          *)
(*                                                                         *)
(* The PLC thread may be ended between any two of the steps, by stopPLC()  *)
(* or with its process; the power may fail.  Then a file whose CRC the     *)
(* system has not written back yet may lose it: fsync() comes before       *)
(* fclose(), so the CRC is still in the buffer of the library.  Renamings  *)
(* are taken to survive.                                                   *)
(*                                                                         *)
(* A CRC is what it is computed from: no two images have the same.         *)
(*                                                                         *)
(* A definition under "Slip:" is no part of the model: it is a variant of  *)
(* the one that follows with a mistake in it, which a property must notice.*)
(***************************************************************************)
EXTENDS Naturals

CONSTANTS Programs,     \* PLC_ID
          Values,
          N,            \* retain variables of a program
          default,      \* their first value
          NONE

Offsets == 1..N
Images == [Offsets -> Values]
Default == [v \in Offsets |-> default]

\* A program is none that the files could be of another.  An image that is not complete
\* has NONE at some offset; the CRC is NONE until it is written.
Files == [hash : Programs, image : [Offsets -> Values \cup {NONE}], crc : Images \cup {NONE}]

Names == {"retain_buffer_file", "retain_buffer_file.bak"}
rb_file == "retain_buffer_file"
rb_file_bckp == "retain_buffer_file.bak"

ASSUME RetainAssumption == /\ N \in Nat \ {0}
                           /\ default \in Values
                           /\ NONE \notin Programs \cup Values \cup Images \cup Files \cup Names

VARIABLES
    file,           \* each file, or NONE
    cached,         \* the files whose CRC has not been written back
    running,        \* the program whose PLC thread runs
    value,          \* of its retain variables
    retain_buffer,  \* NULL, or how it was opened
    pc,             \* of the PLC thread
    offset          \* of the next variable to save

vars == <<file, cached, running, value, retain_buffer, pc, offset>>

TypeOK ==
    /\ file \in [Names -> Files \cup {NONE}]
    /\ cached \subseteq Names
    /\ running \in Programs \cup {NONE}
    /\ value \in Images
    /\ retain_buffer \in {"NULL", "rb", "wb+"}
    /\ pc \in {"off", "cycle", "create", "retain", "validate"}
    /\ offset \in 1..N + 1
    /\ (running = NONE) = (pc = "off")

Init ==
    /\ file = [n \in Names |-> NONE]
    /\ cached = {}
    /\ running = NONE /\ value = Default
    /\ retain_buffer = "NULL" /\ pc = "off" /\ offset = 1

----------------------------------------------------------------------------

\* Slip: the file of another program will do.
CheckRetainFileOfAny(f, p) ==
    f # NONE /\ f.crc # NONE /\ f.crc = f.image

CheckRetainFile(f, p) ==
    f # NONE /\ f.crc # NONE /\ f.crc = f.image /\ f.hash = p

\* CheckRetainBuffer(): the file that a program is reminded from, or NONE.
Reminder(files, p) ==
    IF CheckRetainFile(files[rb_file], p) THEN rb_file
    ELSE IF CheckRetainFile(files[rb_file_bckp], p) THEN rb_file_bckp
    ELSE NONE

\* __init_debug(): the file that it was reminded from stays open.
Start(p) ==
    /\ pc = "off"
    /\ running' = p
    /\ pc' = "cycle"
    /\ LET from == Reminder(file, p)
       IN /\ value' = IF from = NONE THEN Default ELSE file[from].image
          /\ retain_buffer' = IF from = NONE THEN "NULL" ELSE "rb"
    /\ UNCHANGED <<file, cached, offset>>

\* The program runs.
Cycle ==
    /\ pc = "cycle"
    /\ value' \in Images
    /\ UNCHANGED <<file, cached, running, retain_buffer, pc, offset>>

\* Nothing to do in this cycle: Retain() cannot write to the file that was only read, and
\* ValidateRetainBuffer() closes it.
SaveNotNeeded ==
    /\ pc = "cycle"
    /\ retain_buffer' = "NULL"
    /\ UNCHANGED <<file, cached, running, value, pc, offset>>

\* Slip: the old backup makes room for the old file, which stays where it is.
BackupRemoved(files) == [files EXCEPT ![rb_file_bckp] = NONE]

\* rename(), which does nothing if there is no file.
Renamed(files) ==
    IF files[rb_file] = NONE
    THEN files
    ELSE [files EXCEPT ![rb_file_bckp] = files[rb_file], ![rb_file] = NONE]

\* InValidateRetainBuffer(), if RetainSaveNeeded(): the old file becomes the backup ...
InValidateRename ==
    /\ pc = "cycle"
    /\ pc' = "create"
    /\ file' = Renamed(file)
    /\ cached' = IF file[rb_file] = NONE THEN cached
                 ELSE IF rb_file \in cached THEN {rb_file_bckp} ELSE {}
    /\ UNCHANGED <<running, value, retain_buffer, offset>>

\* ... and a new one is made, with a header.
InValidateCreate ==
    /\ pc = "create"
    /\ pc' = "retain"
    /\ offset' = 1
    /\ \/ /\ file' = [file EXCEPT ![rb_file] =
                        [hash |-> running, image |-> [v \in Offsets |-> NONE], crc |-> NONE]]
          /\ retain_buffer' = "wb+"
       \/ /\ retain_buffer' = "NULL"
          /\ UNCHANGED file
    /\ UNCHANGED <<cached, running, value>>

\* Slip: one variable too many.
RetainOneMore ==
    /\ pc = "retain"
    /\ offset <= N + 1
    /\ offset' = offset + 1
    /\ UNCHANGED <<file, cached, running, value, retain_buffer, pc>>

\* Retain(), of one variable; nobody notices a disk that is full.
RetainOne ==
    /\ pc = "retain"
    /\ offset <= N
    /\ offset' = offset + 1
    /\ \/ /\ retain_buffer = "wb+"
          /\ file' = [file EXCEPT ![rb_file].image[offset] = value[offset]]
       \/ UNCHANGED file
    /\ UNCHANGED <<cached, running, value, retain_buffer, pc>>

RetainDone ==
    /\ pc = "retain"
    /\ offset > N
    /\ pc' = "validate"
    /\ UNCHANGED <<file, cached, running, value, retain_buffer, offset>>

\* ValidateRetainBuffer(): the CRC is that of what was to be written.
Validate ==
    /\ pc = "validate"
    /\ pc' = "cycle"
    /\ retain_buffer' = "NULL"
    /\ \/ /\ retain_buffer = "wb+"
          /\ file' = [file EXCEPT ![rb_file].crc = value]
          /\ cached' = cached \cup {rb_file}
       \/ UNCHANGED <<file, cached>>
    /\ UNCHANGED <<running, value, offset>>

\* stopPLC(), or the end of the process.
Stop ==
    /\ pc # "off"
    /\ pc' = "off"
    /\ running' = NONE
    /\ UNCHANGED <<file, cached, value, retain_buffer, offset>>

\* By the system.
WriteBack ==
    /\ \E n \in cached : cached' = cached \ {n}
    /\ UNCHANGED <<file, running, value, retain_buffer, pc, offset>>

PowerFailure ==
    /\ pc' = "off"
    /\ running' = NONE
    /\ \E lost \in SUBSET cached :
          file' = [n \in Names |-> IF n \in lost THEN [file[n] EXCEPT !.crc = NONE] ELSE file[n]]
    /\ cached' = {}
    /\ UNCHANGED <<value, retain_buffer, offset>>

Next == \/ \E p \in Programs : Start(p)
        \/ Cycle \/ SaveNotNeeded \/ InValidateRename \/ InValidateCreate
        \/ RetainOne \/ RetainDone \/ Validate
        \/ Stop \/ WriteBack \/ PowerFailure

Spec == Init /\ [][Next]_vars

----------------------------------------------------------------------------

stored == [p \in Programs |-> LET from == Reminder(file, p)
                              IN IF from = NONE THEN NONE ELSE file[from].image]

safe == IF file[rb_file] # NONE /\ CheckRetainFile(file[rb_file], file[rb_file].hash)
        THEN file[rb_file].hash ELSE NONE

flushed == {p \in Programs : LET from == Reminder(file, p) IN from # NONE /\ from \notin cached}

Store == INSTANCE RetainStore

\* Whatever is stopped, in whichever step, and whichever programs run one after the other,
\* a program is reminded of all that it saved last: unless a save is interrupted and the
\* next one that begins is too (its rename() puts the unfinished file over the good
\* backup), unless another program has saved meanwhile, and unless the power fails before
\* the CRC, which fsync() misses, is written back.
ImplementsRetainStore == Store!Spec
=============================================================================
