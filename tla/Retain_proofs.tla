--------------------------- MODULE Retain_proofs ---------------------------
(***************************************************************************)
(* Proofs about Retain, for any programs, any number of retain variables   *)
(* and any values: the two files implement RetainStore.                    *)
(***************************************************************************)
EXTENDS Retain, TLAPS

\* While a save is under way the file that it makes has no CRC; before it is made there is
\* none.  What has not been written back is a file.
Saving ==
    /\ pc = "create" => file[rb_file] = NONE
    /\ pc \in {"retain", "validate"} /\ retain_buffer = "wb+" =>
           /\ file[rb_file] # NONE
           /\ file[rb_file].hash = running
           /\ file[rb_file].crc = NONE
    /\ \A n \in cached : file[n] # NONE

RInv == TypeOK /\ Saving

----------------------------------------------------------------------------
(* The checks of a file.                                                    *)

LEMMA NamesApart == /\ rb_file \in Names /\ rb_file_bckp \in Names
                    /\ rb_file # rb_file_bckp
                    /\ rb_file # NONE /\ rb_file_bckp # NONE
                    /\ \A n \in Names : n \in {rb_file, rb_file_bckp}
  BY RetainAssumption DEF Names, rb_file, rb_file_bckp

\* A file that passes the checks is complete, and of the program.
LEMMA ValidFile ==
  ASSUME NEW f \in Files \cup {NONE}, NEW p, CheckRetainFile(f, p)
  PROVE  f \in Files /\ f.image \in Images /\ f.crc = f.image /\ f.hash = p
  BY DEF CheckRetainFile, Files

LEMMA DefaultIsImage == Default \in Images
  BY RetainAssumption DEF Default, Images

LEMMA ReminderCases ==
  ASSUME NEW fs, NEW p
  PROVE  \/ CheckRetainFile(fs[rb_file], p) /\ Reminder(fs, p) = rb_file
         \/ /\ ~CheckRetainFile(fs[rb_file], p)
            /\ CheckRetainFile(fs[rb_file_bckp], p) /\ Reminder(fs, p) = rb_file_bckp
         \/ /\ ~CheckRetainFile(fs[rb_file], p) /\ ~CheckRetainFile(fs[rb_file_bckp], p)
            /\ Reminder(fs, p) = NONE
  BY DEF Reminder

LEMMA ReminderImage ==
  ASSUME NEW fs \in [Names -> Files \cup {NONE}], NEW p, Reminder(fs, p) # NONE
  PROVE  Reminder(fs, p) \in Names /\ fs[Reminder(fs, p)].image \in Images
  BY ReminderCases, ValidFile, NamesApart

----------------------------------------------------------------------------
(* The invariant.                                                           *)

LEMMA RetainInvariantStep == RInv /\ [Next]_vars => RInv'
<1> SUFFICES ASSUME RInv, [Next]_vars PROVE RInv'
  OBVIOUS
<1> USE DEF RInv
<1>1. ASSUME NEW p \in Programs, Start(p) PROVE RInv'
  <2>1. value' \in Images
    BY <1>1, ReminderImage, DefaultIsImage DEF Start, TypeOK
  <2>2. QED
    BY <1>1, <2>1, RetainAssumption DEF Start, TypeOK, Saving
<1>2. CASE Cycle
  BY <1>2 DEF Cycle, TypeOK, Saving
<1>3. CASE SaveNotNeeded
  BY <1>3 DEF SaveNotNeeded, TypeOK, Saving
<1>4. CASE InValidateRename
  <2>1. TypeOK'
    BY <1>4, NamesApart DEF InValidateRename, Renamed, TypeOK
  <2>2. Saving'
    BY <1>4, NamesApart DEF InValidateRename, Renamed, TypeOK, Saving
  <2>3. QED
    BY <2>1, <2>2
<1>5. CASE InValidateCreate
  <2> DEFINE new == [hash |-> running, image |-> [v \in Offsets |-> NONE], crc |-> NONE]
  <2>1. new \in Files /\ new # NONE
    BY <1>5, RetainAssumption DEF InValidateCreate, Files, TypeOK
  <2>2. new.hash = running /\ new.crc = NONE
    OBVIOUS
  <2> HIDE DEF new
  <2>3. file' = [file EXCEPT ![rb_file] = new] \/ file' = file
    BY <1>5 DEF InValidateCreate, new
  <2>4. TypeOK'
    BY <1>5, <2>1, <2>3, NamesApart, RetainAssumption DEF InValidateCreate, TypeOK
  <2>5. Saving'
    <3>1. CASE retain_buffer' = "wb+" /\ file' = [file EXCEPT ![rb_file] = new]
      BY <1>5, <2>1, <2>2, <3>1, NamesApart DEF InValidateCreate, TypeOK, Saving
    <3>2. CASE retain_buffer' = "NULL" /\ file' = file
      BY <1>5, <3>2 DEF InValidateCreate, TypeOK, Saving
    <3>3. QED
      BY <1>5, <3>1, <3>2 DEF InValidateCreate, new
  <2>6. QED
    BY <2>4, <2>5
<1>6. CASE RetainOne
  <2>1. CASE file' = file
    BY <1>6, <2>1, RetainAssumption DEF RetainOne, TypeOK, Saving
  <2>2. CASE /\ retain_buffer = "wb+"
             /\ file' = [file EXCEPT ![rb_file].image[offset] = value[offset]]
    <3> DEFINE new == [file[rb_file] EXCEPT !.image[offset] = value[offset]]
    <3>1. offset \in Offsets /\ value[offset] \in Values
      BY <1>6, RetainAssumption DEF RetainOne, TypeOK, Offsets, Images
    <3>2. file[rb_file] \in Files
      BY <1>6, <2>2, NamesApart DEF RetainOne, TypeOK, Saving
    <3>3. new \in Files /\ new.hash = running /\ new.crc = NONE
      BY <1>6, <2>2, <3>1, <3>2 DEF RetainOne, Saving, Files
    <3>4. file' = [file EXCEPT ![rb_file] = new]
      BY <2>2
    <3> HIDE DEF new
    <3>5. new # NONE
      BY <3>3, RetainAssumption
    <3>6. TypeOK'
      BY <1>6, <3>3, <3>4, NamesApart, RetainAssumption DEF RetainOne, TypeOK
    <3>7. Saving'
      BY <1>6, <3>3, <3>4, <3>5, NamesApart DEF RetainOne, TypeOK, Saving
    <3>8. QED
      BY <3>6, <3>7
  <2>3. QED
    BY <1>6, <2>1, <2>2 DEF RetainOne
<1>7. CASE RetainDone
  BY <1>7 DEF RetainDone, TypeOK, Saving
<1>8. CASE Validate
  <2>1. CASE file' = file /\ cached' = cached
    BY <1>8, <2>1 DEF Validate, TypeOK, Saving
  <2>2. CASE /\ retain_buffer = "wb+"
             /\ file' = [file EXCEPT ![rb_file].crc = value]
             /\ cached' = cached \cup {rb_file}
    <3> DEFINE new == [file[rb_file] EXCEPT !.crc = value]
    <3>1. file[rb_file] \in Files
      BY <1>8, <2>2, NamesApart DEF Validate, TypeOK, Saving
    <3>2. new \in Files
      BY <3>1 DEF TypeOK, Files
    <3>3. file' = [file EXCEPT ![rb_file] = new]
      BY <2>2
    <3> HIDE DEF new
    <3>4. new # NONE
      BY <3>2, RetainAssumption
    <3>5. TypeOK'
      BY <1>8, <2>2, <3>2, <3>3, NamesApart DEF Validate, TypeOK
    <3>6. Saving'
      BY <1>8, <2>2, <3>3, <3>4, NamesApart DEF Validate, TypeOK, Saving
    <3>7. QED
      BY <3>5, <3>6
  <2>3. QED
    BY <1>8, <2>1, <2>2 DEF Validate
<1>9. CASE Stop
  BY <1>9, RetainAssumption DEF Stop, TypeOK, Saving
<1>10. CASE WriteBack
  BY <1>10 DEF WriteBack, TypeOK, Saving
<1>11. CASE PowerFailure
  <2>1. ASSUME NEW n \in cached PROVE [file[n] EXCEPT !.crc = NONE] \in Files
    BY <2>1 DEF TypeOK, Saving, Files
  <2>2. file' \in [Names -> Files \cup {NONE}]
    BY <1>11, <2>1 DEF PowerFailure, TypeOK
  <2>3. QED
    BY <1>11, <2>2, RetainAssumption DEF PowerFailure, TypeOK, Saving
<1>12. CASE UNCHANGED vars
  BY <1>12 DEF vars, TypeOK, Saving
<1>13. QED
  BY <1>1, <1>2, <1>3, <1>4, <1>5, <1>6, <1>7, <1>8, <1>9, <1>10, <1>11, <1>12 DEF Next

\* Every reachable state is well typed, and a save under way has no CRC.
THEOREM RetainInvariant == Spec => []RInv
<1>1. Init => RInv
  BY DefaultIsImage, RetainAssumption DEF Init, RInv, TypeOK, Saving, Names
<1>2. RInv /\ [Next]_vars => RInv'
  BY RetainInvariantStep
<1>3. QED
  BY <1>1, <1>2, PTL DEF Spec

\* Every reachable state is well typed.
THEOREM RetainTypeCorrect == Spec => []TypeOK
<1>1. RInv => TypeOK
  BY DEF RInv
<1>2. QED
  BY <1>1, RetainInvariant, PTL

----------------------------------------------------------------------------
(* The refinement.  What the files promise, as a function of them.          *)

StoredIn(files, p) ==
    IF Reminder(files, p) = NONE THEN NONE ELSE files[Reminder(files, p)].image

Flushed(files, unwritten, p) ==
    Reminder(files, p) # NONE /\ Reminder(files, p) \notin unwritten

SafeIn(files) ==
    IF files[rb_file] # NONE /\ CheckRetainFile(files[rb_file], files[rb_file].hash)
    THEN files[rb_file].hash ELSE NONE

LEMMA Mapping ==
  /\ stored = [p \in Programs |-> StoredIn(file, p)]
  /\ safe = SafeIn(file)
  /\ flushed = {p \in Programs : Flushed(file, cached, p)}
  BY DEF stored, safe, flushed, StoredIn, SafeIn, Flushed

LEMMA MappingNext ==
  /\ stored' = [p \in Programs |-> StoredIn(file', p)]
  /\ safe' = SafeIn(file')
  /\ flushed' = {p \in Programs : Flushed(file', cached', p)}
  BY DEF stored, safe, flushed, StoredIn, SafeIn, Flushed, Reminder, CheckRetainFile

\* Who passes the checks decides.
LEMMA StoredCases ==
  ASSUME NEW fs, NEW unwritten, NEW p
  PROVE  \/ /\ CheckRetainFile(fs[rb_file], p)
            /\ StoredIn(fs, p) = fs[rb_file].image
            /\ Flushed(fs, unwritten, p) <=> rb_file \notin unwritten
         \/ /\ ~CheckRetainFile(fs[rb_file], p) /\ CheckRetainFile(fs[rb_file_bckp], p)
            /\ StoredIn(fs, p) = fs[rb_file_bckp].image
            /\ Flushed(fs, unwritten, p) <=> rb_file_bckp \notin unwritten
         \/ /\ ~CheckRetainFile(fs[rb_file], p) /\ ~CheckRetainFile(fs[rb_file_bckp], p)
            /\ StoredIn(fs, p) = NONE /\ ~Flushed(fs, unwritten, p)
  BY ReminderCases, NamesApart DEF StoredIn, Flushed

LEMMA StoredType ==
  ASSUME NEW fs \in [Names -> Files \cup {NONE}], NEW p
  PROVE  /\ StoredIn(fs, p) \in Images \cup {NONE}
         /\ StoredIn(fs, p) = NONE <=> Reminder(fs, p) = NONE
  BY ReminderImage, RetainAssumption DEF StoredIn

LEMMA SafeIs ==
  ASSUME NEW fs \in [Names -> Files \cup {NONE}], NEW p \in Programs
  PROVE  SafeIn(fs) = p <=> CheckRetainFile(fs[rb_file], p)
  BY ValidFile, NamesApart, RetainAssumption DEF SafeIn, CheckRetainFile

\* Nothing that is promised depends on a main file that fails the checks.
LEMMA UnfinishedFile ==
  ASSUME TypeOK,
         \A p : ~CheckRetainFile(file[rb_file], p),
         \A p : ~CheckRetainFile(file'[rb_file], p),
         file'[rb_file_bckp] = file[rb_file_bckp],
         rb_file_bckp \in cached' <=> rb_file_bckp \in cached
  PROVE  stored' = stored /\ safe' = safe /\ flushed' = flushed
<1>1. ASSUME NEW p
      PROVE  /\ StoredIn(file', p) = StoredIn(file, p)
             /\ Flushed(file', cached', p) <=> Flushed(file, cached, p)
  <2>1. CheckRetainFile(file'[rb_file_bckp], p) <=> CheckRetainFile(file[rb_file_bckp], p)
    OBVIOUS
  <2>2. QED
    BY <2>1, StoredCases
<1>2. SafeIn(file) = NONE /\ SafeIn(file') = NONE
  BY DEF SafeIn
<1>3. QED
  BY <1>1, <1>2, Mapping, MappingNext

LEMMA SameFiles ==
  ASSUME file' = file, cached' = cached
  PROVE  stored' = stored /\ safe' = safe /\ flushed' = flushed
  BY DEF stored, safe, flushed, Reminder, CheckRetainFile

\* The initial files promise nothing.
LEMMA InitRetainStore == Init => Store!Init
<1> SUFFICES ASSUME Init PROVE Store!Init
  OBVIOUS
<1>1. ASSUME NEW p PROVE StoredIn(file, p) = NONE /\ ~Flushed(file, cached, p)
  BY StoredCases, NamesApart DEF Init, CheckRetainFile
<1>2. SafeIn(file) = NONE
  BY NamesApart DEF Init, SafeIn
<1>3. QED
  BY <1>1, <1>2, Mapping DEF Init, Store!Init

\* Each step of Retain is a step of RetainStore, or none.
LEMMA StepRetainStore == RInv /\ [Next]_vars => [Store!Next]_(Store!storeVars)
<1> SUFFICES ASSUME RInv, [Next]_vars PROVE [Store!Next]_(Store!storeVars)
  OBVIOUS
<1>0. TypeOK /\ Saving
  BY DEF RInv
<1>00. TypeOK'
  BY RetainInvariantStep DEF RInv
<1> DEFINE Same == stored' = stored /\ safe' = safe /\ flushed' = flushed
<1>a. ASSUME Same, UNCHANGED <<running, value>> PROVE UNCHANGED Store!storeVars
  BY <1>a DEF Store!storeVars
<1> USE DEF Store!Next
<1>1. ASSUME NEW p \in Programs, Start(p) PROVE Store!Next
  <2>1. Same
    BY <1>1, SameFiles DEF Start
  <2>2. running = NONE /\ stored[p] = StoredIn(file, p)
    BY <1>0, <1>1, Mapping DEF Start, TypeOK
  <2>3. value' = IF stored[p] = NONE THEN Default ELSE stored[p]
    BY <1>0, <1>1, <2>2, StoredType DEF Start, StoredIn, TypeOK
  <2>4. Store!Start(p)
    BY <1>1, <2>1, <2>2, <2>3 DEF Start, Store!Start
  <2>5. QED
    BY <2>4
<1>2. CASE Cycle
  <2>1. Same
    BY <1>2, SameFiles DEF Cycle
  <2>2. Store!Cycle
    BY <1>0, <1>2, <2>1 DEF Cycle, Store!Cycle, TypeOK
  <2>3. QED
    BY <2>2
<1>3. CASE SaveNotNeeded
  BY <1>3, <1>a, SameFiles DEF SaveNotNeeded
<1>4. CASE InValidateRename
  <2>1. running # NONE /\ UNCHANGED <<running, value>>
    BY <1>0, <1>4 DEF InValidateRename, TypeOK
  <2>2. file' = Renamed(file)
    BY <1>4 DEF InValidateRename
  <2>3. file'[rb_file] = NONE
    BY <1>0, <2>2, NamesApart DEF Renamed, TypeOK
  <2>4. \A p : ~CheckRetainFile(file'[rb_file], p)
    BY <2>3 DEF CheckRetainFile
  <2>5. safe' = NONE
    BY <2>3, MappingNext DEF SafeIn
  <2>6. ASSUME NEW p \in Programs
        PROVE  /\ \/ StoredIn(file', p) = StoredIn(file, p)
                  \/ StoredIn(file', p) = NONE /\ p # safe
               /\ Flushed(file', cached', p) <=>
                      Flushed(file, cached, p) /\ StoredIn(file', p) # NONE
    <3>1. CASE file[rb_file] = NONE
      <4>1. file' = file /\ cached' = cached
        BY <1>4, <3>1 DEF InValidateRename, Renamed
      <4>2. Flushed(file, cached, p) => StoredIn(file, p) # NONE
        BY <1>0, StoredType DEF Flushed, TypeOK
      <4>3. QED
        BY <4>1, <4>2
    <3>2. CASE file[rb_file] # NONE
      <4>1. file'[rb_file_bckp] = file[rb_file]
        BY <1>0, <2>2, <3>2, NamesApart DEF Renamed, TypeOK
      <4>2. rb_file_bckp \in cached' <=> rb_file \in cached
        BY <1>4, <3>2 DEF InValidateRename
      <4>3. p # safe \/ CheckRetainFile(file[rb_file], p)
        BY <1>0, SafeIs, Mapping DEF TypeOK
      <4>4. StoredIn(file', p) = NONE <=> Reminder(file', p) = NONE
        BY <1>00, StoredType DEF TypeOK
      <4>5. CASE CheckRetainFile(file[rb_file], p)
        <5>1. CheckRetainFile(file'[rb_file_bckp], p)
          BY <4>1, <4>5
        <5>2. /\ StoredIn(file', p) = file'[rb_file_bckp].image
              /\ Flushed(file', cached', p) <=> rb_file_bckp \notin cached'
              /\ StoredIn(file, p) = file[rb_file].image
              /\ Flushed(file, cached, p) <=> rb_file \notin cached
          BY <2>4, <4>5, <5>1, StoredCases
        <5>3. StoredIn(file', p) # NONE
          BY <2>4, <4>4, <5>1, ReminderCases, NamesApart
        <5>4. QED
          BY <4>1, <4>2, <5>2, <5>3
      <4>6. CASE ~CheckRetainFile(file[rb_file], p)
        <5>1. ~CheckRetainFile(file'[rb_file_bckp], p)
          BY <4>1, <4>6
        <5>2. StoredIn(file', p) = NONE /\ ~Flushed(file', cached', p)
          BY <2>4, <5>1, StoredCases
        <5>3. QED
          BY <4>3, <4>6, <5>2
      <4>7. QED
        BY <4>5, <4>6
    <3>3. QED
      BY <3>1, <3>2
  <2>7. stored' \in [Programs -> Images \cup {NONE}]
    BY <1>00, MappingNext, StoredType DEF TypeOK
  <2>8. \A p \in Programs : stored'[p] = stored[p] \/ (stored'[p] = NONE /\ p # safe)
    BY <2>6, Mapping, MappingNext
  <2>9. flushed' = {p \in flushed : stored'[p] # NONE}
    BY <2>6, Mapping, MappingNext
  <2>10. Store!BeginSave
    BY <2>1, <2>5, <2>7, <2>8, <2>9 DEF Store!BeginSave
  <2>11. QED
    BY <2>10
<1>5. CASE InValidateCreate
  <2>1. \A p : ~CheckRetainFile(file[rb_file], p)
    BY <1>0, <1>5 DEF InValidateCreate, Saving, CheckRetainFile
  <2>2. file'[rb_file_bckp] = file[rb_file_bckp] /\ cached' = cached
    BY <1>0, <1>5, NamesApart DEF InValidateCreate, TypeOK
  <2>3. \A p : ~CheckRetainFile(file'[rb_file], p)
    <3>1. CASE file' = file
      BY <2>1, <3>1
    <3>2. CASE file' # file
      <4>1. file'[rb_file].crc = NONE
        BY <1>0, <1>5, <3>2, NamesApart DEF InValidateCreate, TypeOK
      <4>2. QED
        BY <4>1 DEF CheckRetainFile
    <3>3. QED
      BY <3>1, <3>2
  <2>4. Same
    BY <1>0, <2>1, <2>2, <2>3, UnfinishedFile
  <2>5. QED
    BY <1>5, <1>a, <2>4 DEF InValidateCreate
<1>6. CASE RetainOne
  <2>1. CASE file' = file
    BY <1>6, <1>a, <2>1, SameFiles DEF RetainOne
  <2>2. CASE file' # file
    <3>1. /\ file[rb_file].crc = NONE /\ file[rb_file] # NONE
          /\ file' = [file EXCEPT ![rb_file].image[offset] = value[offset]]
      BY <1>0, <1>6, <2>2 DEF RetainOne, Saving
    <3>2. file[rb_file] \in Files
      BY <1>0, <3>1, NamesApart DEF TypeOK
    <3>3. file'[rb_file].crc = NONE /\ file'[rb_file_bckp] = file[rb_file_bckp]
      BY <1>0, <3>1, <3>2, NamesApart DEF TypeOK, Files
    <3>4. \A p : ~CheckRetainFile(file[rb_file], p) /\ ~CheckRetainFile(file'[rb_file], p)
      BY <3>1, <3>3 DEF CheckRetainFile
    <3>5. Same
      BY <1>0, <1>6, <3>3, <3>4, UnfinishedFile DEF RetainOne
    <3>6. QED
      BY <1>6, <1>a, <3>5 DEF RetainOne
  <2>3. QED
    BY <2>1, <2>2
<1>7. CASE RetainDone
  BY <1>7, <1>a, SameFiles DEF RetainDone
<1>8. CASE Validate
  <2>1. CASE file' = file /\ cached' = cached
    BY <1>8, <1>a, <2>1, SameFiles DEF Validate
  <2>2. CASE /\ retain_buffer = "wb+"
             /\ file' = [file EXCEPT ![rb_file].crc = value]
             /\ cached' = cached \cup {rb_file}
    <3>1. running \in Programs /\ UNCHANGED <<running, value>>
      BY <1>0, <1>8 DEF Validate, TypeOK
    <3>2. /\ file[rb_file] \in Files /\ file[rb_file].hash = running
          /\ file[rb_file].crc = NONE
      BY <1>0, <1>8, <2>2, NamesApart DEF Validate, TypeOK, Saving
    <3>3. /\ file'[rb_file_bckp] = file[rb_file_bckp]
          /\ file'[rb_file].crc = value
          /\ file'[rb_file].hash = running
          /\ file'[rb_file].image = file[rb_file].image
      BY <1>0, <2>2, <3>2, NamesApart DEF TypeOK, Files
    <3>4. \A p : ~CheckRetainFile(file[rb_file], p)
      BY <3>2 DEF CheckRetainFile
    <3>5. rb_file_bckp \in cached' <=> rb_file_bckp \in cached
      BY <2>2, NamesApart
    <3>6. CASE file[rb_file].image = value
      <4>1. value # NONE
        BY <1>0, RetainAssumption DEF TypeOK
      <4>2. file'[rb_file] # NONE
        <5>1. [file[rb_file] EXCEPT !.crc = value] \in Files
          BY <1>0, <3>2 DEF Files, TypeOK
        <5>2. file'[rb_file] = [file[rb_file] EXCEPT !.crc = value]
          BY <1>0, <2>2, NamesApart DEF TypeOK
        <5>3. QED
          BY <5>1, <5>2, RetainAssumption
      <4>3. CheckRetainFile(file'[rb_file], running)
        BY <3>3, <3>6, <4>1, <4>2 DEF CheckRetainFile
      <4>4. \A p : p # running => ~CheckRetainFile(file'[rb_file], p)
        BY <3>3 DEF CheckRetainFile
      <4>5. StoredIn(file', running) = value /\ ~Flushed(file', cached', running)
        BY <2>2, <3>3, <3>6, <4>3, StoredCases
      <4>6. ASSUME NEW p \in Programs, p # running
            PROVE  /\ StoredIn(file', p) = StoredIn(file, p)
                   /\ Flushed(file', cached', p) <=> Flushed(file, cached, p)
        <5>1. ~CheckRetainFile(file'[rb_file], p)
          BY <4>4, <4>6
        <5>2. CheckRetainFile(file'[rb_file_bckp], p)
                  <=> CheckRetainFile(file[rb_file_bckp], p)
          BY <3>3
        <5>3. QED
          BY <3>3, <3>4, <3>5, <5>1, <5>2, StoredCases
      <4>7. stored' = [stored EXCEPT ![running] = value]
        BY <3>1, <4>5, <4>6, Mapping, MappingNext
      <4>8. flushed' = flushed \ {running}
        BY <3>1, <4>5, <4>6, Mapping, MappingNext
      <4>9. safe' = running
        BY <1>00, <3>1, <4>3, SafeIs, MappingNext DEF TypeOK
      <4>10. Store!EndSave
        BY <3>1, <4>7, <4>8, <4>9, RetainAssumption DEF Store!EndSave
      <4>11. QED
        BY <4>10
    <3>7. CASE file[rb_file].image # value
      <4>1. \A p : ~CheckRetainFile(file'[rb_file], p)
        BY <3>3, <3>7 DEF CheckRetainFile
      <4>2. Same
        BY <1>0, <3>3, <3>4, <3>5, <4>1, UnfinishedFile
      <4>3. QED
        BY <1>a, <3>1, <4>2
    <3>8. QED
      BY <3>6, <3>7
  <2>3. QED
    BY <1>8, <2>1, <2>2 DEF Validate
<1>9. CASE Stop
  <2>1. Same
    BY <1>9, SameFiles DEF Stop
  <2>2. Store!Stop
    BY <1>0, <1>9, <2>1 DEF Stop, Store!Stop, TypeOK
  <2>3. QED
    BY <2>2
<1>10. CASE WriteBack
  <2>1. file' = file /\ cached' \subseteq cached
    BY <1>10 DEF WriteBack
  <2>2. stored' = stored /\ safe' = safe
    BY <2>1, Mapping, MappingNext
  <2>3. flushed \subseteq flushed'
    BY <2>1, Mapping, MappingNext DEF Flushed
  <2>4. \A p \in flushed' : p \in Programs /\ stored[p] # NONE
    BY <1>0, <2>1, Mapping, MappingNext, StoredType DEF Flushed, TypeOK
  <2>5. Store!WriteBack
    BY <1>10, <2>2, <2>3, <2>4 DEF WriteBack, Store!WriteBack
  <2>6. QED
    BY <2>5
<1>11. CASE PowerFailure
  <2>1. PICK lost \in SUBSET cached :
            file' = [n \in Names |-> IF n \in lost THEN [file[n] EXCEPT !.crc = NONE]
                                     ELSE file[n]]
    BY <1>11 DEF PowerFailure
  <2>2. ASSUME NEW n \in lost PROVE file'[n].crc = NONE
    <3>1. n \in Names /\ file[n] \in Files
      BY <1>0, <2>1, <2>2 DEF TypeOK, Saving
    <3>2. QED
      BY <2>1, <2>2, <3>1 DEF Files
  <2>3. ASSUME NEW n \in Names, n \notin lost PROVE file'[n] = file[n]
    BY <2>1, <2>3
  <2>4. ASSUME NEW n \in Names, NEW p, CheckRetainFile(file'[n], p)
        PROVE  n \notin lost /\ CheckRetainFile(file[n], p)
    BY <2>2, <2>3, <2>4 DEF CheckRetainFile
  <2>5. ASSUME NEW p \in flushed PROVE stored'[p] = stored[p]
    <3>1. p \in Programs /\ Flushed(file, cached, p)
      BY <2>5, Mapping
    <3>2. CASE CheckRetainFile(file[rb_file], p)
      <4>1. rb_file \notin lost /\ StoredIn(file, p) = file[rb_file].image
        BY <2>1, <3>1, <3>2, StoredCases
      <4>2. file'[rb_file] = file[rb_file]
        BY <2>3, <4>1, NamesApart
      <4>3. StoredIn(file', p) = file'[rb_file].image
        BY <3>2, <4>2, StoredCases
      <4>4. QED
        BY <3>1, <4>1, <4>2, <4>3, Mapping, MappingNext
    <3>3. CASE ~CheckRetainFile(file[rb_file], p)
      <4>1. /\ CheckRetainFile(file[rb_file_bckp], p)
            /\ rb_file_bckp \notin lost /\ StoredIn(file, p) = file[rb_file_bckp].image
        BY <2>1, <3>1, <3>3, StoredCases
      <4>2. file'[rb_file_bckp] = file[rb_file_bckp]
        BY <2>3, <4>1, NamesApart
      <4>3. ~CheckRetainFile(file'[rb_file], p)
        BY <2>4, <3>3, NamesApart
      <4>4. StoredIn(file', p) = file'[rb_file_bckp].image
        BY <4>1, <4>2, <4>3, StoredCases
      <4>5. QED
        BY <3>1, <4>1, <4>2, <4>4, Mapping, MappingNext
    <3>4. QED
      BY <3>2, <3>3
  <2>6. stored' \in [Programs -> Images \cup {NONE}]
    BY <1>00, MappingNext, StoredType DEF TypeOK
  <2>7. safe' \in {safe, NONE}
    <3>1. CASE rb_file \in lost
      BY <2>2, <3>1, MappingNext DEF SafeIn, CheckRetainFile
    <3>2. CASE rb_file \notin lost
      BY <2>3, <3>2, NamesApart, Mapping, MappingNext DEF SafeIn
    <3>3. QED
      BY <3>1, <3>2
  <2>8. flushed' = {p \in Programs : stored'[p] # NONE}
    <3>1. \A p : Flushed(file', cached', p) <=> StoredIn(file', p) # NONE
      BY <1>00, <1>11, StoredType DEF PowerFailure, Flushed, TypeOK
    <3>2. QED
      BY <3>1, MappingNext
  <2>9. Store!PowerFailure
    BY <1>11, <2>5, <2>6, <2>7, <2>8 DEF PowerFailure, Store!PowerFailure
  <2>10. QED
    BY <2>9
<1>12. CASE UNCHANGED vars
  BY <1>12, <1>a, SameFiles DEF vars
<1>13. QED
  BY <1>1, <1>2, <1>3, <1>4, <1>5, <1>6, <1>7, <1>8, <1>9, <1>10, <1>11, <1>12 DEF Next

\* The two files implement the abstract store: retain variables are lost in the ways that
\* it lists, and in no other, whichever programs run and wherever they are stopped.
THEOREM RetainImplementsRetainStore == Spec => ImplementsRetainStore
<1>1. Init => Store!Init
  BY InitRetainStore
<1>2. RInv /\ [Next]_vars => [Store!Next]_(Store!storeVars)
  BY StepRetainStore
<1>3. QED
  BY <1>1, <1>2, RetainInvariant, PTL DEF Spec, Store!Spec, ImplementsRetainStore
=============================================================================
