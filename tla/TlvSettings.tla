---------------------------- MODULE TlvSettings ----------------------------
(***************************************************************************)
(* The settings store of src/src/common/flash_fsa.c: OpenThread's settings *)
(* as one RAM buffer of tag-length-value records, saved by the idle task.  *)
(* flash_littlefs.c is the same code on another file system; LfsSettings   *)
(* has it, NvmSettings and NbuSystem the copies of it that hand the        *)
(* buffer to the NVM module.                                               *)
(*                                                                         *)
(* The idle task runs only while the OpenThread task is blocked, and the   *)
(* OpenThread task preempts it anywhere: a settings call is one action,    *)
(* the idle task makes one step per access.                                *)
(***************************************************************************)
EXTENDS TlvRecords

CONSTANTS
  MaxIndex,  \* bound: the largest index OpenThread passes to Delete
  NoSnap     \* no version is being saved (see SettingsStore)

ASSUME SettingsAssumption ==
  /\ Value \subseteq Nat \ {0}
  /\ Header \in Nat \ {0} /\ BufSize \in Nat
  /\ MaxIndex \in Nat
  /\ NoSnap \notin [Key -> Seq(Value)]

VARIABLES
  buffer,     \* otSettingsBuffer: its records up to recordLen
  saveFlag,   \* ot_settings_to_save_in_flash
  file,       \* the records in the file ot_settings; none if it is missing
  ipc,        \* where the idle task is in otPlatSaveSettingsIdle
  idleLen,    \* otSettingsBufferIdle.recordLen
  idleBuf,    \* otSettingsBufferIdle.buffer
  mutex,      \* is mFlashLittleFSMutexId held by the idle task?
  resetReq,   \* system_reset_request
  irqOff      \* interrupts disabled by otPlatResetIdle

idleVars == <<ipc, idleLen, idleBuf, mutex, irqOff>>
vars == <<buffer, saveFlag, file, idleVars, resetReq>>

\* An index counts the records of a key from 0; -1 stands for all of them.
Index == -1 .. MaxIndex

Init ==
  /\ buffer = << >> /\ file = << >>
  /\ saveFlag = FALSE /\ resetReq = FALSE
  /\ ipc = "test" /\ idleLen = 0 /\ idleBuf = << >> /\ mutex = FALSE
  /\ irqOff = FALSE

-----------------------------------------------------------------------------
(* Room in the buffer.                                                     *)

Free == BufSize - RecordLen(buffer)

-----------------------------------------------------------------------------
(* otPlatSettings calls, made by the OpenThread task, which waits for the  *)
(* mutex and does not run while interrupts are off.                        *)

\* The call ends with b in the buffer and asks for a save.
Update(b) ==
  /\ ~mutex /\ ~irqOff
  /\ buffer' = b
  /\ saveFlag' = TRUE
  /\ UNCHANGED <<file, idleVars, resetReq>>

\* Mutant: a record is always added at the end.
AddAtEnd(k, v) ==
  /\ Free >= Size(v)
  /\ Update(Append(buffer, [key |-> k, val |-> v]))

\* Mutant: the header of the new record is not counted.
AddHeaderless(k, v) ==
  /\ Free >= v
  /\ Update(IF Has(buffer, k)
              THEN InsertAt(buffer, RunEnd(buffer, k), [key |-> k, val |-> v])
              ELSE Append(buffer, [key |-> k, val |-> v]))

\* Add: after the other records of the key, if there is room.
Add(k, v) ==
  /\ Free >= Size(v)
  /\ Update(IF Has(buffer, k)
              THEN InsertAt(buffer, RunEnd(buffer, k), [key |-> k, val |-> v])
              ELSE Append(buffer, [key |-> k, val |-> v]))

\* Set: in place of the last record of the key, whose bytes count as free.
Set(k, v) ==
  IF Has(buffer, k)
    THEN LET last == RunEnd(buffer, k) - 1
         IN  /\ Free + Size(buffer[last].val) >= Size(v)
             /\ Update([buffer EXCEPT ![last].val = v])
    ELSE Free >= Size(v) /\ Update(Append(buffer, [key |-> k, val |-> v]))

\* Mutant: the record after the run goes too.
DeleteTooMuch(k, i) ==
  /\ Has(buffer, k)
  /\ Update(SubSeq(buffer, 1, First(buffer, k) - 1)
             \o SubSeq(buffer, RunEnd(buffer, k) + 1, Len(buffer)))

\* Delete: the record of that index; the whole run if the scan meets no such.
Delete(k, i) ==
  /\ Has(buffer, k)
  /\ LET from == First(buffer, k)
         end == RunEnd(buffer, k)
     IN  IF from + i \in from .. end - 1
           THEN Update(RemoveAt(buffer, from + i))
           ELSE Update(SubSeq(buffer, 1, from - 1) \o SubSeq(buffer, end, Len(buffer)))

\* Mutant: the save is forgotten.
WipeUnsaved ==
  /\ ~mutex /\ ~irqOff
  /\ buffer' = << >>
  /\ UNCHANGED <<saveFlag, file, idleVars, resetReq>>

Wipe == Update(<< >>)

\* otPlatReset only leaves a request for the idle task.
Reset ==
  /\ ~irqOff
  /\ resetReq' = TRUE
  /\ UNCHANGED <<buffer, saveFlag, file, idleVars>>

-----------------------------------------------------------------------------
(* otSysRunIdleTask: otPlatSaveSettingsIdle, then otPlatResetIdle, which   *)
(* disables interrupts and saves once more before it resets.               *)

Goes(pc) == ipc' = pc

\* Where the idle task is once a save is done, or there was none to do.
Saved == IF irqOff THEN "boot" ELSE "reset"

IdleTest ==
  /\ ipc = "test"
  /\ Goes(IF saveFlag THEN "clear" ELSE Saved)
  /\ UNCHANGED <<buffer, saveFlag, file, idleLen, idleBuf, mutex, irqOff, resetReq>>

IdleClear ==
  /\ ipc = "clear"
  /\ saveFlag' = FALSE
  /\ Goes("lock")
  /\ UNCHANGED <<buffer, file, idleLen, idleBuf, mutex, irqOff, resetReq>>

IdleLock ==
  /\ ipc = "lock"
  /\ mutex' = TRUE
  /\ Goes("len")
  /\ UNCHANGED <<buffer, saveFlag, file, idleLen, idleBuf, irqOff, resetReq>>

IdleLen ==
  /\ ipc = "len"
  /\ idleLen' = Len(buffer)
  /\ Goes("bytes")
  /\ UNCHANGED <<buffer, saveFlag, file, idleBuf, mutex, irqOff, resetReq>>

\* memcpy of recordLen bytes over what an earlier copy left; then the unlock.
IdleBytes ==
  /\ ipc = "bytes"
  /\ idleBuf' = buffer \o SubSeq(idleBuf, Len(buffer) + 1, Len(idleBuf))
  /\ mutex' = FALSE
  /\ Goes("write")
  /\ UNCHANGED <<buffer, saveFlag, file, idleLen, irqOff, resetReq>>

\* Mutant: the flag is cleared when the file has been written.
IdleWriteClears ==
  /\ ipc = "write"
  /\ file' = SubSeq(idleBuf, 1, idleLen)
  /\ saveFlag' = FALSE
  /\ Goes(Saved)
  /\ UNCHANGED <<buffer, idleLen, idleBuf, mutex, irqOff, resetReq>>

\* FSA_WriteBufferToFile, or FSA_DeleteFile for an empty buffer.
IdleWrite ==
  /\ ipc = "write"
  /\ file' = SubSeq(idleBuf, 1, idleLen)
  /\ Goes(Saved)
  /\ UNCHANGED <<buffer, saveFlag, idleLen, idleBuf, mutex, irqOff, resetReq>>

\* Mutant: the reset does not save again.
IdleResetUnsaved ==
  /\ ipc = "reset"
  /\ irqOff' = resetReq
  /\ Goes(IF resetReq THEN "boot" ELSE "test")
  /\ UNCHANGED <<buffer, saveFlag, file, idleLen, idleBuf, mutex, resetReq>>

IdleReset ==
  /\ ipc = "reset"
  /\ irqOff' = resetReq
  /\ Goes("test")
  /\ UNCHANGED <<buffer, saveFlag, file, idleLen, idleBuf, mutex, resetReq>>

\* otPlatSettingsInit after a reset: the buffer is loaded from the file.
Restart ==
  /\ buffer' = file
  /\ saveFlag' = FALSE /\ resetReq' = FALSE
  /\ ipc' = "test" /\ idleLen' = 0 /\ idleBuf' = << >> /\ mutex' = FALSE
  /\ irqOff' = FALSE
  /\ UNCHANGED file

\* The system reset that otPlatResetIdle ends with.
SystemReset == ipc = "boot" /\ Restart

\* Power is lost: a write to the file happens entirely or not at all.
PowerLoss == Restart

-----------------------------------------------------------------------------
OtCall ==
  \/ \E k \in Key, v \in Value : Add(k, v) \/ Set(k, v)
  \/ \E k \in Key, i \in Index : Delete(k, i)
  \/ Wipe
  \/ Reset

IdleStep ==
  \/ IdleTest \/ IdleClear \/ IdleLock \/ IdleLen \/ IdleBytes \/ IdleWrite
  \/ IdleReset \/ SystemReset

Next == OtCall \/ IdleStep \/ PowerLoss

\* The OpenThread task always blocks again, so the idle task always runs.
Spec == Init /\ [][Next]_vars /\ WF_vars(IdleStep)

-----------------------------------------------------------------------------
TypeOK ==
  /\ {buffer, file, idleBuf} \subseteq Seq(Record)
  /\ {saveFlag, mutex, resetReq, irqOff} \subseteq BOOLEAN
  /\ ipc \in {"test", "clear", "lock", "len", "bytes", "write", "reset", "boot"}
  /\ idleLen \in 0 .. BufSize

\* The records always fit the buffer, and the file the buffer it is loaded into:
\* the tests for room in Add and Set are exact, with the bytes of the record that
\* Set replaces counted as free, and what the idle task writes is one version.
RecordsFit == RecordLen(buffer) <= BufSize /\ RecordLen(file) <= BufSize

Adjacent(b) ==
  \A i, j \in DOMAIN b : b[i].key = b[j].key => \A l \in i .. j : b[l].key = b[i].key

\* The records of a key are adjacent, in the buffer and in the file: the scans
\* of Add, Set and Delete stop at the first other tag after a match, and would
\* miss a record that is elsewhere.
KeysAdjacent == Adjacent(buffer) /\ Adjacent(file)

\* Both: what the moves of memory in Add, Set and Delete must leave behind.
RecordsSound == KeysAdjacent /\ RecordsFit

\* No update is left out of the file: whenever no save is asked for and the
\* idle task is not in the middle of one, file and buffer agree; the flag is
\* cleared first "so there could be an other write".
UpToDate ==
  ~saveFlag /\ ipc \in {"test", "reset", "boot"} => file = buffer

\* What makes UpToDate inductive: how far the copy in hand agrees.
SaveInv ==
  /\ UpToDate
  /\ mutex <=> ipc \in {"len", "bytes"}
  /\ ipc = "bytes" => idleLen = Len(buffer)
  /\ ipc = "write" /\ ~saveFlag => SubSeq(idleBuf, 1, idleLen) = buffer
  /\ ipc = "boot" => irqOff
  /\ irqOff => ipc # "reset" /\ (saveFlag => ipc \in {"test", "clear"})

\* A reset that OpenThread asked for loses nothing: the settings after it are
\* those of the last call before it ("make sure FS content is consistent
\* before reset"), unlike a power loss.
ResetKeeps == [][SystemReset => buffer' = buffer]_vars

\* The buffer is a store of lists of values, the file a complete version of it:
\* the values of a key are those of its records, in the order of their positions.
Positions(b, k) == {i \in DOMAIN b : b[i].key = k}

NthOf(b, k, n) ==
  CHOOSE i \in Positions(b, k) : Cardinality({j \in Positions(b, k) : j <= i}) = n

ValuesOf(b) ==
  [k \in Key |-> [n \in 1 .. Cardinality(Positions(b, k)) |-> b[NthOf(b, k, n)].val]]

Store == INSTANCE SettingsStore WITH
  mem <- ValuesOf(buffer), disk <- ValuesOf(file),
  snap <- IF ipc = "write" THEN ValuesOf(SubSeq(idleBuf, 1, idleLen)) ELSE NoSnap

ImplementsStore == Store!Spec

\* Once OpenThread leaves its settings alone, they reach the file.
EventuallySaved == <>[][~OtCall]_vars => <>[](file = buffer)
=============================================================================
