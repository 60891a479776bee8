---------------------------- MODULE LfsSettings ----------------------------
(***************************************************************************)
(* The settings store of src/src/common/flash_littlefs.c: the buffer of    *)
(* records in a littlefs file, built with OT_PLAT_SAVE_NVM_DATA_ON_IDLE.   *)
(* A call of OpenThread holds the mutex and is one action.  The idle task, *)
(* which OpenThread's task preempts anywhere, copies the buffer under the  *)
(* mutex and writes the copy without it.  Unlike flash_fsa.c, this store   *)
(* can be shut down, and a write of the file may fail.                     *)
(***************************************************************************)
EXTENDS TlvRecords

VARIABLES
  lfBuf,     \* otSettingsBuffer
  lfSave,    \* ot_settings_to_save_in_flash
  lfFile,    \* the file ot_settings; no records if it is missing
  lfPc,      \* where the idle task is
  lfCopy,    \* otSettingsBufferIdle
  lfReady,   \* isInitialized: the file system is mounted
  lfFailed   \* history: the last save failed, or the store was shut down or
             \* started again between its copy and its write

lfVars == <<lfBuf, lfSave, lfFile, lfPc, lfCopy, lfReady, lfFailed>>

LfsInit ==
  /\ lfBuf = << >> /\ lfFile = << >> /\ lfCopy = << >>
  /\ lfPc = "test"
  /\ lfSave = FALSE /\ lfReady = FALSE /\ lfFailed = FALSE

\* otPlatSettingsInit: the flag and the idle task's copy are left as they are.
LfsSettingsInit ==
  /\ ~lfReady
  /\ lfReady' = TRUE
  /\ lfBuf' = lfFile
  /\ lfFailed' = (lfFailed \/ lfPc = "write")
  /\ UNCHANGED <<lfSave, lfFile, lfPc, lfCopy>>

LfsSettingsDeinit ==
  /\ lfReady
  /\ lfReady' = FALSE
  /\ lfFailed' = (lfFailed \/ lfPc = "write")
  /\ UNCHANGED <<lfBuf, lfSave, lfFile, lfPc, lfCopy>>

LfsUpdate(b) ==
  /\ lfReady
  /\ lfBuf' = b /\ lfSave' = TRUE
  /\ UNCHANGED <<lfFile, lfPc, lfCopy, lfReady, lfFailed>>

LfsAdd(k, v) == AddFits(lfBuf, v) /\ LfsUpdate(Added(lfBuf, k, v))

LfsSet(k, v) == SetFits(lfBuf, k, v) /\ LfsUpdate(WithSet(lfBuf, k, v))

LfsDelete(k, i) == Has(lfBuf, k) /\ LfsUpdate(Without(lfBuf, k, i))

LfsWipe == LfsUpdate(<< >>)

-----------------------------------------------------------------------------
(* otPlatSaveSettingsIdle.                                                 *)

LfsIdleTest ==
  /\ lfPc = "test" /\ lfSave
  /\ lfSave' = FALSE /\ lfPc' = "copy"
  /\ UNCHANGED <<lfBuf, lfFile, lfCopy, lfReady, lfFailed>>

LfsIdleCopy ==
  /\ lfPc = "copy"
  /\ lfCopy' = lfBuf /\ lfPc' = "write"
  /\ lfFailed' = FALSE
  /\ UNCHANGED <<lfBuf, lfSave, lfFile, lfReady>>

\* Mutant: the flag is cleared when the file has been written.
LfsIdleClearsLast(ok) ==
  /\ lfPc = "write" /\ lfPc' = "test"
  /\ ok => lfReady
  /\ lfSave' = FALSE
  /\ IF ok THEN lfFile' = lfCopy ELSE UNCHANGED lfFile
  /\ lfFailed' = (lfFailed \/ ~ok)
  /\ UNCHANGED <<lfBuf, lfCopy, lfReady>>

\* FS_WriteBufferToFile, or FS_DeleteFile for an empty buffer; the result is
\* not looked at.  Without the file system mounted it fails.
LfsIdleWrite(ok) ==
  /\ lfPc = "write" /\ lfPc' = "test"
  /\ ok => lfReady
  /\ IF ok THEN lfFile' = lfCopy ELSE UNCHANGED lfFile
  /\ lfFailed' = (lfFailed \/ ~ok)
  /\ UNCHANGED <<lfBuf, lfSave, lfCopy, lfReady>>

LfsNext ==
  \/ LfsSettingsInit \/ LfsSettingsDeinit \/ LfsWipe
  \/ \E k \in Key, v \in Value : LfsAdd(k, v) \/ LfsSet(k, v)
  \/ \E k \in Key, i \in -1 .. 1 : LfsDelete(k, i)
  \/ LfsIdleTest \/ LfsIdleCopy \/ \E ok \in BOOLEAN : LfsIdleWrite(ok)

-----------------------------------------------------------------------------
\* With the idle task at rest and no save asked for, the file has every call,
\* unless the last save failed (its result is not looked at) or the store was
\* shut down under it: the next save makes good for a save that failed.
LfsUpToDate ==
  lfReady /\ ~lfSave /\ lfPc = "test" /\ ~lfFailed => lfFile = lfBuf
=============================================================================
