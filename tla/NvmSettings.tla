---------------------------- MODULE NvmSettings ----------------------------
(***************************************************************************)
(* The settings store of src/src/common/flash_nvm.c: the buffer of records *)
(* is registered with the NVM module, which mirrors it in flash.  Every    *)
(* call, and the idle task's save, holds mFlashRamBufferMutexId to its     *)
(* end, so each is one action.                                             *)
(***************************************************************************)
EXTENDS TlvRecords

VARIABLES
  nvOnIdle,  \* OT_PLAT_SAVE_NVM_DATA_ON_IDLE, a build option
  nvBuf,     \* otSettingsBuffer
  nvDirty,   \* NVM module: a save was asked for with NvSaveOnIdle
  nvFlash,   \* NVM module: the data set in flash
  nvReady,   \* isInitialized
  nvErased   \* history: what the last wipe took out, and was not stored again

nvVars == <<nvOnIdle, nvBuf, nvDirty, nvFlash, nvReady, nvErased>>

NvmInit ==
  /\ nvOnIdle \in BOOLEAN
  /\ nvBuf = << >> /\ nvFlash = << >> /\ nvErased = {}
  /\ nvDirty = FALSE /\ nvReady = FALSE

\* NvModuleInit and NvRestoreDataSet: lengths and records as they were saved.
NvmSettingsInit ==
  /\ ~nvReady
  /\ nvReady' = TRUE
  /\ nvBuf' = nvFlash
  /\ UNCHANGED <<nvOnIdle, nvDirty, nvFlash, nvErased>>

\* The call ends with b in the buffer: NvSaveOnIdle, or NvSyncSave at once.
NvmSave(b) ==
  /\ nvReady
  /\ nvBuf' = b
  /\ IF nvOnIdle THEN nvDirty' = TRUE /\ UNCHANGED nvFlash
                 ELSE nvFlash' = b /\ UNCHANGED nvDirty
  /\ nvErased' = nvErased \ Range(b)
  /\ UNCHANGED <<nvOnIdle, nvReady>>

NvmAdd(k, v) == AddFits(nvBuf, v) /\ NvmSave(Added(nvBuf, k, v))

NvmSet(k, v) == SetFits(nvBuf, k, v) /\ NvmSave(WithSet(nvBuf, k, v))

NvmDelete(k, i) == Has(nvBuf, k) /\ NvmSave(Without(nvBuf, k, i))

\* Mutant: the wipe is left to the idle task.
NvmWipeLater ==
  /\ nvReady
  /\ nvBuf' = << >> /\ nvDirty' = TRUE
  /\ nvErased' = Range(nvBuf) \cup Range(nvFlash)
  /\ UNCHANGED <<nvOnIdle, nvReady, nvFlash>>

\* The only call that waits for the flash whatever the build: NvShutdown
\* writes what NvSaveOnIdle left.
NvmWipe ==
  /\ nvReady
  /\ nvBuf' = << >> /\ nvDirty' = FALSE /\ nvFlash' = << >>
  /\ nvErased' = Range(nvBuf) \cup Range(nvFlash)
  /\ UNCHANGED <<nvOnIdle, nvReady>>

\* otPlatSaveSettingsIdle: NvIdle, which writes the buffer as it is now.
NvmIdle ==
  /\ nvReady /\ nvDirty
  /\ nvFlash' = nvBuf /\ nvDirty' = FALSE
  /\ UNCHANGED <<nvOnIdle, nvBuf, nvReady, nvErased>>

\* Power is lost; a write by the NVM module happens entirely or not at all.
NvmPowerLoss ==
  /\ nvReady' = FALSE /\ nvDirty' = FALSE /\ nvBuf' = << >>
  /\ UNCHANGED <<nvOnIdle, nvFlash, nvErased>>

NvmNext ==
  \/ NvmSettingsInit \/ NvmWipe \/ NvmIdle \/ NvmPowerLoss
  \/ \E k \in Key, v \in Value : NvmAdd(k, v) \/ NvmSet(k, v)
  \/ \E k \in Key, i \in -1 .. 1 : NvmDelete(k, i)

-----------------------------------------------------------------------------
\* A factory reset is final: what otPlatSettingsWipe took out is not in the
\* flash for a later start to restore, even if the power fails right after the
\* call, and although other calls only mark the buffer for the idle task.
WipedForGood == nvErased \cap Range(nvFlash) = {}
=============================================================================
