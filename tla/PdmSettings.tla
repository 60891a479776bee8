---------------------------- MODULE PdmSettings -----------------------------
(***************************************************************************)
(* The RAM buffer of src/src/common/ram_storage.c: blocks of a header and  *)
(* a value, one after the other.  A buffer is a record of its memory and   *)
(* of the length in use; memory is a sequence of cells, a header being one *)
(* cell and a value of n bytes n cells.  What lies beyond the length is    *)
(* kept: a save that is late by one call may still read it.                *)
(***************************************************************************)
EXTENDS Integers, Sequences, FiniteSets, FiniteSetsExt

CONSTANT NoKey   \* the key of a cell of zeros

Empty == [mem |-> << >>, len |-> 0]

Size(n) == 1 + n

Block(k, n, byte) ==
  <<[key |-> k, len |-> n]>> \o [i \in 1 .. n |-> [byte |-> byte]]

IsHeader(cell) == "key" \in DOMAIN cell

\* Where the blocks of b start, as every loop of the file finds them; what
\* follows a byte that is taken for a header is left open.
Starts(b) ==
  LET from[i \in Nat \ {0}] ==
        IF i > b.len THEN {}
        ELSE {i} \cup IF IsHeader(b.mem[i]) THEN from[i + Size(b.mem[i].len)] ELSE {}
  IN  from[1]

\* Every block starts with a header and lies within the length in use.
BlocksFill(b) ==
  \A i \in Starts(b) : IsHeader(b.mem[i]) /\ i + Size(b.mem[i].len) - 1 <= b.len

\* The blocks with key k.
Of(b, k) == {i \in Starts(b) : b.mem[i].key = k}

\* Memory m with the cells s written from cell i on.
Write(m, i, s) ==
  [j \in 1 .. Max({Len(m), i + Len(s) - 1}) |->
     IF j \in i .. i + Len(s) - 1 THEN s[j - i + 1] ELSE m[j]]

\* The first n bytes of the memory; memory never written holds zeros.
Prefix(b, n) ==
  [i \in 1 .. n |-> IF i <= Len(b.mem) THEN b.mem[i] ELSE [key |-> NoKey, len |-> 0]]

Content(b) == Prefix(b, b.len)

-----------------------------------------------------------------------------
\* ramStorageAdd refuses a block that does not fit; region is
\* backendRegionSize, extendedSearch being false.
CanAdd(b, n, max, region) ==
  b.len + Size(n) <= max /\ b.len + Size(n) < region

RamAdd(b, k, n, byte) ==
  [mem |-> Write(b.mem, b.len + 1, Block(k, n, byte)), len |-> b.len + Size(n)]

\* The memmove of ramStorageDelete over the block at i.
RamRemove(b, i) ==
  LET size == Size(b.mem[i].len)
  IN  [mem |-> Write(b.mem, i, SubSeq(b.mem, i + size, b.len)), len |-> b.len - size]

\* One block after the other, until none is left; a block has a cell at least.
RamRemoveAll(b, k) ==
  LET after[n \in Nat] ==
        IF n = 0 THEN b
        ELSE LET c == after[n - 1]
             IN  IF Of(c, k) = {} THEN c ELSE RamRemove(c, Min(Of(c, k)))
  IN  after[b.len]

\* Mutant: the blocks that follow are not moved.
RamDeleteNoMove(b, k, index) ==
  IF Of(b, k) = {} THEN b
  ELSE CASE index = -1 -> [b EXCEPT !.len = Min(Of(b, k)) - 1]
         [] index = 0  -> [b EXCEPT !.len = @ - Size(b.mem[Min(Of(b, k))].len)]
         [] OTHER      -> b

\* ramStorageDelete: currentIndex is only counted in the branch that deletes,
\* so that no index but -1 and 0 ever finds a block.
RamDelete(b, k, index) ==
  IF Of(b, k) = {} THEN b
  ELSE CASE index = -1 -> RamRemoveAll(b, k)
         [] index = 0  -> RamRemove(b, Min(Of(b, k)))
         [] OTHER      -> b

\* ramStorageSet: in place when the first block of the key has the length;
\* otherwise all blocks of the key are deleted before the new one is added.
SetInPlace(b, k, n) == Of(b, k) # {} /\ b.mem[Min(Of(b, k))].len = n

RamOverwrite(b, k, n, byte) ==
  [b EXCEPT !.mem = Write(@, Min(Of(b, k)), Block(k, n, byte))]

-----------------------------------------------------------------------------
(***************************************************************************)
(* OpenThread's settings on the K32W0: src/src/k32w0/platform/flash_pdm.c  *)
(* over the RAM buffer, saved to a PDM record by the idle task             *)
(* (pdm_ram_storage_glue.c with PDM_SAVE_IDLE and dynamic memory).         *)
(*                                                                         *)
(* A settings call holds the buffer's mutex and the OpenThread task        *)
(* preempts the idle task: a call is one action, the idle task makes one   *)
(* step per access.  The queue of saves is reduced to this record's place  *)
(* in it; PdmQueue has the queue itself.                                   *)
(***************************************************************************)

CONSTANTS
  Key, Length, Byte,   \* keys; lengths and contents of values
  InitSize,            \* kRamBufferInitialSize
  ReallocSize,         \* kRamBufferReallocSize
  Region,              \* PDM_SEGMENT_SIZE
  MaxIndex             \* bound: the largest index OpenThread passes to Delete

ASSUME PdmAssumption ==
  /\ NoKey \notin Key /\ Length \subseteq Nat
  /\ {InitSize, ReallocSize, Region} \subseteq Nat \ {0}
  /\ MaxIndex \in Nat

VARIABLES
  ram,       \* ramDescr->buffer and its length
  maxLen,    \* ramDescr->header.maxLength
  queued,    \* is the record in asQueue?
  flash,     \* content of the PDM record; empty if there is none
  ipc,       \* where the idle task is in FS_vIdleTask and FS_SaveRecordData
  idleLen,   \* its length
  segment,   \* sSegmentBuffer
  unsaved    \* history: the buffer was changed in a way that no save follows

idleVars == <<ipc, idleLen, segment>>
pdmVars == <<ram, maxLen, queued, flash, idleVars, unsaved>>

PdmInit ==
  /\ ram = Empty /\ maxLen = InitSize
  /\ queued = FALSE /\ flash = << >>
  /\ ipc = "test" /\ idleLen = 0 /\ segment = << >>
  /\ unsaved = FALSE

-----------------------------------------------------------------------------
(* The assertion of ramStorageDelete (header.length >= currentBlockLength) *)
(* holds of every block.  The calls are modelled until it fails: what the  *)
(* loops then read is not a header.                                        *)
Intact == BlocksFill(ram)

\* ramStorageResize for a value of n more bytes: the size it allocates.
Resized(n) ==
  LET need == ram.len + Size(n)
      steps == Min({j \in 0 .. need : maxLen + j * ReallocSize >= need})
  IN  IF steps = 0 THEN maxLen ELSE Min({maxLen + steps * ReallocSize, Region})

CanResize == maxLen <= Region

\* The call changes the buffer to b and queues a save.  FS_SaveRecordData
\* writes no segment for an empty buffer.
Request(b) ==
  /\ ram' = b
  /\ queued' = TRUE
  /\ unsaved' = (b.len = 0)
  /\ UNCHANGED <<flash, idleVars>>

\* otPlatSettingsAdd.
Add(k, n, byte) ==
  /\ Intact
  /\ CanResize
  /\ maxLen' = Resized(n)
  /\ CanAdd(ram, n, maxLen', Region)
  /\ Request(RamAdd(ram, k, n, byte))

\* Add refused after the buffer was resized.
AddRefused(k, n) ==
  /\ Intact
  /\ CanResize
  /\ maxLen' = Resized(n)
  /\ ~CanAdd(ram, n, maxLen', Region)
  /\ UNCHANGED <<ram, queued, flash, idleVars, unsaved>>

\* otPlatSettingsSet when the key has a value of the same length.
SetSame(k, n, byte) ==
  /\ Intact
  /\ SetInPlace(ram, k, n)
  /\ Request(RamOverwrite(ram, k, n, byte))
  /\ UNCHANGED maxLen

\* The buffer is resized only for a value longer than the first of the key.
ResizeForSet(k, n) ==
  LET old == ram.mem[Min(Of(ram, k))].len
  IN  IF Of(ram, k) # {} /\ old < n
        THEN CanResize /\ maxLen' = Resized(n - old)
        ELSE UNCHANGED maxLen

Set(k, n, byte) ==
  /\ Intact
  /\ ~SetInPlace(ram, k, n)
  /\ ResizeForSet(k, n)
  /\ LET rest == RamRemoveAll(ram, k)
     IN  CanAdd(rest, n, maxLen', Region) /\ Request(RamAdd(rest, k, n, byte))

\* The new block does not fit: the old ones are gone, and no save is queued.
SetRefused(k, n) ==
  /\ Intact
  /\ ~SetInPlace(ram, k, n)
  /\ ResizeForSet(k, n)
  /\ ram' = RamRemoveAll(ram, k)
  /\ ~CanAdd(ram', n, maxLen', Region)
  /\ unsaved' = (unsaved \/ ram' # ram)
  /\ UNCHANGED <<queued, flash, idleVars>>

\* otPlatSettingsDelete; NOT_FOUND changes nothing.
Delete(k, index) ==
  /\ Intact
  /\ RamDelete(ram, k, index) # ram
  /\ Request(RamDelete(ram, k, index))
  /\ UNCHANGED maxLen

\* otPlatSettingsWipe deletes the record at once; a save in hand writes it again.
Wipe ==
  /\ ram' = Empty
  /\ flash' = << >>
  /\ unsaved' = (ipc \in {"copy", "write"})
  /\ UNCHANGED <<maxLen, queued, idleVars>>

-----------------------------------------------------------------------------
(* The idle task: FS_vIdleTask and FS_SaveRecordData.                      *)

\* Back in the loop; the local length and the segment are dead.
Loop == ipc' = "test" /\ idleLen' = 0 /\ segment' = << >>

IdlePop ==
  /\ ipc = "test" /\ queued
  /\ queued' = FALSE
  /\ ipc' = "len"
  /\ UNCHANGED <<ram, maxLen, flash, idleLen, segment, unsaved>>

\* header.length is read without the mutex; no segment if it is zero.
IdleLength ==
  /\ ipc = "len"
  /\ idleLen' = ram.len
  /\ ipc' = IF ram.len = 0 THEN "test" ELSE "copy"
  /\ UNCHANGED <<ram, maxLen, queued, flash, segment, unsaved>>

\* The memcpy, under the mutex.
IdleCopy ==
  /\ ipc = "copy"
  /\ segment' = Prefix(ram, idleLen)
  /\ ipc' = "write"
  /\ UNCHANGED <<ram, maxLen, queued, flash, idleLen, unsaved>>

\* Mutant: the save is counted as done before it was tried again.
IdleWriteOldQueue ==
  /\ ipc = "write"
  /\ flash' = segment
  /\ queued' = FALSE
  /\ Loop
  /\ UNCHANGED <<ram, maxLen, unsaved>>

IdleWrite ==
  /\ ipc = "write"
  /\ flash' = segment
  /\ Loop
  /\ UNCHANGED <<ram, maxLen, queued, unsaved>>

\* The mutex is taken or the PDM refuses: the save is queued again.
IdleFails ==
  /\ ipc \in {"copy", "write"}
  /\ queued' = TRUE
  /\ Loop
  /\ UNCHANGED <<ram, maxLen, flash, unsaved>>

\* A reset, asked for or not: getRamBuffer loads what the record holds into a
\* buffer that doesDataExist has made large enough, or, if the record cannot
\* be read, deletes it.
PdmRestart(data) ==
  /\ ram' = [mem |-> data, len |-> Len(data)]
  /\ flash' = data
  /\ maxLen' = InitSize + ReallocSize *
                 Min({j \in 0 .. Len(flash) : InitSize + j * ReallocSize >= Len(flash)})
  /\ queued' = FALSE /\ unsaved' = FALSE
  /\ Loop

-----------------------------------------------------------------------------
OtCall ==
  \/ \E k \in Key, n \in Length, byte \in Byte :
       Add(k, n, byte) \/ SetSame(k, n, byte) \/ Set(k, n, byte)
  \/ \E k \in Key, n \in Length : AddRefused(k, n) \/ SetRefused(k, n)
  \/ \E k \in Key, index \in -1 .. MaxIndex : Delete(k, index)
  \/ Wipe

PdmIdleStep == IdlePop \/ IdleLength \/ IdleCopy \/ IdleWrite \/ IdleFails

PdmNext == OtCall \/ PdmIdleStep \/ \E data \in {flash, << >>} : PdmRestart(data)

PdmSpec == PdmInit /\ [][PdmNext]_pdmVars

-----------------------------------------------------------------------------
\* The buffer stays within the memory it has, and within what one PDM record
\* can hold, across resizes and restarts.
PdmTypeOK ==
  /\ ram.len \in 0 .. Region - 1 /\ ram.len <= maxLen
  /\ {queued, unsaved} \subseteq BOOLEAN
  /\ ipc \in {"test", "len", "copy", "write"}
  /\ idleLen \in 0 .. Region - 1

\* No change is forgotten: when no save is queued or in hand, the record is the
\* buffer, unless a Set that failed, a Wipe during a save or the removal of the
\* last value left them apart.
PdmUpToDate == ipc = "test" /\ ~queued /\ ~unsaved => flash = Content(ram)

\* Whatever is deleted, replaced and added, the blocks fill the length in use;
\* only a reset that loads a record torn by a save can break that.
BlocksFit == Intact \/ Content(ram) = flash
=============================================================================
