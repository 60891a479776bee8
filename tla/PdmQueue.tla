------------------------------ MODULE PdmQueue ------------------------------
(***************************************************************************)
(* The queue of saves of src/src/k32w0/platform/pdm_ram_storage_glue.c:    *)
(* tasks that change a RAM buffer enter its PDM id, once; the idle task    *)
(* takes the ids out and writes the buffers.  The recalibration interrupt  *)
(* of flash_pdm.c saves the radio settings through the same calls, without *)
(* the mutexes.                                                            *)
(***************************************************************************)
EXTENDS Naturals, FiniteSets

CONSTANTS
  TaskId,      \* PDM ids that a task saves
  IsrId,       \* PDM ids that the interrupt saves
  QueueSize,   \* MAX_QUEUE_SIZE
  MayRefuse,   \* may the PDM refuse to write?
  NoId         \* a slot that was never written; a mutex nobody holds

Id == TaskId \cup IsrId

Idle == "idle task"

ASSUME QueueAssumption ==
  /\ QueueSize \in Nat \ {0} /\ MayRefuse \in BOOLEAN
  /\ NoId \notin Id /\ Idle \notin TaskId \cup {NoId}

VARIABLES
  asQueue, rd, wr,   \* the queue with u8QueueReadPtr and u8QueueWritePtr
  qMutex,            \* who holds asQueueMutex
  bufMutex,          \* who holds the mutex of each RAM buffer
  changed,           \* ids whose RAM buffer differs from their record
  pc,                \* where each task, and the idle task, is
  current,           \* currentEntry of the idle task
  preempted          \* history: has the interrupt saved in the middle of a call?

queueVars == <<asQueue, rd, wr, qMutex, bufMutex, changed, pc, current, preempted>>

QueueInit ==
  /\ asQueue = [i \in 0 .. QueueSize - 1 |-> NoId] /\ rd = 0 /\ wr = 0
  /\ qMutex = NoId /\ bufMutex = [id \in Id |-> NoId]
  /\ changed = {}
  /\ pc = [a \in TaskId \cup {Idle} |-> "out"] /\ current = NoId
  /\ preempted = FALSE

Inc(p) == IF p + 1 = QueueSize THEN 0 ELSE p + 1

\* The ids met on the way from the read to the write pointer.
Entered ==
  {asQueue[i] : i \in {j \in 0 .. QueueSize - 1 :
                         (j + QueueSize - rd) % QueueSize < (wr + QueueSize - rd) % QueueSize}}

Goes(a, l) == pc' = [pc EXCEPT ![a] = l]

-----------------------------------------------------------------------------
(* FS_eSaveRecordDataInIdleTask, by a task or again by the idle task (a)   *)
(* for id, from "save" on.                                                 *)

SaveLock(a, id) ==
  /\ pc[a] = "save" /\ qMutex = NoId
  /\ qMutex' = a
  /\ Goes(a, "look")
  /\ UNCHANGED <<asQueue, rd, wr, bufMutex, changed, current, preempted>>

SaveDone(a) == qMutex' = NoId /\ Goes(a, "done")

\* Mutant: the id is entered again.
SaveLookTwice(a, id) ==
  /\ pc[a] = "look"
  /\ asQueue' = [asQueue EXCEPT ![wr] = id]
  /\ Goes(a, "advance")
  /\ UNCHANGED <<rd, wr, qMutex, bufMutex, changed, current, preempted>>

\* The id is looked for, and written to the free slot if it is not there.
SaveLook(a, id) ==
  /\ pc[a] = "look"
  /\ \/ /\ id \in Entered
        /\ SaveDone(a)
        /\ UNCHANGED asQueue
     \/ /\ id \notin Entered
        /\ asQueue' = [asQueue EXCEPT ![wr] = id]
        /\ Goes(a, "advance")
        /\ UNCHANGED qMutex
  /\ UNCHANGED <<rd, wr, bufMutex, changed, current, preempted>>

SaveAdvance(a) ==
  /\ pc[a] = "advance"
  /\ wr' = Inc(wr)
  /\ SaveDone(a)
  /\ UNCHANGED <<asQueue, rd, bufMutex, changed, current, preempted>>

Save(a, id) == SaveLock(a, id) \/ SaveLook(a, id) \/ SaveAdvance(a)

-----------------------------------------------------------------------------
(* A task: a settings call.                                                *)

QueueCall(id) ==
  /\ pc[id] = "out" /\ bufMutex[id] = NoId
  /\ bufMutex' = [bufMutex EXCEPT ![id] = id]
  /\ Goes(id, "change")
  /\ UNCHANGED <<asQueue, rd, wr, qMutex, changed, current, preempted>>

Change(id) ==
  /\ pc[id] = "change"
  /\ changed' = changed \cup {id}
  /\ Goes(id, "save")
  /\ UNCHANGED <<asQueue, rd, wr, qMutex, bufMutex, current, preempted>>

Return(id) ==
  /\ pc[id] = "done"
  /\ bufMutex' = [bufMutex EXCEPT ![id] = NoId]
  /\ Goes(id, "out")
  /\ UNCHANGED <<asQueue, rd, wr, qMutex, changed, current, preempted>>

TaskStep(id) == QueueCall(id) \/ Change(id) \/ Save(id, id) \/ Return(id)

-----------------------------------------------------------------------------
(* The recalibration interrupt: should_skip_recal, bRadioCB_WriteNVM.      *)

should_skip_recal(id) == bufMutex[id] \in TaskId /\ qMutex # NoId

\* The interrupt comes while the buffer is being changed or the queue entered.
MidCall(id) ==
  \/ bufMutex[id] # NoId
  \/ \E a \in TaskId \cup {Idle} : pc[a] \in {"look", "advance"}

Recalibrate(id) ==
  /\ ~should_skip_recal(id)
  /\ changed' = changed \cup {id}
  /\ IF id \in Entered THEN UNCHANGED <<asQueue, wr>>
                       ELSE asQueue' = [asQueue EXCEPT ![wr] = id] /\ wr' = Inc(wr)
  /\ preempted' = (preempted \/ MidCall(id))
  /\ UNCHANGED <<rd, qMutex, bufMutex, pc, current>>

-----------------------------------------------------------------------------
(* The idle task: FS_vIdleTask, FS_SaveRecordData.                         *)

PopLock ==
  /\ pc[Idle] = "out" /\ rd # wr /\ qMutex = NoId
  /\ qMutex' = Idle
  /\ current' = asQueue[rd]
  /\ Goes(Idle, "pop")
  /\ UNCHANGED <<asQueue, rd, wr, bufMutex, changed, preempted>>

Pop ==
  /\ pc[Idle] = "pop"
  /\ rd' = Inc(rd)
  /\ qMutex' = NoId
  /\ Goes(Idle, "copy")
  /\ UNCHANGED <<asQueue, wr, bufMutex, changed, current, preempted>>

\* The buffer is copied under its mutex.
Copy ==
  /\ pc[Idle] = "copy" /\ bufMutex[current] = NoId
  /\ changed' = changed \ {current}
  /\ Goes(Idle, "write")
  /\ UNCHANGED <<asQueue, rd, wr, qMutex, bufMutex, current, preempted>>

\* Mutant: a buffer that is in use is given up.
CopyGivesUp ==
  /\ pc[Idle] = "copy" /\ bufMutex[current] # NoId
  /\ Goes(Idle, "out")
  /\ current' = NoId
  /\ UNCHANGED <<asQueue, rd, wr, qMutex, bufMutex, changed, preempted>>

\* The mutex is taken: the id is queued again.
CopyBusy ==
  /\ pc[Idle] = "copy" /\ bufMutex[current] # NoId
  /\ Goes(Idle, "save")
  /\ UNCHANGED <<asQueue, rd, wr, qMutex, bufMutex, changed, current, preempted>>

Written ==
  /\ pc[Idle] = "write"
  /\ Goes(Idle, "done")
  /\ UNCHANGED <<asQueue, rd, wr, qMutex, bufMutex, changed, current, preempted>>

\* Mutant: the record that was not written is not queued again.
RefusedForgets ==
  /\ pc[Idle] = "write" /\ MayRefuse
  /\ changed' = changed \cup {current}
  /\ Goes(Idle, "done")
  /\ UNCHANGED <<asQueue, rd, wr, qMutex, bufMutex, current, preempted>>

\* PDM_eSaveRecordData fails: the id is queued again.
Refused ==
  /\ pc[Idle] = "write" /\ MayRefuse
  /\ changed' = changed \cup {current}
  /\ Goes(Idle, "save")
  /\ UNCHANGED <<asQueue, rd, wr, qMutex, bufMutex, current, preempted>>

Resume ==
  /\ pc[Idle] = "done"
  /\ Goes(Idle, "out")
  /\ current' = NoId
  /\ UNCHANGED <<asQueue, rd, wr, qMutex, bufMutex, changed, preempted>>

QueueIdleStep ==
  \/ PopLock \/ Pop \/ Copy \/ CopyBusy \/ Written \/ Refused \/ Resume
  \/ Save(Idle, current)

-----------------------------------------------------------------------------
\* The interrupt broke into a call: what the queue and the buffer hold from then
\* on is not modelled.
Broken == preempted /\ UNCHANGED queueVars

QueueNext ==
  \/ \E id \in TaskId : ~preempted /\ TaskStep(id)
  \/ \E id \in IsrId : ~preempted /\ Recalibrate(id)
  \/ ~preempted /\ QueueIdleStep
  \/ Broken

\* A call that began returns, the idle task runs, and the PDM does not refuse
\* for ever.
QueueFairness ==
  /\ \A id \in TaskId : WF_queueVars(Change(id) \/ Return(id)) /\ SF_queueVars(Save(id, id))
  /\ SF_queueVars(QueueIdleStep) /\ SF_queueVars(Written)

QueueSpec == QueueInit /\ [][QueueNext]_queueVars /\ QueueFairness

-----------------------------------------------------------------------------
\* Types, and a slot between the pointers always holds an id that was saved:
\* FS_SaveRecordData follows the pointer of the entry it takes.
QueueTypeOK ==
  /\ {rd, wr} \subseteq 0 .. QueueSize - 1
  /\ Entered \subseteq Id
  /\ qMutex \in TaskId \cup {Idle, NoId}
  /\ changed \subseteq Id
  /\ pc[Idle] \in {"pop", "copy", "write", "save", "look", "advance"} => current \in Id

\* No id is in the queue twice, so that one slot more than there are ids is
\* enough for ever: the queue is never tested for being full.  It holds as long
\* as the interrupt, which takes no mutex, came between calls.
EnteredOnce ==
  ~preempted => (wr + QueueSize - rd) % QueueSize = Cardinality(Entered)

\* A buffer that is not saved yet is on its way: its id is in the queue, or a
\* task or the idle task is about to enter or to copy it.
SaveOnItsWay ==
  \A id \in changed :
    \/ id \in Entered
    \/ id \in TaskId /\ pc[id] \in {"save", "look", "advance"}
    \/ current = id /\ pc[Idle] \in {"pop", "copy", "save", "look", "advance"}
    \/ preempted

\* Once the tasks and the interrupt leave the buffers alone, every change is
\* saved, however their last calls, failed writes and the idle task interleaved.
Saved ==
  <>[][~(\E id \in TaskId : QueueCall(id)) /\ ~(\E id \in IsrId : Recalibrate(id))]_queueVars
    => <>[](changed = {} \/ preempted)
=============================================================================
