----------------------------- MODULE K32wTables -----------------------------
(***************************************************************************)
(* What K32WISR looks up while the K32W0 receives, and the main loop       *)
(* changes without a lock (src/src/k32w0/platform/radio.c): the tables of  *)
(* the children that have data pending, and the MAC frame counter.  When   *)
(* the header of a frame has arrived the handler decides whether the       *)
(* acknowledgement says frame pending; when a secured frame is complete it *)
(* reports the frame counter its enhanced acknowledgement was sent with.   *)
(* The radio keeps a frame counter of its own.                             *)
(***************************************************************************)
EXTENDS Naturals, FiniteSets, FiniteSetsExt

CONSTANTS
  Child,          \* addresses
  TableLen,       \* MAX_FP_ADDRS
  NoChild,        \* what an unused entry holds
  MaxCounter      \* bound: frame counters

ASSUME K32wTablesAssumption ==
  TableLen \in Nat \ {0} /\ MaxCounter \in Nat /\ NoChild \notin Child

Kinds == {"short", "ext"}
Entries == 1 .. TableLen

VARIABLES
  fpEnabled,       \* sIsFpEnabled
  fpAddr,          \* sFpShortAddr and sFpExtAddr
  fpMask,          \* the bits set in sFpShortAddrMask and sFpExtAddrMask
  adding,          \* the entry that is being added
  pendingFor,      \* history: children OpenThread has announced data for
  answer,          \* history: the last acknowledgement
  counter,         \* sMacFrameCounter
  macCounter,      \* the frame counter of the radio
  setting,         \* where otPlatRadioSetMacFrameCounterIfLarger is
  sending,         \* where otPlatRadioTransmit is with a secured frame
  ackCounter,      \* history: counter of the last secured acknowledgement
  cut              \* history: an acknowledgement cut in on the last setting or
                   \* on a count since

fpVars == <<fpEnabled, fpAddr, fpMask, adding, pendingFor, answer>>
counterVars == <<counter, macCounter, setting, sending, ackCounter, cut>>
tableVars == <<fpVars, counterVars>>

NotAdding == [kind |-> "none", entry |-> 0, child |-> NoChild]
NotSetting == [pc |-> "no", value |-> 0]
NotSending == [pc |-> "no", loaded |-> 0]

TableInit ==
  /\ fpEnabled = TRUE /\ fpAddr = [k \in Kinds |-> [i \in Entries |-> NoChild]]
  /\ fpMask = [k \in Kinds |-> {}] /\ adding = NotAdding
  /\ pendingFor = [k \in Kinds |-> {}] /\ answer = [told |-> FALSE, due |-> FALSE, adding |-> FALSE]
  /\ counter = 0 /\ macCounter = 0 /\ setting = NotSetting /\ sending = NotSending
  /\ ackCounter = [told |-> 0, sent |-> 0, sure |-> TRUE] /\ cut = FALSE

-----------------------------------------------------------------------------
(* Source matching.  OpenThread announces a child once until it takes it   *)
(* back; when a table is full it turns matching off, and on again when all *)
(* children fit.                                                           *)

MainFree == adding = NotAdding /\ setting = NotSetting /\ sending = NotSending

InTable(k, c) == \E i \in fpMask[k] : fpAddr[k][i] = c

otPlatRadioEnableSrcMatch ==
  /\ MainFree /\ ~fpEnabled /\ \A k \in Kinds : \A c \in pendingFor[k] : InTable(k, c)
  /\ fpEnabled' = TRUE
  /\ UNCHANGED <<fpAddr, fpMask, adding, pendingFor, answer, counterVars>>

\* The first step of a call stores the address in the first free entry.
StartAdding(k, c) ==
  /\ MainFree /\ c \notin pendingFor[k]
  /\ pendingFor' = [pendingFor EXCEPT ![k] = @ \cup {c}]
  /\ IF fpMask[k] = Entries
     THEN fpEnabled' = FALSE /\ UNCHANGED <<fpAddr, adding>>
     ELSE LET i == Min(Entries \ fpMask[k])
          IN  /\ adding' = [kind |-> k, entry |-> i, child |-> c]
              /\ fpAddr' = [fpAddr EXCEPT ![k][i] = c]
              /\ UNCHANGED fpEnabled
  /\ UNCHANGED <<fpMask, answer, counterVars>>

otPlatRadioAddSrcMatchShortEntry(c) == StartAdding("short", c)
otPlatRadioAddSrcMatchExtEntry(c) == StartAdding("ext", c)

\* The second sets its bit.
FinishAdding ==
  /\ adding # NotAdding
  /\ fpMask' = [fpMask EXCEPT ![adding.kind] = @ \cup {adding.entry}]
  /\ adding' = NotAdding
  /\ UNCHANGED <<fpEnabled, fpAddr, pendingFor, answer, counterVars>>

\* The bit of the first entry with the address, if there is one.
ClearEntry(k, c) ==
  /\ MainFree /\ c \in pendingFor[k]
  /\ pendingFor' = [pendingFor EXCEPT ![k] = @ \ {c}]
  /\ fpMask' = IF InTable(k, c)
               THEN [fpMask EXCEPT ![k] = @ \ {Min({i \in @ : fpAddr[k][i] = c})}]
               ELSE fpMask
  /\ UNCHANGED <<fpEnabled, fpAddr, adding, answer, counterVars>>

otPlatRadioClearSrcMatchShortEntry(c) == ClearEntry("short", c)
otPlatRadioClearSrcMatchExtEntry(c) == ClearEntry("ext", c)

ClearEntries(k) ==
  /\ MainFree /\ pendingFor[k] # {}
  /\ pendingFor' = [pendingFor EXCEPT ![k] = {}]
  /\ fpMask' = [fpMask EXCEPT ![k] = {}]
  /\ UNCHANGED <<fpEnabled, fpAddr, adding, answer, counterVars>>

otPlatRadioClearSrcMatchShortEntries == ClearEntries("short")
otPlatRadioClearSrcMatchExtEntries == ClearEntries("ext")

\* Mutant: the bits are not looked at.
FpByAddress(k, c) == ~fpEnabled \/ \E i \in Entries : fpAddr[k][i] = c

\* A data request from c is answered with frame pending?
K32WCheckIfFpRequired(k, c) == ~fpEnabled \/ InTable(k, c)

K32WProcessMacHeader(k, c) ==
  /\ answer' = [told |-> K32WCheckIfFpRequired(k, c), due |-> ~fpEnabled \/ c \in pendingFor[k],
                adding |-> adding # NotAdding]
  /\ UNCHANGED <<fpEnabled, fpAddr, fpMask, adding, pendingFor, counterVars>>

-----------------------------------------------------------------------------
(* The frame counter.                                                      *)

\* A secured frame goes out with the radio's counter in its header, ...
SendSecured ==
  /\ MainFree /\ counter < MaxCounter /\ macCounter < MaxCounter
  /\ macCounter' = macCounter + 1 /\ sending' = [NotSending EXCEPT !.pc = "sent"]
  /\ UNCHANGED <<fpVars, counter, setting, ackCounter, cut>>

\* ... and the driver counts it afterwards: it loads its counter, adds one and
\* stores it.
CountSecured ==
  \/ /\ sending.pc = "sent"
     /\ sending' = [pc |-> "loaded", loaded |-> counter]
     /\ UNCHANGED <<fpVars, counter, macCounter, setting, ackCounter, cut>>
  \/ /\ sending.pc = "loaded"
     /\ counter' = sending.loaded + 1 /\ sending' = NotSending
     /\ UNCHANGED <<fpVars, macCounter, setting, ackCounter, cut>>

\* The main loop has changed one of the counters, and not yet the other.
Between == setting.pc = "radio" \/ sending # NotSending

\* Mutant: the acknowledgement is not counted.
AckNotCounted ==
  /\ counter < MaxCounter /\ macCounter < MaxCounter
  /\ ackCounter' = [told |-> counter, sent |-> macCounter, sure |-> ~cut /\ ~Between]
  /\ macCounter' = macCounter + 1
  /\ UNCHANGED <<fpVars, counter, setting, sending, cut>>

\* A secured frame has been received and acknowledged.  Its count is lost if
\* the main loop is about to store what it has set or loaded.
K32WGetRxFrameInfo ==
  /\ counter < MaxCounter /\ macCounter < MaxCounter
  /\ ackCounter' = [told |-> counter, sent |-> macCounter, sure |-> ~cut /\ ~Between]
  /\ counter' = counter + 1 /\ macCounter' = macCounter + 1
  /\ cut' = (cut \/ setting.pc = "radio" \/ sending.pc = "loaded")
  /\ UNCHANGED <<fpVars, setting, sending>>

\* otPlatRadioSetMacFrameCounterIfLarger compares, ...
otPlatRadioSetMacFrameCounterIfLarger(v) ==
  /\ MainFree /\ v > counter
  /\ setting' = [pc |-> "driver", value |-> v]
  /\ UNCHANGED <<fpVars, counter, macCounter, sending, ackCounter, cut>>

\* ... otPlatRadioSetMacFrameCounter sets the driver's counter, then the
\* radio's.
otPlatRadioSetMacFrameCounter ==
  \/ /\ setting.pc = "driver"
     /\ counter' = setting.value /\ setting' = [setting EXCEPT !.pc = "radio"] /\ cut' = FALSE
     /\ UNCHANGED <<fpVars, macCounter, sending, ackCounter>>
  \/ /\ setting.pc = "radio"
     /\ macCounter' = setting.value /\ setting' = NotSetting
     /\ UNCHANGED <<fpVars, counter, sending, ackCounter, cut>>

-----------------------------------------------------------------------------
FpNext ==
  \/ otPlatRadioEnableSrcMatch
  \/ \E c \in Child :
       \/ otPlatRadioAddSrcMatchShortEntry(c) \/ otPlatRadioAddSrcMatchExtEntry(c)
       \/ otPlatRadioClearSrcMatchShortEntry(c) \/ otPlatRadioClearSrcMatchExtEntry(c)
       \/ \E k \in Kinds : K32WProcessMacHeader(k, c)
  \/ FinishAdding
  \/ otPlatRadioClearSrcMatchShortEntries \/ otPlatRadioClearSrcMatchExtEntries

CounterNext ==
  \/ SendSecured \/ CountSecured \/ K32WGetRxFrameInfo
  \/ \E v \in 1 .. MaxCounter : otPlatRadioSetMacFrameCounterIfLarger(v)
  \/ otPlatRadioSetMacFrameCounter

TableNext == FpNext \/ CounterNext

TableSpec == TableInit /\ [][TableNext]_tableVars

-----------------------------------------------------------------------------
\* A child is told of pending data exactly when there is some, although the
\* handler reads a table the main loop is changing: an entry counts only once
\* it is whole.  Only for the child that is being added the answer may still
\* be no.
FpExact == answer.told = answer.due \/ (answer.adding /\ answer.due)

\* The counter reported with a received frame is the one its acknowledgement
\* was sent with, unless the acknowledgement came while the main loop was
\* between its stores to the two counters, for a setting or for a frame it
\* sends, or one before it made the driver's counter miss a count.
AckCounterTrue == ackCounter.sure => ackCounter.told = ackCounter.sent
=============================================================================
