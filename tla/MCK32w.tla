------------------------------- MODULE MCK32w -------------------------------
(***************************************************************************)
(* The parts of the K32W0 platform.  part says which of them a behaviour   *)
(* is about; the others rest.                                              *)
(***************************************************************************)
EXTENDS K32wRadio, K32wTables, PdmSettings, PdmQueue, FlashPages, K32wAlarm,
        K32wSerial, VendorHook

VARIABLE part

k32wVars ==
  <<part, hookVars, radioVars, tableVars, pdmVars, queueVars, pagesVars, kuVars, kaVars,
     slVars>>

TwoOscillators == <<1, 2>>

K32wInit ==
  /\ part \in {"radio", "fp", "counter", "settings", "queue", "pages", "uart",
              "alarm", "spi", "hook"}
  /\ HookInit
  /\ RadioInit /\ TableInit /\ PdmInit /\ QueueInit /\ PagesInit /\ KuInit
  /\ KaInit /\ SlInit

Driver ==
  /\ part = "radio" /\ RadioNext
  /\ UNCHANGED <<part, hookVars, tableVars, pdmVars, queueVars, pagesVars, kuVars, kaVars,
                 slVars>>

FramePending ==
  /\ part = "fp" /\ FpNext
  /\ UNCHANGED <<part, hookVars, radioVars, pdmVars, queueVars, pagesVars, kuVars, kaVars,
                 slVars>>

FrameCounter ==
  /\ part = "counter" /\ CounterNext
  /\ UNCHANGED <<part, hookVars, radioVars, pdmVars, queueVars, pagesVars, kuVars, kaVars,
                 slVars>>

PdmPart ==
  /\ part = "settings" /\ PdmNext
  /\ UNCHANGED <<part, hookVars, radioVars, tableVars, queueVars, pagesVars, kuVars, kaVars,
                 slVars>>

QueuePart ==
  /\ part = "queue" /\ QueueNext
  /\ UNCHANGED <<part, hookVars, radioVars, tableVars, pdmVars, pagesVars, kuVars, kaVars,
                 slVars>>

PagesPart ==
  /\ part = "pages" /\ PagesNext
  /\ UNCHANGED <<part, hookVars, radioVars, tableVars, pdmVars, queueVars, kuVars, kaVars,
                 slVars>>

UartPart ==
  /\ part = "uart" /\ KuNext
  /\ UNCHANGED <<part, hookVars, radioVars, tableVars, pdmVars, queueVars, pagesVars, kaVars,
                 slVars>>

AlarmPart ==
  /\ part = "alarm" /\ KaNext
  /\ UNCHANGED <<part, hookVars, radioVars, tableVars, pdmVars, queueVars, pagesVars, kuVars,
                 slVars>>

SlavePart ==
  /\ part = "spi" /\ SlNext
  /\ UNCHANGED <<part, hookVars, radioVars, tableVars, pdmVars, queueVars, pagesVars, kuVars,
                 kaVars>>

HookPart ==
  /\ part = "hook" /\ HookNext
  /\ UNCHANGED <<part, radioVars, tableVars, pdmVars, queueVars, pagesVars, kuVars, kaVars, slVars>>

K32wNext ==
  \/ HookPart
  \/ Driver \/ FramePending \/ FrameCounter \/ PdmPart \/ QueuePart
  \/ PagesPart \/ UartPart \/ AlarmPart \/ SlavePart

\* Each part is scheduled as its own module says.
K32wFairness ==
  /\ WF_radioVars(part = "radio" /\ K32WRadioProcess)
  /\ WF_radioVars(part = "radio" /\ TxComplete)
  /\ \A id \in TaskId : WF_queueVars(part = "queue" /\ (Change(id) \/ Return(id)))
  /\ \A id \in TaskId : SF_queueVars(part = "queue" /\ Save(id, id))
  /\ SF_queueVars(part = "queue" /\ QueueIdleStep)
  /\ SF_queueVars(part = "queue" /\ Written)
  /\ WF_kaVars(part = "alarm" /\ TMR_eRemoveActivity)
  /\ SF_kaVars(part = "alarm" /\ K32wProcessDrivers /\ froVars' # froVars)

K32wSpec == K32wInit /\ [][K32wNext]_k32wVars /\ K32wFairness

-----------------------------------------------------------------------------
\* What the radio's handler hands to the main loop arrives whole: frames in the
\* order of their arrival, the end of a transmission only when it is over.
HandedOver == RingIsFifo /\ DoneWhenOver

\* The tables the handler reads while the main loop changes them give the
\* answer that was due: frame pending for a child, and the frame counter.
TablesExact == FpExact /\ AckCounterTrue

\* Settings reach the PDM record in whole blocks, each through one entry of the
\* queue of saves, and a write to flash pages leaves what lies before it.
StoresExact ==
  /\ PdmTypeOK /\ PdmUpToDate /\ BlocksFit
  /\ QueueTypeOK /\ EnteredOnce /\ SaveOnItsWay
  /\ EarlierBytesKept

\* What the serial links carry stays in order and whole: the characters of the
\* UART's ring, each of which is delivered once or counted as lost, and replaced
\* only if its slot was written again before it was read (KuSound); the packets
\* the SPI slave takes out of its ring, as long as it keeps up with the DMA; and
\* on the line shared with Bluetooth the one response the host waits for, for
\* which other frames may be thrown away.
SerialsSound == KuSound /\ SlInOrder /\ ResponseOnItsWay

\* The main loop does what it owes: a frame that is sent is reported, and every
\* oscillator is calibrated again and again.
MainLoopServes == SentIsReported /\ (part = "alarm" => FroInTurn)
=============================================================================
