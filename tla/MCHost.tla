------------------------------- MODULE MCHost -------------------------------
(***************************************************************************)
(* The parts of a host with a co-processor radio, and of the platform      *)
(* layer its ports share.  part says which of them a behaviour is about;   *)
(* the others rest.                                                        *)
(***************************************************************************)
EXTENDS SpinelHdlc, SpiInterface, LfsSettings, NvsSettings, CliUart,
        FreertosAlarm, RadioCommands

VARIABLE part

hostVars ==
  <<part, rcVars, receiveVars, sendVars, spVars, lfVars, nsVars, cuVars, faVars>>

\* Frames of all kinds, in an order that leaves partial frames between.
MixedKinds == <<"spinel", "other", "spinel", "spinel", "bad", "spinel", "spinel", "other">>

\* Arguments in hexadecimal, one with an odd digit, and as characters.
SomeArgs ==
  {[hex |-> TRUE, chars |-> <<1, 2, 3, 4>>], [hex |-> TRUE, chars |-> <<1, 2, 3>>],
   [hex |-> FALSE, chars |-> <<7>>], [hex |-> FALSE, chars |-> <<5, 6>>]}

HostInit ==
  /\ part \in {"receive", "send", "spi", "lfs", "nvs", "uart", "alarm", "commands"}
  /\ RcInit
  /\ ReceiveInit /\ SendInit /\ SpiInit /\ LfsInit /\ NvsInit /\ UartInit
  /\ FaInit

HdlcReceivePart ==
  /\ part = "receive" /\ ReceiveNext
  /\ UNCHANGED <<part, rcVars, sendVars, spVars, lfVars, nsVars, cuVars, faVars>>

HdlcSendPart ==
  /\ part = "send" /\ SendNext
  /\ UNCHANGED <<part, rcVars, receiveVars, spVars, lfVars, nsVars, cuVars, faVars>>

SpiPart ==
  /\ part = "spi" /\ SpiNext
  /\ UNCHANGED <<part, rcVars, receiveVars, sendVars, lfVars, nsVars, cuVars, faVars>>

LfsPart ==
  /\ part = "lfs" /\ LfsNext
  /\ UNCHANGED <<part, rcVars, receiveVars, sendVars, spVars, nsVars, cuVars, faVars>>

NvsPart ==
  /\ part = "nvs" /\ NvsNext
  /\ UNCHANGED <<part, rcVars, receiveVars, sendVars, spVars, lfVars, cuVars, faVars>>

UartPart ==
  /\ part = "uart" /\ UartNext
  /\ UNCHANGED <<part, rcVars, receiveVars, sendVars, spVars, lfVars, nsVars, faVars>>

AlarmPart ==
  /\ part = "alarm" /\ FaNext
  /\ UNCHANGED <<part, rcVars, receiveVars, sendVars, spVars, lfVars, nsVars, cuVars>>

CommandsPart ==
  /\ part = "commands" /\ RcNext
  /\ UNCHANGED <<part, receiveVars, sendVars, spVars, lfVars, nsVars, cuVars, faVars>>

HostNext ==
  \/ CommandsPart
  \/ HdlcReceivePart \/ HdlcSendPart \/ SpiPart \/ LfsPart \/ NvsPart
  \/ UartPart \/ AlarmPart

\* Each part is scheduled as its own module says.
HostFairness ==
  /\ WF_receiveVars(part = "receive" /\ RxStep)
  /\ WF_receiveVars(part = "receive" /\ (\E n \in 1 .. MaxChunk : Receive(n)))
  /\ SF_receiveVars(part = "receive" /\ Process)
  /\ SF_receiveVars(part = "receive" /\ Handle)
  /\ WF_receiveVars(part = "receive" /\ (FrameReady \/ Timeout))
  /\ \A t \in Task : SF_sendVars(part = "send" /\ Step(t))
  /\ WF_spVars(part = "spi" /\ PushPullSpi)
  /\ SF_spVars(part = "spi" /\ SpiProcess)
  /\ WF_spVars(part = "spi" /\ SpiFree)
  /\ SF_spVars(part = "spi" /\ SpiWaitOver)
  /\ SF_spVars(part = "spi" /\ (\E who \in SpiCaller : Exchange(who, TRUE)))
  /\ WF_cuVars(part = "uart" /\ UartTask)
  /\ WF_cuVars(part = "uart" /\ Uart_TxCallBack)

HostSpec == HostInit /\ [][HostNext]_hostVars /\ HostFairness

-----------------------------------------------------------------------------
\* What crosses the Spinel link is whole: every intact frame from the
\* co-processor is in one place, once, in the order of the wire, every message
\* to it is one complete frame of one task, and the values in the commands for
\* its radio come out of all conversions as they were typed.
SpinelWhole ==
  /\ ReceiveTypeOK /\ InOrder /\ NoLostWakeup
  /\ SendTypeOK /\ WholeFrames
  /\ part = "commands" => ShownTrue /\ CryptoExact

\* The Spinel link does not stop: over HDLC all frames are handled and each
\* SendFrame returns; over SPI what either side has to send gets across, though
\* exchanges fail, are too short or find no buffer.
SpinelProgress == (part = "receive" => AllHandled) /\ SendReturns /\ SpiDelivered
=============================================================================
