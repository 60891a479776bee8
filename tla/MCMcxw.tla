------------------------------- MODULE MCMcxw -------------------------------
(***************************************************************************)
(* The parts of the mcxw platform beside the radio's state machine and the *)
(* settings in a file, which have runs of their own.  part says which of   *)
(* them a behaviour is about; the others rest.                             *)
(***************************************************************************)
EXTENDS RxRing, McxwAlarm, McxwUart, NvmSettings, NbuSystem

VARIABLE part

mcxwVars ==
  <<part, ringVars, alarmVars, muVars, nvVars, nbuVars, serVars>>

McxwInit ==
  /\ part \in {"ring", "alarm", "uart", "nvm", "services", "serial"}
  /\ RingInit /\ AlarmInit /\ MuInit /\ NvmInit /\ ServicesInit /\ SerialInit
  /\ part # "nvm" => nvOnIdle

RxRingPart ==
  /\ part = "ring" /\ RingNext
  /\ UNCHANGED <<part, alarmVars, muVars, nvVars, nbuVars, serVars>>

AlarmPart ==
  /\ part = "alarm" /\ AlarmNext
  /\ UNCHANGED <<part, ringVars, muVars, nvVars, nbuVars, serVars>>

UartPart ==
  /\ part = "uart" /\ MuNext
  /\ UNCHANGED <<part, ringVars, alarmVars, nvVars, nbuVars, serVars>>

NvmPart ==
  /\ part = "nvm" /\ NvmNext
  /\ UNCHANGED <<part, ringVars, alarmVars, muVars, nbuVars, serVars>>

ServicesPart ==
  /\ part = "services" /\ ServicesNext
  /\ UNCHANGED <<part, ringVars, alarmVars, muVars, nvVars, serVars>>

SerialPart ==
  /\ part = "serial" /\ SerialNext
  /\ UNCHANGED <<part, ringVars, alarmVars, muVars, nvVars, nbuVars>>

McxwNext ==
  \/ RxRingPart \/ AlarmPart \/ UartPart \/ NvmPart \/ ServicesPart
  \/ SerialPart

\* Each part is scheduled as its own module says.
McxwFairness ==
  /\ WF_ringVars(part = "ring" /\ Task)
  /\ WF_ringVars(part = "ring" /\ (GetFree \/ DropFull \/ Fill \/ Push))
  /\ SF_alarmVars(part = "alarm" /\ Tick)
  /\ WF_alarmVars(part = "alarm" /\ LoopStep)
  /\ SF_alarmVars(part = "alarm" /\ TimeGet)
  /\ \A a \in Alarm : SF_alarmVars(part = "alarm" /\ TimerInterrupt(a))
  /\ WF_nbuVars(part = "services" /\ McStep)
  /\ WF_nbuVars(part = "services" /\ NbuStep)
  /\ WF_serVars(part = "serial" /\ SerialStep)

McxwSpec == McxwInit /\ [][McxwNext]_mcxwVars /\ McxwFairness

-----------------------------------------------------------------------------
\* The alarms are exact: the 64-bit clock loses no tick when the counter wraps,
\* each timer ends when OpenThread wants it, and the core does not sleep with an
\* alarm or a tasklet in hand.
AlarmsExact == AlarmTypeOK /\ TimeTrue /\ OnTime /\ AwakeForWork

\* The stream between the cores carries console text and requests without
\* mixing them up, and the settings survive a reset OpenThread asks for.
NbuSound == NbuResetKeeps /\ ConsoleWhole

\* The radio core waits for the main core and the main core's input reaches
\* it, for neither core sleeps with work in hand.
NbuProgress == NbuWaitEnds /\ InputArrives
=============================================================================
