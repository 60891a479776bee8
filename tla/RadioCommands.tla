--------------------------- MODULE RadioCommands ----------------------------
(***************************************************************************)
(* The radio commands of a host with an IWx12 co-processor: the command    *)
(* line (examples/utils/cli_addons/platform/radio_cli.c), the calls of     *)
(* src/common/spinel/radio.cpp they end in, and the co-processor's hook    *)
(* (src/iwx12/iwx12_vendor_hook.cpp).  reg is what the co-processor's      *)
(* radio holds, byte by byte; commands that read it change nothing, and    *)
(* are the values they print.                                              *)
(* An exchange may fail: the host then gets no answer, and the command was *)
(* executed or not.                                                        *)
(***************************************************************************)
EXTENDS Integers, Sequences

CONSTANTS
  LimitMax,     \* OT_NXP_PLAT_TX_PWR_LIMIT_MAX
  HalfDbm,      \* OT_NXP_PLAT_TX_PWR_HALF_DBM
  Numbers,      \* what is typed where a number is expected
  EuiLen,       \* 8
  EuiBytes,     \* what the bytes of an address are taken from
  Args,         \* arguments of encrypt and decrypt
  KeyLen, NonceLens, TagLen, TextMax,   \* 16, 7 .. 13, 10, 224
  RadioCmds     \* bound: commands typed

ASSUME RadioCommandsAssumption ==
  LimitMax \in 1 .. 127 /\ HalfDbm \in BOOLEAN /\ Numbers \subseteq Int
  /\ EuiLen \in Nat /\ Args \subseteq [hex : BOOLEAN, chars : Seq(Nat)]

VARIABLES
  mfgEnable,    \* mfgEnable
  reg,          \* what the co-processor's radio holds
  asked,        \* history: what the commands it executed asked for
  cmds          \* commands typed so far

rcVars == <<mfgEnable, reg, asked, cmds>>

\* The commands ProcessMfgCommands hands to ProcessMfgGetInt8 and
\* ProcessMfgSetInt8, by the number typed.
MfgGet ==
  [id \in {11, 15, 20, 47} |->
     CASE id = 11 -> "channel" [] id = 15 -> "txpower" [] id = 20 -> "size" [] id = 47 -> "threshold"]

MfgSet ==
  [id \in {12, 16, 17, 21, 35, 48, 55, 58} |->
     CASE id = 12 -> [of |-> "channel", min |-> 11, max |-> 26]
       [] id = 16 -> [of |-> "txpower", min |-> -20, max |-> LimitMax \div 2]
       [] id = 17 -> [of |-> "continuous", min |-> 0, max |-> 1]
       [] id = 21 -> [of |-> "size", min |-> 17, max |-> 116]
       [] id = 35 -> [of |-> "duty", min |-> 0, max |-> 1]
       [] id = 48 -> [of |-> "threshold", min |-> -110, max |-> 0]
       [] id = 55 -> [of |-> "edTest", min |-> 0, max |-> 1]
       [] id = 58 -> [of |-> "ackTest", min |-> 0, max |-> 1]]

Int8Registers == {MfgSet[c].of : c \in DOMAIN MfgSet}
NoAddress == [i \in 1 .. EuiLen |-> 0]

\* What the radio starts with.
Defaults ==
  [r \in Int8Registers \cup {"limit", "cca", "eui", "test"} |->
     CASE r = "limit" -> 128 + LimitMax
       [] r = "cca" -> <<1, 0, 0, 0>>
       [] r = "eui" -> NoAddress
       [] r = "test" -> <<0, 0, 0>>
       [] OTHER -> 0]

Told == [Defaults EXCEPT !.limit = [limit |-> LimitMax, clamp |-> TRUE]]

RcInit ==
  /\ mfgEnable = FALSE /\ cmds = 0
  /\ reg = Defaults /\ asked = Told

-----------------------------------------------------------------------------
(* Conversions.                                                            *)

Uint8(n) == n % 256
Int8(n) == IF Uint8(n) > 127 THEN Uint8(n) - 256 ELSE Uint8(n)

\* Mutant: the power is not doubled on its way out.
ToByteWhole(r, n) == Uint8(n)

\* payload[4] of a set command, and what a get command prints of it.
ToByte(r, n) == IF r = "txpower" /\ HalfDbm THEN Uint8(2 * Uint8(n)) ELSE Uint8(n)

Toward0(n) == IF n < 0 THEN -((-n) \div 2) ELSE n \div 2
FromByte(r, b) == IF r = "txpower" /\ HalfDbm THEN Toward0(Int8(b)) ELSE Int8(b)

\* The limit in seven bits, the clamping of channel 26 in the eighth.
LimitByte(n, clamp) == (n % 128) + (IF clamp THEN 128 ELSE 0)
LimitOf(b) == [limit |-> b % 128, clamp |-> b >= 128]

\* Mutant: the bytes are numbered from the front.
ToNumberFromFront(bytes) == [w \in 0 .. EuiLen - 1 |-> bytes[w + 1]]

\* The 64-bit number ProcessSetEui64 makes of the bytes, by weight; the hook
\* writes it out again, big end first.
ToNumber(bytes) == [w \in 0 .. EuiLen - 1 |-> bytes[EuiLen - w]]
WriteUint64(num) == [i \in 1 .. EuiLen |-> num[EuiLen - i]]

-----------------------------------------------------------------------------
(* An exchange with the co-processor.                                      *)

Typed == cmds < RadioCmds /\ cmds' = cmds + 1

\* The command is refused, or lost on the way there or back.
Unexecuted == UNCHANGED <<reg, asked>>

\* The co-processor's handlers: a manufacturing command, and a property set
\* and read.
VendorCommandHandler(r, value, wanted) ==
  reg' = [reg EXCEPT ![r] = value] /\ asked' = [asked EXCEPT ![r] = wanted]

VendorSetPropertyHandler(key, value, wanted) ==
  /\ reg' = [reg EXCEPT ![key] = IF key = "eui" THEN WriteUint64(value) ELSE value]
  /\ asked' = [asked EXCEPT ![key] = wanted]

VendorGetPropertyHandler(key) == reg[key]

\* otPlatRadioMfgCommand, and the setters of src/common/spinel/radio.cpp.
otPlatRadioMfgCommand(r, value, wanted) == VendorCommandHandler(r, value, wanted) \/ Unexecuted
otPlatRadioSendSetProp(key, value, wanted) == VendorSetPropertyHandler(key, value, wanted) \/ Unexecuted

\* The co-processor restarts.
Restarts == reg' = Defaults /\ asked' = Told

-----------------------------------------------------------------------------
(* The commands.                                                           *)

\* What is printed when the answer comes.
ProcessMfgGetInt8(id) == FromByte(MfgGet[id], reg[MfgGet[id]])

\* The value is cut to eight bits before its range is tested.
ProcessMfgSetInt8(id, n) ==
  /\ id \in DOMAIN MfgSet
  /\ LET c == MfgSet[id]
         setValue == Int8(n)
     IN  IF setValue \in c.min .. c.max
         THEN otPlatRadioMfgCommand(c.of, ToByte(c.of, setValue), setValue) ELSE Unexecuted
  /\ UNCHANGED mfgEnable

\* UNMODULATED_CW_TX, START_RX_TEST, BURST_TX, CONTINOUS_CCA_TEST,
\* PHY_TX_TEST_PSDU and SET_GENERIC_PARAM, with their first two parameters.
TestAllowed(id, a, b) ==
  \/ id = 18 /\ a < 2
  \/ id \in {32, 59}
  \/ id \in {33, 57} /\ a < 8 /\ b > 5
  \/ id = 49 /\ a < 2 /\ b < 5

MfgTest(id, a, b) ==
  /\ TestAllowed(id, a, b)
  /\ otPlatRadioMfgCommand("test", <<id, a, b>>, <<id, a, b>>)
  /\ UNCHANGED mfgEnable

\* CRASH_SIMULATION; GET_SET_LATENCY without its parameters falls through to it.
MfgCrash(id) ==
  /\ id \in {60, 72}
  /\ Restarts \/ Unexecuted
  /\ UNCHANGED mfgEnable

\* Twelve numbers that are no command are the co-processor's: sent untested.
MfgDirect(id, n) ==
  /\ id \in DOMAIN MfgSet
  /\ otPlatRadioMfgCommand(MfgSet[id].of, Uint8(n), FromByte(MfgSet[id].of, Uint8(n)))
  /\ UNCHANGED mfgEnable

ProcessMfgCommands ==
  \/ \E on \in BOOLEAN : mfgEnable' = on /\ UNCHANGED <<reg, asked, cmds>>
  \/ /\ mfgEnable /\ Typed
     /\ \/ \E id \in DOMAIN MfgSet, n \in Numbers : ProcessMfgSetInt8(id, n) \/ MfgDirect(id, n)
        \/ \E id \in {18, 32, 33, 49, 57, 59}, a, b \in Numbers : MfgTest(id, Uint8(a), Uint8(b))
        \/ \E id \in {60, 72} : MfgCrash(id)

ProcessTxPowerLimit ==
  /\ Typed /\ UNCHANGED mfgEnable
  /\ \E n \in Numbers, clamp \in BOOLEAN :
       /\ Uint8(n) \in 1 .. LimitMax
       /\ otPlatRadioSendSetProp("limit", LimitByte(Uint8(n), clamp), [limit |-> Uint8(n), clamp |-> clamp])

\* otPlatRadioCcaConfigValue: the mode, two thresholds (taken as constant) and
\* the number of correlations, in the one order all handlers use.
CcaFields(mode, corr) == <<Uint8(mode), 0, 1, Uint8(corr)>>

ProcessGetSetCcaCfg ==
  /\ Typed /\ UNCHANGED mfgEnable
  /\ \E mode, corr \in Numbers :
       /\ Uint8(mode) \in 1 .. 4 \cup {255} /\ Uint8(corr) <= 6
       /\ LET cfg == CcaFields(mode, corr) IN otPlatRadioSendSetProp("cca", cfg, cfg)

\* The hook sets the address; it has no getter for it, and answers so.
ProcessSetEui64 ==
  /\ Typed
  /\ \E bytes \in [1 .. EuiLen -> EuiBytes] :
       otPlatRadioSendSetProp("eui", ToNumber(bytes), bytes)
  /\ UNCHANGED mfgEnable

\* ProcessIRCmd: otPlatResetOt.
ProcessIRCmd ==
  /\ Typed /\ Restarts
  /\ UNCHANGED mfgEnable

RcRests == cmds = RadioCmds /\ UNCHANGED rcVars

RcNext ==
  \/ ProcessMfgCommands \/ ProcessTxPowerLimit \/ ProcessGetSetCcaCfg
  \/ ProcessSetEui64 \/ ProcessIRCmd \/ RcRests

RcSpec == RcInit /\ [][RcNext]_rcVars

-----------------------------------------------------------------------------
(* encrypt and decrypt.  An argument is hexadecimal after 0x, two digits a *)
(* byte and an odd one dropped, or else one character a byte.              *)

\* M_AHTOH and M_ATOH; the text itself is not converted.
Bytes(arg, text) ==
  IF arg.hex THEN [i \in 1 .. Len(arg.chars) \div 2 |-> 16 * arg.chars[2 * i - 1] + arg.chars[2 * i]]
  ELSE [i \in 1 .. Len(arg.chars) |-> arg.chars[i] + (IF text THEN 48 ELSE 0)]

\* Mutant: the length of a hexadecimal argument is that of its digits.
FieldOfDigits(arg, text) == <<Len(arg.chars)>> \o Bytes(arg, text)

Field(arg, text) == <<Len(Bytes(arg, text))>> \o Bytes(arg, text)

ProcessAES128CCMEncrypt(key, nonce, pt) ==
  <<11, 70, 0, 0>> \o Field(key, FALSE) \o Field(nonce, FALSE) \o Field(pt, TRUE)

\* A text that is not hexadecimal is refused in the log only: as many zeros are
\* sent as it has characters, and one for its length.
mfgGenericCommand(type, data) ==
  <<6, 255, 1, 0, type>>
  \o (IF data.hex THEN Field(data, FALSE) ELSE [i \in 1 .. Len(data.chars) + 1 |-> 0])

Payload(key, nonce, tag, ct) ==
  <<11, 71, 1, 0>> \o Field(key, FALSE) \o Field(nonce, FALSE) \o Field(tag, FALSE) \o Field(ct, TRUE)

\* The fields of a payload, one after the other; the rest of it is zero.
Unpacked(payload, n) ==
  LET byte(i) == IF i \in DOMAIN payload THEN payload[i] ELSE 0
      at[i \in 1 .. n] == IF i = 1 THEN 5 ELSE at[i - 1] + byte(at[i - 1]) + 1
  IN  [i \in 1 .. n |-> [j \in 1 .. byte(at[i]) |-> byte(at[i] + j)]]

\* Decryption is done here, with the fields read back; refused is <<>>.
ProcessAES128CCMDecrypt(key, nonce, tag, ct) ==
  LET f == Unpacked(Payload(key, nonce, tag, ct), 4)
  IN  IF Len(f[1]) = KeyLen /\ Len(f[2]) \in NonceLens /\ Len(f[3]) = TagLen /\ Len(f[4]) <= TextMax
      THEN f ELSE <<>>

-----------------------------------------------------------------------------
\* What the reading commands print is what the last command the co-processor
\* executed set, whatever was refused, lost or restarted in between, although
\* bytes, signs, halves of dBm and a flag bit lie between the two command lines;
\* and the address it holds is the one typed.
ShownTrue ==
  /\ \A id \in DOMAIN MfgGet : ProcessMfgGetInt8(id) = asked[MfgGet[id]]
  /\ LimitOf(VendorGetPropertyHandler("limit")) = asked.limit
  /\ VendorGetPropertyHandler("cca") = asked.cca /\ reg.eui = asked.eui

\* The co-processor, or the decryption done here, finds in the payload the bytes
\* that were typed, each field where the lengths before it say.
CryptoExact ==
  \A key, nonce, tag, text \in Args :
    LET typed == <<Bytes(key, FALSE), Bytes(nonce, FALSE), Bytes(tag, FALSE), Bytes(text, TRUE)>>
    IN  /\ Unpacked(ProcessAES128CCMEncrypt(key, nonce, text), 3) = <<typed[1], typed[2], typed[4]>>
        /\ ProcessAES128CCMDecrypt(key, nonce, tag, text) \in {typed, <<>>}
        /\ key.hex => mfgGenericCommand(55, key) = <<6, 255, 1, 0, 55, Len(typed[1])>> \o typed[1]
=============================================================================
