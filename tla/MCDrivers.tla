----------------------------- MODULE MCDrivers ------------------------------
(* The small parts of the firmware that share no state, each in an instance of *)
(* its own: a behaviour belongs to one part, chosen at the beginning, and      *)
(* leaves the others where they started.  No property relates two parts.       *)
EXTENDS KeyScan, VoiceEncoder, Adpcm, PcMailbox, UsbControl, ManagedMemory

VARIABLE part   \* the part the behaviour belongs to

MCKeys == {<<1, 1>>, <<2, 1>>}            \* two scan lines on one drive pin
MCSamples == {-32768, 0, 32767}         \* both ends of the range and silence
MCDescriptorSize == [device |-> 3, config |-> 4, string |-> 2]  \* odd, two packets, one packet

vars == <<part, keyVars, voiceVars, codecVars, mailVars, ctlVars, memVars>>

Init ==
  /\ part \in {"keys", "voice", "codec", "mail", "usb", "memory"}
  /\ KeyInit /\ VoiceInit /\ CodecInit /\ MailInit /\ CtlInit /\ MemInit

Keys   == part = "keys" /\ KeyNext
          /\ UNCHANGED <<part, voiceVars, codecVars, mailVars, ctlVars, memVars>>
Voice  == part = "voice" /\ VoiceNext
          /\ UNCHANGED <<part, keyVars, codecVars, mailVars, ctlVars, memVars>>
Codec  == part = "codec" /\ CodecNext
          /\ UNCHANGED <<part, keyVars, voiceVars, mailVars, ctlVars, memVars>>
Mail   == part = "mail" /\ MailNext
          /\ UNCHANGED <<part, keyVars, voiceVars, codecVars, ctlVars, memVars>>
Usb    == part = "usb" /\ CtlNext
          /\ UNCHANGED <<part, keyVars, voiceVars, codecVars, mailVars, memVars>>
Memory == part = "memory" /\ MemNext
          /\ UNCHANGED <<part, keyVars, voiceVars, codecVars, mailVars, ctlVars>>

Next == Keys \/ Voice \/ Codec \/ Mail \/ Usb \/ Memory

\* KeyFair, MailFair and CtlFair, each for the behaviours of its part.
Fairness ==
  /\ WF_keyVars(part = "keys" /\ KbScanKey("read"))
  /\ WF_keyVars(part = "keys" /\ KbFindLines)
  /\ WF_keyVars(part = "keys" /\ KbScanKeyValue)
  /\ WF_mailVars(part = "mail" /\ TestMail) /\ WF_mailVars(part = "mail" /\ WriteRelease)
  /\ WF_mailVars(part = "mail" /\ ToolRead) /\ WF_mailVars(part = "mail" /\ ToolClear)
  /\ WF_ctlVars(part = "usb" /\ UsbHandleIrq) /\ WF_ctlVars(part = "usb" /\ HostData)

Spec == Init /\ [][Next]_vars /\ Fairness

\* The type invariants of the parts; VoiceTypeOK says as well that the packet
\* ring never holds more packets than it has places.
TypeOK ==
  KeyTypeOK /\ VoiceTypeOK /\ CodecTypeOK /\ MailTypeOK /\ CtlTypeOK /\ MemTypeOK
=============================================================================
