-------------------------------- MODULE Led --------------------------------
(* The LED driver of the remote control (vendor/common/blt_led.c) as operators *)
(* on the record device_led.  On and off times only matter as zero or not;     *)
(* that the time of the present phase is over is an argument of LedProc.       *)
EXTENDS Naturals

LongOnOff == 255   \* repeatCount 0xff: stay on (offTime 0) or off (onTime 0)

LedOff == [isOn |-> FALSE, repeatCount |-> 0, priority |-> 0, on |-> FALSE, off |-> FALSE]

LedBusy(led) == led.repeatCount > 0

\* A running pattern of the same or a higher priority refuses the new one.
LedRefuses(led, cfg) == LedBusy(led) /\ led.priority >= cfg.priority

LedSetupCountsForever(led, cfg) ==
  IF LedRefuses(led, cfg) THEN led
  ELSE [isOn |-> cfg.on, priority |-> cfg.priority, on |-> cfg.on, off |-> cfg.off,
        repeatCount |-> IF (cfg.on /\ cfg.off) \/ cfg.repeatCount = LongOnOff THEN cfg.repeatCount ELSE 1]
\* device_led_setup.  A pattern without an on or an off phase is one long phase;
\* a long on or off is not busy, so the driver leaves it alone.
LedSetup(led, cfg) ==
  IF LedRefuses(led, cfg) THEN led
  ELSE [isOn |-> cfg.on, priority |-> cfg.priority, on |-> cfg.on, off |-> cfg.off,
        repeatCount |-> IF cfg.repeatCount = LongOnOff THEN 0
                        ELSE IF cfg.on /\ cfg.off THEN cfg.repeatCount ELSE 1]

\* led_proc, called while the LED is busy.
LedProc(led, over) ==
  IF ~over THEN led
  ELSE IF led.isOn
       THEN [led EXCEPT !.isOn = FALSE, !.repeatCount = IF led.off THEN @ ELSE 0]
       ELSE [led EXCEPT !.repeatCount = @ - 1, !.isOn = led.repeatCount > 1]

\* device_led_process
LedProcess(led, over) == IF LedBusy(led) THEN LedProc(led, over) ELSE led
=============================================================================
