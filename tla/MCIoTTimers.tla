---------------------------- MODULE MCIoTTimers ----------------------------
(* IoTTimers as the monitor uses it while no command of main replaces a     *)
(* timer (TimersCallbacks), and as the factory test does (TimersFactory).   *)
EXTENDS IoTTimers
=============================================================================
