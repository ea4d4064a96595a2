----------------------------- MODULE MCGpioLeds -----------------------------
(* GpioLeds with a few commands at the prompt. *)
EXTENDS GpioLeds
=============================================================================
