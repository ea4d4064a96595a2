---------------------------- MODULE MCM2XSensors ----------------------------
(* M2XSensors with the first two devices. *)
EXTENDS M2XSensors

TwoDevices == <<"HTS221", "LIS2DW12">>
=============================================================================
