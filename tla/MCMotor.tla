------------------------------ MODULE MCMotor ------------------------------
(***************************************************************************)
(* One driver thread against the SDK's thread and the escape manoeuvre;    *)
(* ramps of three steps.  MotionProofs covers any number of drivers.       *)
(***************************************************************************)
EXTENDS MotorController
=============================================================================
