------------------------------ MODULE MCApTim ------------------------------
(* TLC instances of the TIM and the beacon buffer: octets of two bits, so    *)
(* that two stations need two octets of the bitmap.                         *)
EXTENDS ApTim
=============================================================================
