---------------------------- MODULE MCGasSampler ----------------------------
(* GasSampler with two block numbers and two fees.                         *)
EXTENDS GasSampler
=============================================================================
