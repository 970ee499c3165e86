------------------------------ MODULE MCCiUdc ------------------------------
(* A small instance of CiUdc.                                              *)
EXTENDS CiUdc
=============================================================================
