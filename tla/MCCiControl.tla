---------------------------- MODULE MCCiControl ----------------------------
(* A small instance of CiControl.                                          *)
EXTENDS CiControl
=============================================================================
