-------------------------- MODULE MCFastbootGadget --------------------------
(* Instances of the fastboot function with a host that may do anything.     *)
EXTENDS FastbootGadget

MCCapacity == [p \in Part |-> IF p = "bootloader" THEN 1 ELSE BufSize]

(* No handler reads what the media hold: states that differ only there have *)
(* the same steps.                                                          *)
Control == <<rxVars, txVars, envVars, tabVars, curr_device, card>>
=============================================================================
