-------------------------------- MODULE MC_Delivery --------------------------------
(***************************************************************************)
(* Instances of Delivery for TLC: its .cfg files give every constant a set *)
(* of model values.                                                        *)
(***************************************************************************)
EXTENDS Delivery
=====================================================================================
