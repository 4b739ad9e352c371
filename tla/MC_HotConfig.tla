------------------------------- MODULE MC_HotConfig -------------------------------
(***************************************************************************)
(* Instances of HotConfig for TLC.                                         *)
(***************************************************************************)
EXTENDS HotConfig

WatchAll == [w \in Watcher |-> Path]
====================================================================================
