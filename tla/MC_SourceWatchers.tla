---------------------------- MODULE MC_SourceWatchers ----------------------------
(***************************************************************************)
(* An instance of SourceWatchers for TLC.                                  *)
(***************************************************************************)
EXTENDS SourceWatchers

AllKinds == {"key", "file", "static"}
==================================================================================
