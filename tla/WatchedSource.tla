------------------------------ MODULE WatchedSource ------------------------------
(***************************************************************************)
(* What a loader may expect of a configuration source                      *)
(* (config/source/source.go): the change sets it receives are contents the *)
(* source really had, and they never go back.  It may be late, and it may  *)
(* skip contents.                                                          *)
(***************************************************************************)
EXTENDS Naturals

VARIABLES
    version,    \* the number of the content the source has now
    held        \* the number of the content the loader took last

sourceVars == <<version, held>>

Init == version = 0 /\ held = 0

Change == version' = version + 1 /\ UNCHANGED held

\* The loader takes a content at least as new as the one it has.
Adopt == held' \in held + 1 .. version /\ UNCHANGED version

Next == Change \/ Adopt

Spec == Init /\ [][Next]_sourceVars
==================================================================================
