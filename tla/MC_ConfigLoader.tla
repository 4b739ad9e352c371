----------------------------- MODULE MC_ConfigLoader -----------------------------
(***************************************************************************)
(* Instances of ConfigLoader for TLC.                                      *)
(***************************************************************************)
EXTENDS ConfigLoader

CONSTANTS s1, s2, w1, w2, x, y, a, b

XAndY == [w \in Watcher |-> IF w = w1 THEN {x} ELSE {y}]
OnlyX == [w \in Watcher |-> {x}]
AllEmpty == [s \in Source |-> EmptyDoc]
AllA == [s \in Source |-> [p \in Path |-> a]]
FirstBad == [s \in Source |-> IF s = s1 THEN Bad ELSE EmptyDoc]
NoGiven == <<>>
GivenFirst == <<s1>>
GivenAll == <<s1, s2>>
Strict == {1}
Coarse == {0, 1}
==================================================================================
