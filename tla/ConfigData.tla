------------------------------- MODULE ConfigData -------------------------------
(***************************************************************************)
(* Configuration content and how sources are merged                        *)
(* (config/reader/json/json.go, values.go).                                *)
(*                                                                         *)
(* A document assigns a value, or nothing, to each path.  A change set is  *)
(* what a source returns: a document, or Bad when its bytes cannot be      *)
(* decoded.  A source with no bytes is the empty document: Merge skips it. *)
(***************************************************************************)
EXTENDS Integers, Sequences

CONSTANTS
    Path,       \* configuration keys
    Value,      \* values a key may have
    None,       \* the key is absent
    Bad         \* a change set whose bytes do not decode

Doc == [Path -> Value \cup {None}]

ChangeSet == Doc \cup {Bad}

ASSUME DataAssumption ==
    /\ None \notin Value
    /\ Bad \notin Doc

EmptyDoc == [p \in Path |-> None]

\* The part of a document that lies under the paths ps.
View(ps, doc) == [p \in ps |-> doc[p]]

\* One undecodable change set makes the whole merge fail.
Mergeable(order, sets) == \A i \in DOMAIN order : sets[order[i]] # Bad

\* The values path p has in the last source of the order that defines it
\* (at most one).
LastDefined(order, sets, p) ==
    {v \in Value : \E i \in DOMAIN order :
        /\ sets[order[i]][p] = v
        /\ \A j \in DOMAIN order : j > i => sets[order[j]][p] = None}

\* Later sources override earlier ones, path by path.
Merge(order, sets) ==
    [p \in Path |->
        LET winners == LastDefined(order, sets, p)
        IN  IF winners = {} THEN None ELSE CHOOSE v \in winners : TRUE]
=================================================================================
