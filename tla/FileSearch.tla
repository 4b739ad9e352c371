-------------------------------- MODULE FileSearch --------------------------------
(***************************************************************************)
(* The search for configuration files (config/config_helper.go): which     *)
(* files LoadServiceConfig loads, in which order.                          *)
(*                                                                         *)
(* A name is a number, numbers are in the order of the names; a directory  *)
(* or a file is the sequence of names that leads to it.                    *)
(***************************************************************************)
EXTENDS Naturals, FiniteSets, SequencesExt

CONSTANTS
    Roots,      \* conf, config, configs below the working directory, in this order
    Env,        \* values of DEPLOY_ENV
    NoEnv,      \* it is empty
    EndsWith    \* the pairs of a file's stem and an Env the stem ends with

SearchAssumption ==
    /\ Roots \in Seq(Seq(Nat))
    /\ NoEnv \in Env

\* sort.Slice and ReadDir, directory by directory: paths are in lexical order.
Before(p, q) ==
    \E i \in DOMAIN p \cap DOMAIN q :
      SubSeq(p, 1, i - 1) = SubSeq(q, 1, i - 1) /\ p[i] < q[i]

\* The number i is the one that i - 1 others are before.
Sorted(P) ==
    [i \in 1 .. Cardinality(P) |->
        CHOOSE p \in P : Cardinality({q \in P : Before(q, p)}) = i - 1]

Below(dir, file) == Len(dir) < Len(file) /\ SubSeq(file, 1, Len(dir)) = dir

\* The files of a tree are records of their path, the stem of their name and whether
\* their suffix is supported.
Selected(file, env) ==
    file.supported /\ (env = NoEnv \/ <<file.stem, env>> \in EndsWith)

\* The files in dir itself, and with recursive those in the directories below it.
collectFileSources(tree, dir, env, recursive) ==
    Sorted({f.path : f \in {g \in tree : /\ Below(dir, g.path) /\ Selected(g, env)
                                         /\ recursive \/ Len(g.path) = Len(dir) + 1}})

\* The sources of the first directory that has any.
firstFileSources(tree, dirs, env, recursive) ==
    LET found == [i \in DOMAIN dirs |-> collectFileSources(tree, dirs[i], env, recursive)]
        hits  == {i \in DOMAIN dirs : found[i] # <<>>}
    IN  IF hits = {} THEN <<>>
        ELSE found[CHOOSE i \in hits : \A j \in hits : i <= j]

\* CONFIG_PATH, <<>> when it is not set, goes first.
Places(configPath) == (IF configPath = <<>> THEN <<>> ELSE <<configPath>>) \o Roots

\* The directories of the service below each place, with what is below them.
InServiceDir(tree, service, configPath, env) ==
    LET places == Places(configPath)
    IN  firstFileSources(tree, [i \in DOMAIN places |-> Append(places[i], service)],
                         env, TRUE)

\* Mutated form of InPlace: directories below the place are searched as well.
InPlaceAndBelow(tree, configPath, env) ==
    firstFileSources(tree, Places(configPath), env, TRUE)

\* The files in the places themselves.
InPlace(tree, configPath, env) ==
    firstFileSources(tree, Places(configPath), env, FALSE)

serviceSources(tree, service, configPath, env) ==
    LET own == InServiceDir(tree, service, configPath, env)
    IN  IF own # <<>> THEN own ELSE InPlace(tree, configPath, env)

(***************************************************************************)
(* Properties.                                                             *)
(***************************************************************************)

\* The file lies in the directory another service has below the place.
OfOthers(place, service, file) ==
    /\ Below(place, file) /\ Len(file) > Len(place) + 1
    /\ file[Len(place) + 1] # service

\* The place is not below another one, and no other is below it.
Apart(place, places) ==
    \A other \in ToSet(places) : ~Below(place, other) /\ ~Below(other, place)

\* Either all that a service loads is in its directory of one place, and no earlier
\* place has such a file, or all of it is in one place itself, and no place has a file
\* for the service.  Nothing of it is in the directory another service has in a place
\* that is apart from the others; with CONFIG_PATH=conf/other it may be, since that
\* place is itself the other's directory (config_helper.go serviceSources 88-102,
\* firstFileSources).
ServiceLoadsItsOwn(tree, service, configPath, env) ==
    LET sources == ToSet(serviceSources(tree, service, configPath, env))
        places  == Places(configPath)
        Own(i)  == {f.path : f \in {g \in tree : /\ Selected(g, env)
                                                 /\ Below(Append(places[i], service), g.path)}}
    IN  /\ sources # {} =>
             \E i \in DOMAIN places :
               \/ sources = Own(i) /\ \A j \in 1 .. i - 1 : Own(j) = {}
               \/ /\ \A p \in sources : Below(places[i], p) /\ Len(p) = Len(places[i]) + 1
                  /\ \A j \in DOMAIN places : Own(j) = {}
        /\ \A p \in sources, i \in DOMAIN places :
             Apart(places[i], places) => ~OfOthers(places[i], service, p)
==================================================================================
