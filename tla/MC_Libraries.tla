------------------------------- MODULE MC_Libraries -------------------------------
(***************************************************************************)
(* The parts of finokit that have no larger instance, each on a small one  *)
(* of its own.  They share no state: focus names the one a behaviour is    *)
(* about, and the others stay where they are.                              *)
(***************************************************************************)
EXTENDS ObjectStore, Pagination, ErrorCodes, GlobalConfig, ServiceSubscriptions

CONSTANTS
    NoEnv, Address, Blank, DefaultRetries, DefaultMinBackoff, DefaultMaxBackoff,
    DefaultConns, Invalid,
    users, orders, l1, l2, i1, i2, s1

VARIABLES
    focus,
    input       \* of an algorithm, or the callers of the global configuration

(***************************************************************************)
(* The instances.                                                          *)
(***************************************************************************)

AllBuckets == {[k \in K |-> 1] : K \in SUBSET Key}

PageSizes == {-1, 0, 1, 9}

\* The third path differs from the first one only in what sanitizeFileName drops.
GoFile == <<"user", "order", "user">>

Module(bizCode, definitions) == [appCode |-> 1, bizCode |-> bizCode, errorCode |-> definitions]

Definition(name, code) == [name |-> name, code |-> code]

\* Empty, correct, with the same full code, a name twice, the same Go file, numbers
\* that are out of range, the name of another definition's function, and a name that
\* is not exported.
SomeCatalogues ==
    LET one   == Module(1, <<Definition("A", 1), Definition("B", 2)>>)
        two   == Module(2, <<Definition("C", 1)>>)
        same  == Module(1, <<Definition("D", 2)>>)
        again == Module(2, <<Definition("A", 9999)>>)
        big   == Module(10000, <<Definition("E", 1)>>)
        twice == Module(3, <<Definition("F", 1), Definition("G", 1)>>)
        new   == Module(2, <<Definition("NewA", 1)>>)
        local == Module(3, <<Definition("f", 1)>>)
    IN  { <<NoFile, NoFile, NoFile>>, <<one, two, NoFile>>, <<one, NoFile, NoFile>>,
          <<two, one, NoFile>>, <<one, same, NoFile>>, <<one, again, NoFile>>,
          <<one, NoFile, two>>, <<NoFile, big, one>>, <<twice, two, NoFile>>,
          <<one, new, NoFile>>, <<two, local, NoFile>> }

FunctionsOf ==
    [n \in {"A", "B", "C", "D", "E", "F", "G", "NewA"} |->
       {"New" \o n, "Wrap" \o n, "Is" \o n}]

For(service, method) == [service |-> service, method |-> method, topic |-> TRUE]

\* orders has an endpoint without a handler, after one that every service serves.
Mixed == << For(users, "create"), For(Other, "create"), For(Every, "audit"),
            For(users, "update"), For(orders, "create"), For(orders, "cancel") >>

TwoServices == {users, orders}
Methods == {"create", "update", "audit"}

\* Who calls: two InitDefaults, two Loads, or a ScanFrom with both.
Callers == {{l1, i1, i2}, {l1, l2, i1}, {l1, i1, s1}}

\* conf and config; 3 and 4 are services, 5 to 7 files, 9 a directory outside.
Roots == << <<1>>, <<2>> >>

Env == {NoEnv, "prod"}

EndsWith == {<<"prod", "prod">>, <<"preprod", "prod">>}

Search == INSTANCE FileSearch

SearchFile(path, stem) ==
    [path |-> path, stem |-> stem, supported |-> stem # "notes"]

SearchFiles ==
    { SearchFile(<<1, 5>>, "prod"), SearchFile(<<1, 3, 5>>, "prod"),
      SearchFile(<<1, 3, 6>>, "dev"), SearchFile(<<1, 3, 4, 5>>, "preprod"),
      SearchFile(<<1, 4, 7>>, "notes"), SearchFile(<<1, 4, 5>>, "prod"),
      SearchFile(<<2, 3, 5>>, "prod"), SearchFile(<<2, 6>>, "dev"),
      SearchFile(<<9, 5>>, "prod"), SearchFile(<<9, 3, 5>>, "prod") }

Searches ==
    [tree : SUBSET SearchFiles, service : {3, 4}, configPath : {<<>>, <<9>>, <<1, 3>>},
     env : Env]

Spelling == [mysql |-> "mysql", MySQL |-> "mysql", sqlite |-> "sqlite", postgres |-> "postgres"]

Providers == INSTANCE ProviderConfig

RedisConfigs ==
    [addresses : {<<>>, <<Blank>>} \cup [1 .. 2 -> Address \cup {Blank}],
     db : {-1, 0, 1}, poolSize : {-1, 0}, minIdle : {-1, 0},
     maxRetries : {-2, -1, 0, 1},
     minBackoff : {-2, -1, 0, 5, DefaultMaxBackoff + 1},
     maxBackoff : {-2, -1, 0, 5, DefaultMaxBackoff + 1},
     dialTimeout : {-1, 0}, rwTimeout : {-3, -2}]

DBConfigs ==
    [driver : DOMAIN Spelling \cup {"oracle"}, dsn : {Blank, "dsn"},
     maxOpen : {-1, 0, 1}, maxIdle : {-1, 0, 1}]

ASSUME LibrariesAssumption == Search!SearchAssumption /\ Providers!ProviderAssumption

(***************************************************************************)
(* One behaviour is about one of them.                                     *)
(***************************************************************************)

\* What a machine starts with when the behaviour is not about it.
StoreIdle == ~bucket /\ file = 0
PagesIdle == codec = CHOOSE k \in CipherKey : TRUE
CodesIdle == catalogue = <<NoFile, NoFile, NoFile>>

LibrariesInit ==
    /\ focus \in {"store", "pages", "codes", "global", "service", "search", "redis", "db"}
    /\ Init /\ (focus = "store" \/ StoreIdle)
    /\ PagesInit /\ (focus = "pages" \/ PagesIdle)
    /\ CodesInit /\ (focus = "codes" \/ CodesIdle)
    /\ GlobalInit /\ ServiceInit
    /\ input \in CASE focus = "search" -> Searches
                   [] focus = "global" -> Callers
                   [] focus = "redis"  -> RedisConfigs
                   [] focus = "db"     -> DBConfigs
                   [] OTHER            -> {<<>>}

LibrariesNext ==
    \/ focus = "store" /\ Next /\ UNCHANGED <<pageVars, codeVars, globalVars, serviceVars>>
    \/ focus = "pages" /\ PagesNext /\ UNCHANGED <<vars, codeVars, globalVars, serviceVars>>
    \/ focus = "codes" /\ CodesNext /\ UNCHANGED <<vars, pageVars, globalVars, serviceVars>>
    \/ /\ focus = "global" /\ GlobalNext
       /\ \A c \in Caller \ input : UNCHANGED call[c]
       /\ UNCHANGED <<vars, pageVars, codeVars, serviceVars>>
    \/ focus = "service" /\ ServiceNext /\ UNCHANGED <<vars, pageVars, codeVars, globalVars>>

libraryVars == <<focus, input, vars, pageVars, codeVars, globalVars, serviceVars>>

LibrariesSpec ==
    LibrariesInit /\ [][LibrariesNext /\ UNCHANGED <<focus, input>>]_libraryVars

(***************************************************************************)
(* Properties of the algorithms; the machines bring theirs.                *)
(***************************************************************************)

\* A service loads files of its own, or those every service may, and none of another
\* service in a place that is apart (config_helper.go serviceSources).
ServiceLoadsItsOwn ==
    focus = "search" =>
      Search!ServiceLoadsItsOwn(input.tree, input.service, input.configPath, input.env)

\* An accepted configuration is accepted again and means the same (redis/config.go and
\* db/config.go, the checks and the defaults of NewWithConfig).
NormalFormsAreStable ==
    /\ focus = "redis" => Providers!RedisFormIsStable(input)
    /\ focus = "db" => Providers!DBFormIsStable(input)
===================================================================================
