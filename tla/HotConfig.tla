--------------------------------- MODULE HotConfig ---------------------------------
(***************************************************************************)
(* The hot-reloaded configuration (config/default.go) on top of a loader.  *)
(*                                                                         *)
(* The loader is the VersionedFeed that ConfigLoader implements: it        *)
(* publishes snapshots when its sources change or when it is told to Load  *)
(* or Sync, and its watchers may skip some.  The configuration keeps a     *)
(* snapshot of its own (c.snap, c.vals), which its run goroutine renews    *)
(* from a loader watcher and Load and Sync renew directly.                 *)
(***************************************************************************)
EXTENDS VersionedFeed

CONSTANTS
    Run,            \* the loader watcher of the run goroutine
    Client,         \* the watchers opened through config.Watch
    Loading,        \* goroutines that call config.Load
    Syncing,        \* goroutines that call config.Sync
    Editing,        \* whether Set and Del are called
    MaxVersion      \* bound on the snapshots published

Caller == Loading \cup Syncing

ASSUME HotAssumption ==
    /\ Run \in Watcher /\ Run \notin Client
    /\ Client \subseteq Watcher
    /\ Watches[Run] = Path
    /\ Loading \cap Syncing = {}
    /\ Editing \in BOOLEAN
    /\ MaxVersion \in Nat

VARIABLES
    snap,       \* c.snap
    vals,       \* the document in c.vals, which Set and Del edit in place
    shares,     \* clients whose value is an object inside c.vals, not a copy
    lock,       \* the callers holding c.Mutex across several steps (Load)
    exit,       \* c.exit is closed
    runPc,      \* the run goroutine: unborn, watch, again, next, adopt, sleep, done
    runHand,    \* the snapshot Next returned to it
    callPc,     \* where each caller is
    hand,       \* the loader snapshot a caller read
    value,      \* config.watcher.value: what c.Get returned to Watch
    told,       \* the last value a client knows
    joining,    \* clients between c.Get and Loader.Watch
    \* history variables, read by properties only
    returned,   \* version of the last snapshot Next gave run
    synced      \* the configuration's snapshot was installed by Sync

configVars == <<snap, vals, shares, synced>>
runVars    == <<runPc, runHand, returned>>
callVars   == <<lock, callPc, hand>>
clientVars == <<value, told, joining>>
vars == <<feedVars, configVars, runVars, callVars, clientVars, exit>>

HotInit ==
    /\ Init
    /\ snap = Unloaded /\ vals = EmptyDoc /\ shares = {} /\ synced = FALSE
    /\ lock = {} /\ exit = FALSE
    /\ runPc = "unborn" /\ runHand = Unloaded /\ returned = 0
    /\ callPc = [c \in Caller |-> "idle"]
    /\ hand = [c \in Caller |-> Unloaded]
    /\ value = [w \in Client |-> View(Watches[w], EmptyDoc)]
    /\ told = value
    /\ joining = {}

Started == runPc # "unborn"

\* Mutated form of Newer: the arguments are swapped.
NewerSwapped(next, cur) == cur.ver > next.ver

\* snapshotNewerVersion
Newer(next, cur) == next.ver > cur.ver

\* The snapshot is parsed into new values.
Adopt(s, bySync) ==
    snap' = s /\ vals' = s.doc /\ shares' = {} /\ synced' = bySync

\* The loader installs a snapshot.  Only the order of versions matters.
PublishNext ==
    /\ current.ver < MaxVersion
    /\ \E d \in Doc : current' = [ver |-> current.ver + 1, doc |-> d]
    /\ Publish

-----------------------------------------------------------------------------
(* The loader on its own: a source changed.  It goes on after config.Close, *)
(* which does not close the loader.                                         *)

SourcePublish ==
    /\ PublishNext
    /\ UNCHANGED <<configVars, runVars, callVars, clientVars, exit>>

-----------------------------------------------------------------------------
(* newConfig and the run goroutine *)

\* Init takes the loader's snapshot and starts run, which watches later.
Start ==
    /\ runPc = "unborn" /\ current.ver > 0
    /\ Adopt(current, FALSE)
    /\ runPc' = "watch"
    /\ UNCHANGED <<feedVars, runHand, returned, callVars, clientVars, exit>>

\* Loader.Watch: the watcher starts from the version current now.
RunWatch ==
    /\ runPc = "watch" /\ Run \notin open
    /\ Open(Run)
    /\ runPc' = "next"
    /\ UNCHANGED <<configVars, runHand, returned, callVars, clientVars, exit>>

\* Loader.Watch fails, once or for good (a loader that was given to the configuration
\* with its watchers disabled): run sleeps and tries again, and looks at no channel.
RunWatchFails ==
    /\ runPc = "watch"
    /\ runPc' = "again"
    /\ UNCHANGED <<feedVars, configVars, runHand, returned, callVars,
                   clientVars, exit>>

RunTryAgain ==
    /\ runPc = "again"
    /\ runPc' = "watch"
    /\ UNCHANGED <<feedVars, configVars, runHand, returned, callVars,
                   clientVars, exit>>

\* The watcher advances; Next returns when the content differs.
RunNext ==
    /\ runPc = "next"
    /\ Accept(Run)
    /\ IF shown'[Run] # shown[Run]
       THEN /\ runHand' = [ver |-> seen'[Run], doc |-> shown'[Run]]
            /\ returned' = seen'[Run]
            /\ runPc' = "adopt"
       ELSE UNCHANGED <<runHand, returned, runPc>>
    /\ UNCHANGED <<configVars, callVars, clientVars, exit>>

\* Under c.Lock: a snapshot that is not newer is skipped.
RunAdopt ==
    /\ runPc = "adopt" /\ lock = {}
    /\ IF Newer(runHand, snap)
       THEN Adopt(runHand, FALSE)
       ELSE UNCHANGED configVars
    /\ runPc' = "next"
    /\ UNCHANGED <<feedVars, runHand, returned, callVars, clientVars, exit>>

\* Mutated form of RunStopped: the stop function waits for done only, which is closed
\* after Next has returned.
RunNeverStopped == FALSE

\* The configuration was closed, which stops the watcher: Next returns an error.
RunStopped ==
    /\ runPc = "next" /\ exit
    /\ runPc' = "sleep"
    /\ UNCHANGED <<feedVars, configVars, runHand, returned, callVars,
                   clientVars, exit>>

RunWake ==
    /\ runPc = "sleep"
    /\ runPc' = IF exit THEN "done" ELSE "watch"
    /\ UNCHANGED <<feedVars, configVars, runHand, returned, callVars,
                   clientVars, exit>>

\* What run does while Loader.Watch does not give it a watcher.
RunRetry == RunWatchFails \/ RunTryAgain

RunStep == RunWatch \/ RunRetry \/ RunNext \/ RunAdopt \/ RunStopped \/ RunWake

-----------------------------------------------------------------------------
(* config.Sync *)

CallGoto(c, label) == callPc' = [callPc EXCEPT ![c] = label]

\* Loader.Sync publishes and returns.
SyncPublish(c) ==
    /\ Started /\ callPc[c] = "idle"
    /\ PublishNext
    /\ CallGoto(c, "read")
    /\ UNCHANGED <<configVars, runVars, lock, hand, clientVars, exit>>

\* Loader.Sync publishes what the readable sources gave, and returns an error.
SyncFails(c) ==
    /\ Started /\ callPc[c] = "idle"
    /\ PublishNext
    /\ UNCHANGED <<configVars, runVars, callVars, clientVars, exit>>

\* Loader.Snapshot, before c.Lock is taken (after it, in Load).
ReadSnapshot(c) ==
    /\ callPc[c] = "read"
    /\ hand' = [hand EXCEPT ![c] = current]
    /\ CallGoto(c, "install")
    /\ UNCHANGED <<feedVars, configVars, runVars, lock, clientVars, exit>>

\* The snapshot is installed whatever the configuration holds by then.
SyncInstall(c) ==
    /\ callPc[c] = "install" /\ lock = {}
    /\ Adopt(hand[c], TRUE)
    /\ hand' = [hand EXCEPT ![c] = Unloaded]
    /\ CallGoto(c, "idle")
    /\ UNCHANGED <<feedVars, runVars, lock, clientVars, exit>>

SyncStep(c) ==
    SyncPublish(c) \/ SyncFails(c) \/ ReadSnapshot(c) \/ SyncInstall(c)

-----------------------------------------------------------------------------
(* config.Load: c.Lock is held from the call of Loader.Load to the end *)

\* Mutated form of LoadLock: the lock is not taken.
LoadUnlocked(c) ==
    /\ Started /\ callPc[c] = "idle" /\ lock = {}
    /\ CallGoto(c, "load")
    /\ UNCHANGED <<feedVars, configVars, runVars, lock, hand, clientVars, exit>>

LoadLock(c) ==
    /\ Started /\ callPc[c] = "idle" /\ lock = {}
    /\ lock' = {c}
    /\ CallGoto(c, "load")
    /\ UNCHANGED <<feedVars, configVars, runVars, hand, clientVars, exit>>

LoadPublish(c) ==
    /\ callPc[c] = "load"
    /\ PublishNext
    /\ CallGoto(c, "read")
    /\ UNCHANGED <<configVars, runVars, lock, hand, clientVars, exit>>

\* Mutated form of LoadFails: the error path keeps the lock.
LoadFailsLocked(c) ==
    /\ callPc[c] = "load"
    /\ PublishNext \/ UNCHANGED feedVars
    /\ CallGoto(c, "idle")
    /\ UNCHANGED <<configVars, runVars, lock, hand, clientVars, exit>>

\* Loader.Load returns an error, with or without a new snapshot published.
LoadFails(c) ==
    /\ callPc[c] = "load"
    /\ PublishNext \/ UNCHANGED feedVars
    /\ lock' = {}
    /\ CallGoto(c, "idle")
    /\ UNCHANGED <<configVars, runVars, hand, clientVars, exit>>

LoadInstall(c) ==
    /\ callPc[c] = "install"
    /\ Adopt(hand[c], FALSE)
    /\ hand' = [hand EXCEPT ![c] = Unloaded]
    /\ lock' = {}
    /\ CallGoto(c, "idle")
    /\ UNCHANGED <<feedVars, runVars, clientVars, exit>>

LoadStep(c) ==
    \/ LoadLock(c) \/ LoadPublish(c) \/ LoadFails(c)
    \/ ReadSnapshot(c) \/ LoadInstall(c)

-----------------------------------------------------------------------------
(* Set, Del and Close *)

\* Set and Del edit the parsed values, not the snapshot.  A watcher's value that
\* is an object of these values is edited with them.
Edit ==
    /\ Editing /\ Started /\ lock = {}
    /\ \E p \in Path, v \in Value \cup {None} : vals' = [vals EXCEPT ![p] = v]
    /\ value' = [w \in Client |-> IF w \in shares THEN View(Watches[w], vals')
                                  ELSE value[w]]
    /\ UNCHANGED <<feedVars, snap, shares, synced, runVars, callVars, told, joining,
                   exit>>

CloseConfig ==
    /\ Started /\ ~exit
    /\ exit' = TRUE
    /\ UNCHANGED <<feedVars, configVars, runVars, callVars, clientVars>>

-----------------------------------------------------------------------------
(* config.Watch and config.watcher.Next *)

\* The client's value is the configuration's: a part of c.vals if it is an
\* object, a copy if it is a scalar ...
WatchValue(w) ==
    /\ Started /\ w \notin open \cup joining /\ lock = {}
    /\ value' = [value EXCEPT ![w] = View(Watches[w], vals)]
    /\ told' = [told EXCEPT ![w] = View(Watches[w], vals)]
    /\ joining' = joining \cup {w}
    /\ shares' = shares \cup {w} \/ UNCHANGED shares
    /\ UNCHANGED <<feedVars, snap, vals, synced, runVars, callVars, exit>>

\* ... and the loader watcher is opened afterwards.
WatchLoader(w) ==
    /\ w \in joining
    /\ Open(w)
    /\ joining' = joining \ {w}
    /\ UNCHANGED <<configVars, runVars, callVars, value, told, exit>>

\* Loader.Watch fails: the client gets the error, and no watcher.
WatchFails(w) ==
    /\ w \in joining
    /\ joining' = joining \ {w} /\ shares' = shares \ {w}
    /\ UNCHANGED <<feedVars, snap, vals, synced, runVars, callVars, value, told, exit>>

\* A changed content is returned to the client, unless it equals the value the
\* watcher was created with, which is never replaced.
ClientNext(w) ==
    /\ Accept(w)
    /\ IF shown'[w] # shown[w] /\ shown'[w] # value[w]
       THEN told' = [told EXCEPT ![w] = shown'[w]]
       ELSE UNCHANGED told
    /\ UNCHANGED <<configVars, runVars, callVars, value, joining, exit>>

ClientStep(w) == WatchValue(w) \/ WatchLoader(w) \/ WatchFails(w) \/ ClientNext(w)

-----------------------------------------------------------------------------
HotNext ==
    \/ SourcePublish \/ Start \/ RunStep \/ Edit \/ CloseConfig
    \/ \E c \in Syncing : SyncStep(c)
    \/ \E c \in Loading : LoadStep(c)
    \/ \E w \in Client : ClientStep(w)

HotSpec == HotInit /\ [][HotNext]_vars

\* The run goroutine is scheduled, a caller finishes its call, and a goroutine
\* that waits for the mutex gets it (sync.Mutex hands it to the longest waiter).
\* Nothing makes Loader.Watch succeed.
\* When the exit channel is closed and updates are pending, select picks either.
FairHotSpec ==
    /\ HotSpec
    /\ WF_vars(RunWatch \/ RunWatchFails) /\ WF_vars(RunTryAgain)
    /\ SF_vars(RunAdopt) /\ WF_vars(RunWake)
    /\ SF_vars(RunStopped)
    /\ \A c \in Loading : WF_vars(LoadFails(c)) /\ WF_vars(ReadSnapshot(c))
                            /\ WF_vars(LoadInstall(c))

-----------------------------------------------------------------------------
(* Properties *)

Snapshots == [ver : Nat, doc : Doc]

\* What a watcher of some paths may show.
Part == UNION {[ps -> Value \cup {None}] : ps \in SUBSET Path}

\* Types; c.Mutex is held across steps by exactly the caller inside Load.
HotTypeOK ==
    /\ current \in Snapshots /\ history \subseteq Snapshots
    /\ open \subseteq Watcher /\ seen \in [Watcher -> Nat]
    /\ snap \in Snapshots /\ vals \in Doc /\ exit \in BOOLEAN /\ synced \in BOOLEAN
    /\ runPc \in {"unborn", "watch", "again", "next", "adopt", "sleep", "done"}
    /\ runHand \in Snapshots /\ returned \in Nat
    /\ callPc \in [Caller -> {"idle", "load", "read", "install"}]
    /\ hand \in [Caller -> Snapshots]
    /\ lock = {c \in Loading : callPc[c] # "idle"}
    /\ \A c, d \in lock : c = d
    /\ joining \subseteq Client /\ shares \subseteq Client
    /\ shown \in [Watcher -> Part]
    /\ value \in [Client -> Part] /\ told \in [Client -> Part]

\* Only Sync takes the configuration back to an older snapshot: run compares
\* versions (default.go:104), and Load keeps c.Lock from before Loader.Load until
\* it has installed (:251-267), so nobody installs a newer one in between.
ViewNeverGoesBack == [][snap'.ver < snap.ver => synced']_vars

\* Between two steps of run the configuration is at least as new as the last
\* snapshot its watcher returned, even if Load installed one in between, unless
\* it shows what Sync installed.
RunKeepsUp == runPc = "next" /\ ~synced => snap.ver >= returned

\* The run goroutine ends once the configuration is closed (:128-152), unless from
\* some time on it only repeats a Loader.Watch that fails: that loop (:121-125) does
\* not look at exit.
CloseEndsRun ==
    \/ exit ~> (runPc = "done")
    \/ <>[](runPc \in {"watch", "again"})

-----------------------------------------------------------------------------
(* What the documents say, and the code does not do *)

\* "Watch a value for changes" (config.go:34): content the loader reports is
\* returned to a client that knows another.
ReportedChangesAreReturned ==
    [][\A w \in Client :
          w \in open /\ shown'[w] # shown[w] /\ told[w] # shown'[w]
            => told'[w] = shown'[w]]_vars
====================================================================================
