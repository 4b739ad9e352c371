-------------------------------- MODULE GlobalConfig --------------------------------
(***************************************************************************)
(* The package-level configuration (config/config.go): DefaultConfig       *)
(* behind defaultConfigMu and the flag defaultConfigInited, and the        *)
(* goroutines that call InitDefault, Load, Sync, Watch and ScanFrom.       *)
(*                                                                         *)
(* What one configuration does is HotConfig; here it is its lock, the      *)
(* sources it was given and whether it is closed.  sync.RWMutex is         *)
(* external: a writer that waits keeps new readers out.                    *)
(***************************************************************************)
EXTENDS Integers, FiniteSets

CONSTANTS
    KeyCount,    \* the arguments of ScanFrom, preferred first
    Loader,      \* goroutines that call Load and Sync; each loads one source
    Initer,      \* goroutines that call InitDefault
    Scanner,     \* goroutines that call ScanFrom and Watch
    MaxConfigs   \* bound on the configurations InitDefault makes

ASSUME GlobalAssumption ==
    /\ KeyCount \in Nat \ {0} /\ MaxConfigs \in Nat
    /\ Loader \cap Scanner = {} /\ Initer \cap (Loader \cup Scanner) = {}
    /\ "none" \notin Initer

Caller == Loader \cup Scanner \cup Initer
Config == 0 .. MaxConfigs

VARIABLES
    default,    \* DefaultConfig
    inited,     \* defaultConfigInited
    writer,     \* who holds defaultConfigMu.Lock or waits for the readers to leave
    readers,    \* who holds defaultConfigMu.RLock
    made,       \* the configurations made so far, but for the first
    open,       \* those whose Close was not called
    loaded,     \* the sources in the loader of each configuration
    busy,       \* who holds the lock of a configuration across steps (config.Load)
    call,       \* where each caller is
    target,     \* the configuration it works on, or has made
    key,        \* the key ScanFrom is at
    kept        \* history: sources of the Loads that succeeded since the last InitDefault

lockVars   == <<writer, readers>>
configVars == <<made, open, loaded, busy>>
callVars   == <<call, target, key>>
globalVars == <<default, inited, lockVars, configVars, callVars, kept>>

\* DefaultConfig is made when the package is initialised, without sources.
GlobalInit ==
    /\ default = 0 /\ inited = FALSE
    /\ writer = "none" /\ readers = {}
    /\ made = 0 /\ open = {0}
    /\ loaded = [i \in Config |-> {}]
    /\ busy = [i \in Config |-> {}]
    /\ call = [c \in Caller |-> "idle"]
    /\ target = [c \in Caller |-> 0]
    /\ key = [c \in Scanner |-> 1]
    /\ kept = {}

MoveTo(c, label) == call' = [call EXCEPT ![c] = label]

-----------------------------------------------------------------------------
(* The calls that only read DefaultConfig: the flag, then RLock *)

\* Load sets the flag before it has anything to answer with.
CallLoad(c) ==
    /\ call[c] = "idle"
    /\ inited' = TRUE
    /\ MoveTo(c, "load")
    /\ UNCHANGED <<default, lockVars, configVars, target, key, kept>>

\* The others return ErrDefaultConfigUninitialized without the flag.
CallIfInited(c, label) ==
    /\ call[c] = "idle" /\ inited
    /\ MoveTo(c, label)
    /\ UNCHANGED <<default, inited, lockVars, configVars, target, key, kept>>

\* Readers come and go together; a writer that waits is let in before new ones.
RLock(c) ==
    /\ call[c] \in {"load", "sync", "get", "watch"} /\ c \notin readers
    /\ writer = "none"
    /\ readers' = readers \cup {c}
    /\ target' = [target EXCEPT ![c] = default]
    /\ UNCHANGED <<default, inited, writer, configVars, call, key, kept>>

\* The deferred RUnlock.
RUnlock(c) == readers' = readers \ {c}

\* The call returns, and its variables are gone.
Return(c) ==
    /\ MoveTo(c, "idle")
    /\ target' = [target EXCEPT ![c] = 0]

-----------------------------------------------------------------------------
(* config.Load, Sync, Get and Watch of the configuration found (HotConfig) *)

\* Load holds the lock of the configuration until its sources are read.
LoadLock(c) ==
    /\ call[c] = "load" /\ c \in readers /\ busy[target[c]] = {}
    /\ busy' = [busy EXCEPT ![target[c]] = {c}]
    /\ MoveTo(c, "loading")
    /\ UNCHANGED <<default, inited, lockVars, made, open, loaded, target, key, kept>>

LoadDone(c) ==
    /\ call[c] = "loading"
    /\ loaded' = [loaded EXCEPT ![target[c]] = @ \cup {c}]
    /\ busy' = [busy EXCEPT ![target[c]] = {}]
    /\ RUnlock(c) /\ Return(c)
    /\ kept' = kept \cup {c}
    /\ UNCHANGED <<default, inited, writer, made, open, key>>

\* A source that could not be read is not loaded; the merge may fail when it was.
LoadFails(c) ==
    /\ call[c] = "loading"
    /\ \/ loaded' = [loaded EXCEPT ![target[c]] = @ \cup {c}]
       \/ UNCHANGED loaded
    /\ busy' = [busy EXCEPT ![target[c]] = {}]
    /\ RUnlock(c) /\ Return(c)
    /\ UNCHANGED <<default, inited, writer, made, open, key, kept>>

\* Sync takes the lock of the configuration only to install what it read, Watch to
\* read the first value.
SyncOrWatch(c) ==
    /\ call[c] \in {"sync", "watch"} /\ c \in readers /\ busy[target[c]] = {}
    /\ RUnlock(c) /\ Return(c)
    /\ UNCHANGED <<default, inited, writer, configVars, key, kept>>

\* The loader failed before Sync came to the lock.
SyncFails(c) ==
    /\ call[c] = "sync" /\ c \in readers
    /\ RUnlock(c) /\ Return(c)
    /\ UNCHANGED <<default, inited, writer, configVars, key, kept>>

\* Mutated form of Get: ScanFrom holds a read lock of its own around its Gets.
GetNested(c) ==
    /\ call[c] = "get" /\ c \in readers /\ writer = "none" /\ busy[target[c]] = {}
    /\ \/ /\ key' = [key EXCEPT ![c] = 1]
          /\ RUnlock(c) /\ Return(c)
       \/ /\ key[c] < KeyCount
          /\ key' = [key EXCEPT ![c] = @ + 1]
          /\ UNCHANGED <<call, target, readers>>
    /\ UNCHANGED <<default, inited, writer, configVars, kept>>

\* ScanFrom's call of Get: it returns with the value or an error, or a null value
\* sends it to the next key, which it looks up under a lock of its own.
Get(c) ==
    /\ call[c] = "get" /\ c \in readers /\ busy[target[c]] = {}
    /\ \/ key' = [key EXCEPT ![c] = 1] /\ Return(c)
       \/ key[c] < KeyCount /\ key' = [key EXCEPT ![c] = @ + 1] /\ UNCHANGED <<call, target>>
    /\ RUnlock(c)
    /\ UNCHANGED <<default, inited, writer, configVars, kept>>

-----------------------------------------------------------------------------
(* InitDefault *)

CallInitDefault(c) ==
    /\ call[c] = "idle"
    /\ MoveTo(c, "make")
    /\ UNCHANGED <<default, inited, lockVars, configVars, target, key, kept>>

\* NewConfig with the sources among its options, before the lock is taken.
NewConfig(c) ==
    /\ call[c] = "make" /\ made < MaxConfigs
    /\ made' = made + 1
    /\ target' = [target EXCEPT ![c] = made']
    /\ open' = open \cup {made'}
    /\ MoveTo(c, "lock")
    /\ UNCHANGED <<default, inited, lockVars, loaded, busy, key, kept>>

\* A source cannot be read or merged: the default configuration stays.
NewConfigFails(c) ==
    /\ call[c] = "make"
    /\ Return(c)
    /\ UNCHANGED <<default, inited, lockVars, configVars, key, kept>>

\* Lock: once no other writer is there, new readers have to wait.
Lock(c) ==
    /\ call[c] = "lock" /\ writer = "none"
    /\ writer' = c
    /\ MoveTo(c, "swap")
    /\ UNCHANGED <<default, inited, readers, configVars, target, key, kept>>

\* The old configuration is closed, the new one takes its place, both unlock.
Replace(c) ==
    /\ open' = open \ {default}
    /\ default' = target[c] /\ inited' = TRUE
    /\ writer' = "none" /\ Return(c)
    /\ kept' = {}
    /\ UNCHANGED <<readers, made, loaded, busy, key>>

\* Mutated form of Swap: the readers are not waited for.
SwapAtOnce(c) == call[c] = "swap" /\ Replace(c)

Swap(c) == call[c] = "swap" /\ readers = {} /\ Replace(c)

-----------------------------------------------------------------------------
\* The steps a call takes once it was made.
LoaderStep(c) ==
    RLock(c) \/ LoadLock(c) \/ LoadDone(c) \/ LoadFails(c) \/ SyncOrWatch(c) \/ SyncFails(c)

ScannerStep(c) == RLock(c) \/ Get(c) \/ SyncOrWatch(c)

IniterStep(c) == NewConfig(c) \/ NewConfigFails(c) \/ Lock(c) \/ Swap(c)

GlobalNext ==
    \/ \E c \in Loader : CallLoad(c) \/ CallIfInited(c, "sync") \/ LoaderStep(c)
    \/ \E c \in Scanner :
         CallIfInited(c, "get") \/ CallIfInited(c, "watch") \/ ScannerStep(c)
    \/ \E c \in Initer : CallInitDefault(c) \/ IniterStep(c)

GlobalSpec == GlobalInit /\ [][GlobalNext]_globalVars

-----------------------------------------------------------------------------
(* Properties *)

\* The default configuration is open, and has every source whose Load returned nil
\* since it was installed: an InitDefault that runs at the same time takes no source
\* with it after its Load reported success (config.go InitDefault, Load).
NoLoadIsLost == default \in open /\ kept \subseteq loaded[default]

\* While a call is under way some call can go on: InitDefault waits for the readers,
\* new readers for InitDefault and readers for a Load, and never all for each other
\* (config.go ScanFrom, which may not keep its read lock for the next key).
CallsGoOn ==
    (\E c \in Caller : call[c] # "idle")
    => \/ \E c \in Loader : ENABLED LoaderStep(c)
       \/ \E c \in Scanner : ENABLED ScannerStep(c)
       \/ \E c \in Initer : ENABLED IniterStep(c)
=====================================================================================
