------------------------------ MODULE Startup_proofs ------------------------------
(***************************************************************************)
(* Proofs about what a service does while it starts: the package-level     *)
(* configuration (GlobalConfig) and the subscriptions of a service         *)
(* (ServiceSubscriptions).                                                 *)
(***************************************************************************)
EXTENDS GlobalConfig, ServiceSubscriptions, FiniteSetTheorems, TLAPS

-----------------------------------------------------------------------------
(* The package-level configuration *)

Reading == {"load", "sync", "get", "watch", "loading"}
Installing == {"lock", "swap"}

GlobalTypeOK ==
    /\ default \in Config /\ inited \in BOOLEAN
    /\ writer \in Initer \cup {"none"} /\ readers \subseteq Loader \cup Scanner
    /\ made \in Config /\ open \subseteq 0 .. made
    /\ loaded \in [Config -> SUBSET Loader] /\ busy \in [Config -> SUBSET Loader]
    /\ call \in [Caller -> {"idle", "make"} \cup Reading \cup Installing]
    /\ target \in [Caller -> 0 .. made]
    /\ key \in [Scanner -> 1 .. KeyCount]
    /\ kept \subseteq Loader

\* Whoever reads has the default configuration: Swap waits for the readers.
ReadersHaveTheDefault ==
    /\ \A c \in readers : call[c] \in Reading /\ target[c] = default
    /\ \A c \in Caller : call[c] = "loading" => c \in readers
    /\ \A c \in Loader \cup Scanner : call[c] \in Reading \cup {"idle"}

\* Who waits for the readers is the writer, and nobody else; a configuration is busy
\* with a Load that is under way.
LocksAreHeld ==
    /\ \A c \in Initer : call[c] = "swap" <=> writer = c
    /\ \A c \in Initer : call[c] \in {"idle", "make"} \cup Installing
    /\ \A i \in Config, c \in Loader : c \in busy[i] => call[c] = "loading" /\ i = default

\* What an InitDefault is about to install is open, not yet the default, and its own.
NewConfigsAreOwned ==
    /\ \A c \in Initer : call[c] \in Installing => target[c] \in open \ {default}
    /\ \A c, d \in Initer :
         c # d /\ call[c] \in Installing /\ call[d] \in Installing => target[c] # target[d]

GlobalInv ==
    /\ GlobalTypeOK /\ ReadersHaveTheDefault /\ LocksAreHeld
    /\ NewConfigsAreOwned /\ NoLoadIsLost

LEMMA CallersAreDistinct ==
    /\ Caller = Loader \cup Scanner \cup Initer
    /\ \A c \in Loader : c \in Caller /\ c \notin Initer /\ c \notin Scanner
    /\ \A c \in Scanner : c \in Caller /\ c \notin Initer /\ c \notin Loader
    /\ \A c \in Initer : c \in Caller /\ c \notin Loader \cup Scanner /\ c # "none"
BY GlobalAssumption DEF Caller

LEMMA GlobalInitHolds == GlobalInit => GlobalInv
<1> SUFFICES ASSUME GlobalInit PROVE GlobalInv
  OBVIOUS
<1> USE GlobalAssumption, CallersAreDistinct
<1>1. 0 \in Config /\ 1 \in 1 .. KeyCount
  BY DEF Config
<1>2. GlobalTypeOK
  <2>1. /\ loaded \in [Config -> SUBSET Loader] /\ busy \in [Config -> SUBSET Loader]
        /\ call \in [Caller -> {"idle", "make"} \cup Reading \cup Installing]
        /\ target \in [Caller -> 0 .. made]
        /\ key \in [Scanner -> 1 .. KeyCount]
    BY <1>1 DEF GlobalInit
  <2>2. default \in Config /\ inited \in BOOLEAN /\ made \in Config /\ open \subseteq 0 .. made
    <3>1. default = 0 /\ made = 0 /\ inited = FALSE /\ open = {0}
      BY DEF GlobalInit
    <3>2. \A i \in open : i \in 0 .. made
      BY <3>1
    <3>3. QED
      BY <1>1, <3>1, <3>2
  <2>3. QED
    BY <2>1, <2>2 DEF GlobalInit, GlobalTypeOK
<1>3. ReadersHaveTheDefault /\ LocksAreHeld /\ NewConfigsAreOwned
  BY DEF GlobalInit, ReadersHaveTheDefault, LocksAreHeld, NewConfigsAreOwned, Reading, Installing
<1>4. NoLoadIsLost
  BY <1>1 DEF GlobalInit, NoLoadIsLost
<1>5. QED
  BY <1>2, <1>3, <1>4 DEF GlobalInv

\* The invariant in what a call changes when it comes, goes on or returns, and the
\* locks stay as they are.
LEMMA EntersHolds ==
    ASSUME GlobalInv, NEW c \in Loader \cup Scanner, call[c] = "idle",
           NEW label \in Reading \ {"loading"},
           MoveTo(c, label), inited' \in BOOLEAN,
           UNCHANGED <<default, lockVars, configVars, target, key, kept>>
    PROVE  GlobalInv'
<1> USE CallersAreDistinct DEF lockVars, configVars, Reading, Installing
<1>1. call' = [call EXCEPT ![c] = label] /\ c \in Caller /\ c \notin Initer
  BY DEF MoveTo
<1>2. GlobalTypeOK'
  BY <1>1 DEF GlobalInv, GlobalTypeOK
<1>3. c \notin readers
  BY DEF GlobalInv, ReadersHaveTheDefault
<1>4. \A d \in Caller : call'[d] = IF d = c THEN label ELSE call[d]
  BY <1>1 DEF GlobalInv, GlobalTypeOK
<1>5. ReadersHaveTheDefault'
  BY <1>3, <1>4 DEF GlobalInv, GlobalTypeOK, ReadersHaveTheDefault
<1>6. LocksAreHeld'
  BY <1>1, <1>4 DEF GlobalInv, GlobalTypeOK, LocksAreHeld
<1>7. NewConfigsAreOwned'
  BY <1>1, <1>4 DEF GlobalInv, GlobalTypeOK, NewConfigsAreOwned
<1>8. NoLoadIsLost'
  BY DEF GlobalInv, NoLoadIsLost
<1>9. QED
  BY <1>2, <1>5, <1>6, <1>7, <1>8 DEF GlobalInv

LEMMA RLockHolds ==
    ASSUME GlobalInv, NEW c \in Loader \cup Scanner, RLock(c)
    PROVE  GlobalInv'
<1> USE CallersAreDistinct DEF lockVars, configVars, Reading, Installing
<1>1. c \in Caller /\ c \notin Initer /\ default \in 0 .. made
  BY DEF GlobalInv, GlobalTypeOK, NoLoadIsLost
<1>2. GlobalTypeOK'
  BY <1>1 DEF GlobalInv, GlobalTypeOK, RLock
<1>3. \A d \in Caller : target'[d] = IF d = c THEN default ELSE target[d]
  BY DEF GlobalInv, GlobalTypeOK, RLock
<1>4. ReadersHaveTheDefault'
  BY <1>1, <1>3 DEF GlobalInv, GlobalTypeOK, ReadersHaveTheDefault, RLock
<1>5. LocksAreHeld'
  BY DEF GlobalInv, GlobalTypeOK, LocksAreHeld, RLock
<1>6. NewConfigsAreOwned'
  BY <1>1, <1>3 DEF GlobalInv, GlobalTypeOK, NewConfigsAreOwned, RLock
<1>7. NoLoadIsLost'
  BY DEF GlobalInv, NoLoadIsLost, RLock
<1>8. QED
  BY <1>2, <1>4, <1>5, <1>6, <1>7 DEF GlobalInv

LEMMA LoadLockHolds ==
    ASSUME GlobalInv, NEW c \in Loader, LoadLock(c)
    PROVE  GlobalInv'
<1> USE CallersAreDistinct DEF lockVars, configVars, Reading, Installing
<1>1. call' = [call EXCEPT ![c] = "loading"] /\ c \in Caller /\ c \in readers
  BY DEF MoveTo, LoadLock
<1>2. target[c] \in Config
  BY GlobalAssumption DEF GlobalInv, GlobalTypeOK, Config
<1>3. GlobalTypeOK'
  BY <1>1, <1>2 DEF GlobalInv, GlobalTypeOK, LoadLock
<1>4. \A d \in Caller : call'[d] = IF d = c THEN "loading" ELSE call[d]
  BY <1>1 DEF GlobalInv, GlobalTypeOK
<1>5. \A i \in Config : busy'[i] = IF i = target[c] THEN {c} ELSE busy[i]
  BY <1>2 DEF GlobalInv, GlobalTypeOK, LoadLock
<1>6. ReadersHaveTheDefault'
  BY <1>1, <1>4 DEF GlobalInv, GlobalTypeOK, ReadersHaveTheDefault, LoadLock
<1>7. LocksAreHeld'
  BY <1>1, <1>4, <1>5 DEF GlobalInv, GlobalTypeOK, ReadersHaveTheDefault, LocksAreHeld, LoadLock
<1>8. NewConfigsAreOwned'
  BY <1>1, <1>4 DEF GlobalInv, GlobalTypeOK, NewConfigsAreOwned, LoadLock
<1>9. NoLoadIsLost'
  BY DEF GlobalInv, NoLoadIsLost, LoadLock
<1>10. QED
  BY <1>3, <1>6, <1>7, <1>8, <1>9 DEF GlobalInv

\* A call of a Loader or Scanner that returns, or looks at the next key: it is no longer
\* a reader, and nothing but the sources of its configuration has changed.
LEMMA LeavesHolds ==
    ASSUME GlobalInv, NEW c \in Loader \cup Scanner, c \in readers,
           call[c] # "loading" \/ busy' = [busy EXCEPT ![target[c]] = {}],
           call[c] # "loading" => UNCHANGED busy,
           RUnlock(c), Return(c) \/ (call[c] = "get" /\ UNCHANGED <<call, target>>),
           key' \in [Scanner -> 1 .. KeyCount], kept' \in SUBSET Loader,
           loaded' \in [Config -> SUBSET Loader],
           kept' \subseteq loaded'[default],
           UNCHANGED <<default, inited, writer, made, open>>
    PROVE  GlobalInv'
<1> USE CallersAreDistinct DEF Reading, Installing
<1>1. c \in Caller /\ c \notin Initer /\ readers' = readers \ {c}
  BY DEF RUnlock
<1>2. target[c] = default /\ default \in Config /\ 0 \in 0 .. made
  BY GlobalAssumption DEF GlobalInv, GlobalTypeOK, ReadersHaveTheDefault, Config
<1>3. \/ call' = [call EXCEPT ![c] = "idle"] /\ target' = [target EXCEPT ![c] = 0]
      \/ call[c] = "get" /\ UNCHANGED <<call, target>>
  BY DEF Return, MoveTo
<1>4. \A d \in Caller : d # c => call'[d] = call[d] /\ target'[d] = target[d]
  BY <1>3 DEF GlobalInv, GlobalTypeOK
<1>5. call'[c] \in {"idle", "get"}
  BY <1>1, <1>3 DEF GlobalInv, GlobalTypeOK
<1>6. call' \in [Caller -> {"idle", "make"} \cup Reading \cup Installing]
      /\ target' \in [Caller -> 0 .. made]
  BY <1>2, <1>3 DEF GlobalInv, GlobalTypeOK
<1>7. busy' \in [Config -> SUBSET Loader]
  BY <1>2 DEF GlobalInv, GlobalTypeOK
<1>8. GlobalTypeOK'
  BY <1>1, <1>6, <1>7 DEF GlobalInv, GlobalTypeOK
<1>9. ReadersHaveTheDefault'
  BY <1>1, <1>4, <1>5 DEF GlobalInv, GlobalTypeOK, ReadersHaveTheDefault
<1>10. LocksAreHeld'
  <2>1. ASSUME NEW i \in Config, NEW d \in Loader, d \in busy'[i]
        PROVE  call'[d] = "loading" /\ i = default'
    <3>1. CASE call[c] = "loading"
      <4>1. busy' = [busy EXCEPT ![default] = {}]
        BY <1>2, <3>1
      <4>2. i # default /\ d \in busy[i]
        BY <2>1, <4>1, <1>2 DEF GlobalInv, GlobalTypeOK
      <4>3. QED
        BY <4>2 DEF GlobalInv, LocksAreHeld
    <3>2. CASE call[c] # "loading"
      <4>1. call[d] = "loading" /\ i = default
        BY <2>1, <3>2 DEF GlobalInv, LocksAreHeld
      <4>2. QED
        BY <3>2, <4>1, <1>4
    <3>3. QED
      BY <3>1, <3>2
  <2>2. QED
    BY <2>1, <1>1, <1>4 DEF GlobalInv, GlobalTypeOK, LocksAreHeld
<1>11. NewConfigsAreOwned'
  BY <1>1, <1>4 DEF GlobalInv, GlobalTypeOK, NewConfigsAreOwned
<1>12. NoLoadIsLost'
  BY DEF GlobalInv, NoLoadIsLost
<1>13. QED
  BY <1>8, <1>9, <1>10, <1>11, <1>12 DEF GlobalInv

\* InitDefault until it holds the lock: what it made is nobody else's.
LEMMA PreparesHolds ==
    ASSUME GlobalInv, NEW c \in Initer, CallInitDefault(c) \/ NewConfigFails(c) \/ Lock(c)
    PROVE  GlobalInv'
<1> USE CallersAreDistinct DEF lockVars, configVars, Reading, Installing,
                               CallInitDefault, NewConfigFails, Lock, MoveTo, Return
<1>1. c \in Caller /\ 0 \in 0 .. made
  BY GlobalAssumption DEF GlobalInv, GlobalTypeOK, Config
<1>2. GlobalTypeOK'
  <2>1. /\ call' \in [Caller -> {"idle", "make"} \cup Reading \cup Installing]
        /\ target' \in [Caller -> 0 .. made] /\ writer' \in Initer \cup {"none"}
    BY <1>1 DEF GlobalInv, GlobalTypeOK
  <2>2. UNCHANGED <<default, inited, readers, made, open, loaded, busy, key, kept>>
    OBVIOUS
  <2>3. QED
    BY <2>1, <2>2 DEF GlobalInv, GlobalTypeOK
<1>3. \A d \in Caller : d # c => call'[d] = call[d] /\ target'[d] = target[d]
  BY DEF GlobalInv, GlobalTypeOK
<1>4. \/ call[c] = "idle" /\ call'[c] = "make" /\ UNCHANGED writer
      \/ call[c] = "make" /\ call'[c] = "idle" /\ UNCHANGED writer
      \/ /\ call[c] = "lock" /\ call'[c] = "swap" /\ UNCHANGED target
         /\ writer = "none" /\ writer' = c
  BY <1>1 DEF GlobalInv, GlobalTypeOK
<1>5. ReadersHaveTheDefault'
  BY <1>1, <1>3, <1>4 DEF GlobalInv, GlobalTypeOK, ReadersHaveTheDefault
<1>6. LocksAreHeld'
  BY <1>1, <1>3, <1>4 DEF GlobalInv, GlobalTypeOK, LocksAreHeld
<1>7. NewConfigsAreOwned'
  BY <1>1, <1>3, <1>4 DEF GlobalInv, GlobalTypeOK, NewConfigsAreOwned
<1>8. NoLoadIsLost'
  BY DEF GlobalInv, NoLoadIsLost
<1>9. QED
  BY <1>2, <1>5, <1>6, <1>7, <1>8 DEF GlobalInv

LEMMA NewConfigHolds ==
    ASSUME GlobalInv, NEW c \in Initer, NewConfig(c)
    PROVE  GlobalInv'
<1> USE CallersAreDistinct DEF lockVars, Reading, Installing
<1>1. /\ c \in Caller /\ made \in Nat /\ made' = made + 1 /\ made < MaxConfigs
      /\ call' = [call EXCEPT ![c] = "lock"] /\ target' = [target EXCEPT ![c] = made + 1]
      /\ open' = open \cup {made + 1}
      /\ UNCHANGED <<default, inited, writer, readers, loaded, busy, key, kept>>
  BY GlobalAssumption DEF GlobalInv, GlobalTypeOK, Config, NewConfig, MoveTo
<1>2. 0 .. made \subseteq 0 .. made' /\ made' \in Config /\ made' \in 0 .. made'
  BY <1>1, GlobalAssumption DEF Config
<1>3. GlobalTypeOK'
  BY <1>1, <1>2 DEF GlobalInv, GlobalTypeOK
<1>4. \A d \in Caller : d # c => call'[d] = call[d] /\ target'[d] = target[d]
  BY <1>1 DEF GlobalInv, GlobalTypeOK
<1>5. call[c] = "make" /\ call'[c] = "lock" /\ target'[c] = made + 1
  BY <1>1 DEF GlobalInv, GlobalTypeOK, NewConfig
<1>6. made + 1 \notin open /\ \A d \in Caller : target[d] # made + 1
  BY <1>1 DEF GlobalInv, GlobalTypeOK
<1>7. ReadersHaveTheDefault'
  BY <1>1, <1>4, <1>5 DEF GlobalInv, GlobalTypeOK, ReadersHaveTheDefault
<1>8. LocksAreHeld'
  BY <1>1, <1>4, <1>5 DEF GlobalInv, GlobalTypeOK, LocksAreHeld
<1>9. NewConfigsAreOwned'
  BY <1>1, <1>4, <1>5, <1>6 DEF GlobalInv, GlobalTypeOK, NewConfigsAreOwned, NoLoadIsLost
<1>10. NoLoadIsLost'
  BY <1>1 DEF GlobalInv, NoLoadIsLost
<1>11. QED
  BY <1>3, <1>7, <1>8, <1>9, <1>10 DEF GlobalInv

\* The one step that changes the default configuration: nobody reads it.
LEMMA SwapHolds ==
    ASSUME GlobalInv, NEW c \in Initer, Swap(c)
    PROVE  GlobalInv'
<1> USE CallersAreDistinct DEF Reading, Installing
<1>1. /\ c \in Caller /\ readers = {} /\ call[c] = "swap"
      /\ call' = [call EXCEPT ![c] = "idle"] /\ target' = [target EXCEPT ![c] = 0]
      /\ open' = open \ {default} /\ default' = target[c] /\ inited' = TRUE
      /\ writer' = "none" /\ kept' = {}
      /\ UNCHANGED <<readers, made, loaded, busy, key>>
  BY DEF Swap, Replace, Return, MoveTo
<1>2. target[c] \in open /\ target[c] # default /\ 0 .. made \subseteq Config /\ 0 \in 0 .. made
  BY <1>1, GlobalAssumption DEF GlobalInv, GlobalTypeOK, NewConfigsAreOwned, Config
<1>3. GlobalTypeOK'
  BY <1>1, <1>2 DEF GlobalInv, GlobalTypeOK
<1>4. \A d \in Caller : d # c => call'[d] = call[d] /\ target'[d] = target[d]
  BY <1>1 DEF GlobalInv, GlobalTypeOK
<1>5. call'[c] = "idle" /\ writer = c
  BY <1>1 DEF GlobalInv, GlobalTypeOK, LocksAreHeld
<1>6. ReadersHaveTheDefault'
  BY <1>1, <1>4, <1>5 DEF GlobalInv, GlobalTypeOK, ReadersHaveTheDefault
<1>7. LocksAreHeld'
  <2>1. \A i \in Config : busy[i] = {}
    BY <1>1 DEF GlobalInv, GlobalTypeOK, LocksAreHeld, ReadersHaveTheDefault
  <2>2. QED
    BY <2>1, <1>1, <1>4, <1>5 DEF GlobalInv, GlobalTypeOK, LocksAreHeld
<1>8. NewConfigsAreOwned'
  BY <1>1, <1>2, <1>4, <1>5 DEF GlobalInv, GlobalTypeOK, NewConfigsAreOwned
<1>9. NoLoadIsLost'
  BY <1>1, <1>2 DEF NoLoadIsLost
<1>10. QED
  BY <1>3, <1>6, <1>7, <1>8, <1>9 DEF GlobalInv

LEMMA GlobalStepHolds == GlobalInv /\ [GlobalNext]_globalVars => GlobalInv'
<1> SUFFICES ASSUME GlobalInv, [GlobalNext]_globalVars PROVE GlobalInv'
  OBVIOUS
<1> USE CallersAreDistinct
<1>1. ASSUME NEW c \in Loader, CallLoad(c) PROVE GlobalInv'
  BY <1>1, EntersHolds DEF CallLoad, Reading
<1>2. ASSUME NEW c \in Loader \cup Scanner, NEW label \in {"sync", "get", "watch"},
             CallIfInited(c, label)
      PROVE  GlobalInv'
  <2>1. label \in Reading \ {"loading"} /\ inited' \in BOOLEAN
    BY <1>2 DEF Reading, CallIfInited, GlobalInv, GlobalTypeOK
  <2>2. QED
    BY <1>2, <2>1, EntersHolds DEF CallIfInited
<1>3. ASSUME NEW c \in Loader \cup Scanner, RLock(c) PROVE GlobalInv'
  BY <1>3, RLockHolds
<1>4. ASSUME NEW c \in Loader, LoadLock(c) PROVE GlobalInv'
  BY <1>4, LoadLockHolds
<1>5. ASSUME NEW c \in Loader, LoadDone(c) \/ LoadFails(c) PROVE GlobalInv'
  <2>1. c \in readers /\ call[c] = "loading" /\ target[c] = default
    BY <1>5 DEF GlobalInv, ReadersHaveTheDefault, LoadDone, LoadFails
  <2>2. default \in Config /\ loaded \in [Config -> SUBSET Loader] /\ kept \subseteq Loader
    BY DEF GlobalInv, GlobalTypeOK
  <2>3. \/ /\ loaded' = [loaded EXCEPT ![default] = @ \cup {c}]
           /\ kept' = kept \cup {c} \/ kept' = kept
        \/ UNCHANGED <<loaded, kept>>
    BY <1>5, <2>1 DEF LoadDone, LoadFails
  <2>4. /\ kept' \in SUBSET Loader /\ loaded' \in [Config -> SUBSET Loader]
        /\ kept' \subseteq loaded'[default]
    BY <2>2, <2>3 DEF GlobalInv, NoLoadIsLost
  <2>5. key' \in [Scanner -> 1 .. KeyCount]
    BY <1>5 DEF GlobalInv, GlobalTypeOK, LoadDone, LoadFails
  <2>6. QED
    BY <1>5, <2>1, <2>4, <2>5, LeavesHolds DEF LoadDone, LoadFails
<1>6. ASSUME NEW c \in Loader \cup Scanner, SyncOrWatch(c) \/ SyncFails(c) PROVE GlobalInv'
  <2>1. c \in readers /\ call[c] # "loading"
    BY <1>6 DEF SyncOrWatch, SyncFails
  <2>2. UNCHANGED <<default, inited, writer, made, open, loaded, busy, key, kept>>
    BY <1>6 DEF SyncOrWatch, SyncFails, configVars
  <2>3. /\ key' \in [Scanner -> 1 .. KeyCount] /\ kept' \in SUBSET Loader
        /\ loaded' \in [Config -> SUBSET Loader] /\ kept' \subseteq loaded'[default]
    BY <2>2 DEF GlobalInv, GlobalTypeOK, NoLoadIsLost
  <2>4. QED
    BY <1>6, <2>1, <2>2, <2>3, LeavesHolds DEF SyncOrWatch, SyncFails
<1>7. ASSUME NEW c \in Scanner, Get(c) PROVE GlobalInv'
  <2>1. c \in readers /\ call[c] = "get"
    BY <1>7 DEF Get
  <2>2. UNCHANGED <<default, inited, writer, made, open, loaded, busy, kept>>
    BY <1>7 DEF Get, configVars
  <2>3. key' \in [Scanner -> 1 .. KeyCount]
    BY <1>7, GlobalAssumption DEF Get, GlobalInv, GlobalTypeOK
  <2>4. /\ kept' \in SUBSET Loader
        /\ loaded' \in [Config -> SUBSET Loader] /\ kept' \subseteq loaded'[default]
    BY <2>2 DEF GlobalInv, GlobalTypeOK, NoLoadIsLost
  <2>5. QED
    BY <1>7, <2>1, <2>2, <2>3, <2>4, LeavesHolds DEF Get
<1>8. ASSUME NEW c \in Initer, CallInitDefault(c) \/ IniterStep(c) PROVE GlobalInv'
  BY <1>8, PreparesHolds, NewConfigHolds, SwapHolds DEF IniterStep
<1>9. CASE UNCHANGED globalVars
  BY <1>9 DEF globalVars, lockVars, configVars, callVars, GlobalInv, GlobalTypeOK,
              ReadersHaveTheDefault, LocksAreHeld, NewConfigsAreOwned, NoLoadIsLost
<1>10. QED
  BY <1>1, <1>2, <1>3, <1>4, <1>5, <1>6, <1>7, <1>8, <1>9
  DEF GlobalNext, LoaderStep, ScannerStep

LEMMA GlobalInvariant == GlobalSpec => []GlobalInv
BY GlobalInitHolds, GlobalStepHolds, PTL DEF GlobalSpec

\* For any callers and any number of configurations: the default configuration is open,
\* and has every source whose Load returned nil since it was installed (config.go
\* InitDefault, Load).
THEOREM LoadsSurviveInitDefault == GlobalSpec => []NoLoadIsLost
<1>1. GlobalInv => NoLoadIsLost
  BY DEF GlobalInv
<1>2. QED
  BY <1>1, GlobalInvariant, PTL

\* What a call waits for is there: the guard of its next step.
Ready(c) ==
    \/ call[c] \in Reading \ {"loading"} /\ c \notin readers /\ writer = "none"
    \/ call[c] \in Reading \ {"loading"} /\ c \in readers /\ busy[target[c]] = {}
    \/ call[c] \in {"loading", "make"}
    \/ call[c] = "lock" /\ writer = "none"
    \/ call[c] = "swap" /\ readers = {}

\* No deadlock of the package's lock with the locks of the configurations: while a call
\* is under way the guard of some call holds (config.go InitDefault, Load, ScanFrom).
NobodyWaitsForAll == (\E c \in Caller : call[c] # "idle") => \E c \in Caller : Ready(c)

THEOREM CallsAreNeverStuck == GlobalSpec => []NobodyWaitsForAll
<1>1. ASSUME GlobalInv, NEW c \in Caller, call[c] # "idle"
      PROVE  \E d \in Caller : Ready(d)
  <2> USE CallersAreDistinct DEF Ready, Reading, Installing
  <2>1. CASE readers # {}
    <3>1. PICK r \in readers : TRUE
      BY <2>1
    <3>2. r \in Caller /\ call[r] \in Reading /\ target[r] = default /\ default \in Config
      BY <1>1 DEF GlobalInv, GlobalTypeOK, ReadersHaveTheDefault
    <3>3. CASE busy[default] = {}
      BY <3>2, <3>3
    <3>4. CASE busy[default] # {}
      <4>1. PICK d \in busy[default] : TRUE
        BY <3>4
      <4>2. d \in Caller /\ call[d] = "loading"
        BY <1>1, <3>2 DEF GlobalInv, GlobalTypeOK, LocksAreHeld
      <4>3. QED
        BY <4>2
    <3>5. QED
      BY <3>3, <3>4
  <2>2. CASE readers = {} /\ writer # "none"
    <3>1. writer \in Caller /\ call[writer] = "swap"
      BY <1>1, <2>2 DEF GlobalInv, GlobalTypeOK, LocksAreHeld
    <3>2. QED
      BY <3>1, <2>2
  <2>3. CASE readers = {} /\ writer = "none"
    <3>1. call[c] \in {"make"} \cup Reading \cup Installing
      BY <1>1 DEF GlobalInv, GlobalTypeOK
    <3>2. QED
      BY <3>1, <2>3
  <2>4. QED
    BY <2>1, <2>2, <2>3
<1>2. GlobalInv => NobodyWaitsForAll
  BY <1>1 DEF NobodyWaitsForAll
<1>3. QED
  BY <1>2, GlobalInvariant, PTL

-----------------------------------------------------------------------------
(* Service subscriptions *)

ServiceTypeOK ==
    /\ at \in [Service -> 0 .. Len(List)]
    /\ step \in [Service -> {"choose", "open", "configure", "add"}]
    /\ outcome \in [Service -> {"none", "ok", "error"}]
    /\ live \in [Entry -> Nat]

\* Subscribe runs for an entry, and what it opened stays open until Close.
SubscribesForAnEntry ==
    /\ \A s \in Service : step[s] # "choose" => at[s] # 0
    /\ closing = "no" =>
         \A s \in Service : step[s] \in {"configure", "add"} => s \in raw

ServiceInv == ServiceTypeOK /\ SubscribesForAnEntry /\ NilMeansServed

\* Those NilMeansServed counts for an entry.
Passed(i) == {s \in Users(i) : outcome[s] = "ok" \/ i < at[s]}

LEMMA EntriesAreNumbers == Entry = 1 .. Len(List) /\ Len(List) \in Nat
BY SubscriptionsAssumption DEF Entry

LEMMA PassedIsFinite ==
    ASSUME NEW i
    PROVE  IsFiniteSet(Passed(i)) /\ Cardinality(Passed(i)) \in Nat
BY SubscriptionsAssumption, FS_Subset, FS_CardinalityType DEF Passed, Users

\* When fewer have passed and no subscription is gone the property still holds, and for
\* one more it takes one subscription more.
LEMMA StillServed ==
    ASSUME NEW i \in Entry, Cardinality(Passed(i)) <= live[i],
           NEW s \in Service, live[i] \in Nat, live'[i] \in Nat,
           \/ Passed(i)' \subseteq Passed(i) /\ live'[i] >= live[i]
           \/ Passed(i)' \subseteq Passed(i) \cup {s} /\ live'[i] >= live[i] + 1
    PROVE  Cardinality(Passed(i)') <= live'[i]
<1> DEFINE Now == Passed(i)
           Then  == Passed(i)'
<1>1. IsFiniteSet(Now) /\ Cardinality(Now) \in Nat
  BY PassedIsFinite
<1>2. CASE Then \subseteq Now /\ live'[i] >= live[i]
  <2>1. Cardinality(Then) \in Nat /\ Cardinality(Then) <= Cardinality(Now)
    BY <1>1, <1>2, FS_Subset, FS_CardinalityType
  <2> HIDE DEF Now, Then
  <2>2. QED
    BY <2>1, <1>1, <1>2 DEF Now, Then
<1>3. CASE Then \subseteq Now \cup {s} /\ live'[i] >= live[i] + 1
  <2>1. /\ IsFiniteSet(Now \cup {s}) /\ Cardinality(Now \cup {s}) \in Nat
        /\ Cardinality(Now \cup {s}) <= Cardinality(Now) + 1
    <3> HIDE DEF Now
    <3>1. /\ IsFiniteSet(Now \cup {s})
          /\ \/ Cardinality(Now \cup {s}) = Cardinality(Now)
             \/ Cardinality(Now \cup {s}) = Cardinality(Now) + 1
      BY <1>1, FS_AddElement
    <3>2. QED
      BY <3>1, <1>1
  <2>2. Cardinality(Then) \in Nat /\ Cardinality(Then) <= Cardinality(Now \cup {s})
    BY <2>1, <1>3, FS_Subset, FS_CardinalityType
  <2> HIDE DEF Now, Then
  <2>3. QED
    BY <2>1, <2>2, <1>1, <1>3 DEF Now, Then
<1>4. QED
  BY <1>2, <1>3

LEMMA ServiceInitHolds == ServiceInit => ServiceInv
<1> SUFFICES ASSUME ServiceInit PROVE ServiceInv
  OBVIOUS
<1> USE EntriesAreNumbers
<1>1. ServiceTypeOK /\ SubscribesForAnEntry
  BY DEF ServiceInit, ServiceTypeOK, SubscribesForAnEntry
<1>2. ASSUME NEW i \in Entry PROVE Cardinality(Passed(i)) <= live[i]
  <2>1. Passed(i) = {}
    BY DEF ServiceInit, Passed, Users
  <2>2. QED
    BY <2>1, FS_EmptySet DEF ServiceInit
<1>3. QED
  BY <1>1, <1>2 DEF ServiceInv, NilMeansServed, Passed

\* A call that ends with an error, or begins, has passed nothing.
LEMMA EndsOrBegins ==
    ASSUME ServiceTypeOK, NEW s \in Service, NEW result \in {"ok", "error"},
           \/ EndCall(s, result) /\ (result = "error" \/ Entry = {})
           \/ /\ at' = [at EXCEPT ![s] = 1] /\ Entry # {} /\ UNCHANGED step
              /\ outcome' = [outcome EXCEPT ![s] = "none"]
    PROVE  /\ at' \in [Service -> 0 .. Len(List)]
           /\ step' \in [Service -> {"choose", "open", "configure", "add"}]
           /\ outcome' \in [Service -> {"none", "ok", "error"}]
           /\ \A d \in Service : d = s \/ (step'[d] = step[d] /\ at'[d] = at[d])
           /\ \A i \in Entry : Passed(i)' \subseteq Passed(i)
<1> USE EntriesAreNumbers
<1>1. CASE EndCall(s, result) /\ (result = "error" \/ Entry = {})
  BY <1>1 DEF EndCall, StepTo, ServiceTypeOK, Passed
<1>2. CASE /\ at' = [at EXCEPT ![s] = 1] /\ Entry # {} /\ UNCHANGED step
           /\ outcome' = [outcome EXCEPT ![s] = "none"]
  BY <1>2 DEF ServiceTypeOK, Passed
<1>3. QED
  BY <1>1, <1>2

\* A call that goes on has passed the entry it was at.
LEMMA Advances ==
    ASSUME ServiceTypeOK, NEW s \in Service, at[s] # 0, Advance(s)
    PROVE  /\ at' \in [Service -> 0 .. Len(List)]
           /\ step' \in [Service -> {"choose", "open", "configure", "add"}]
           /\ outcome' \in [Service -> {"none", "ok", "error"}]
           /\ \A d \in Service : d = s \/ (step'[d] = step[d] /\ at'[d] = at[d])
           /\ step'[s] = "choose"
           /\ \A i \in Entry \ {at[s]} : Passed(i)' \subseteq Passed(i)
           /\ \A i \in Entry : Passed(i)' \subseteq Passed(i) \cup ({s} \cap Users(i))
<1> USE EntriesAreNumbers
<1>1. \/ /\ at[s] = Len(List) /\ at' = [at EXCEPT ![s] = 0]
         /\ outcome' = [outcome EXCEPT ![s] = "ok"]
      \/ /\ at[s] # Len(List) /\ at' = [at EXCEPT ![s] = at[s] + 1] /\ UNCHANGED outcome
  BY DEF Advance, EndCall
<1>2. step' = [step EXCEPT ![s] = "choose"]
  BY DEF Advance, EndCall, StepTo
<1>3. at[s] \in 1 .. Len(List)
  BY DEF ServiceTypeOK
<1>4. /\ at' \in [Service -> 0 .. Len(List)]
      /\ step' \in [Service -> {"choose", "open", "configure", "add"}]
      /\ outcome' \in [Service -> {"none", "ok", "error"}]
      /\ \A d \in Service : d = s \/ (step'[d] = step[d] /\ at'[d] = at[d])
      /\ step'[s] = "choose"
  <2>1. /\ step' \in [Service -> {"choose", "open", "configure", "add"}]
        /\ step'[s] = "choose" /\ \A d \in Service \ {s} : step'[d] = step[d]
    BY <1>2 DEF ServiceTypeOK
  <2>2. outcome' \in [Service -> {"none", "ok", "error"}]
    BY <1>1 DEF ServiceTypeOK
  <2>3. 0 \in 0 .. Len(List) /\ (at[s] # Len(List) => at[s] + 1 \in 0 .. Len(List))
    BY <1>3
  <2>4. at' \in [Service -> 0 .. Len(List)] /\ \A d \in Service \ {s} : at'[d] = at[d]
    BY <1>1, <2>3 DEF ServiceTypeOK
  <2>5. QED
    BY <2>1, <2>2, <2>4
<1>5. ASSUME NEW i \in Entry, NEW d \in Passed(i)', d # s \/ i # at[s]
      PROVE  d \in Passed(i)
  <2>1. d \in Users(i) /\ d \in Service /\ (outcome'[d] = "ok" \/ i < at'[d])
    BY DEF Passed, Users
  <2>2. CASE d # s
    <3>1. at'[d] = at[d] /\ outcome'[d] = outcome[d]
      BY <1>1, <2>1, <2>2 DEF ServiceTypeOK
    <3>2. QED
      BY <2>1, <3>1 DEF Passed
  <2>3. CASE d = s /\ i # at[s]
    <3>1. outcome[s] = "ok" \/ i < at[s]
      BY <1>1, <1>3, <2>1, <2>3 DEF ServiceTypeOK
    <3>2. QED
      BY <2>1, <2>3, <3>1 DEF Passed
  <2>4. QED
    BY <1>5, <2>2, <2>3
<1>6. \A i \in Entry : Passed(i)' \subseteq Users(i)
  BY DEF Passed, Users
<1>7. QED
  BY <1>4, <1>5, <1>6

\* Every step but Add and those of Close: the subscriptions of the entries stay.
LEMMA NothingAdded ==
    ASSUME ServiceInv, NEW s \in Service,
           at' \in [Service -> 0 .. Len(List)],
           step' \in [Service -> {"choose", "open", "configure", "add"}],
           outcome' \in [Service -> {"none", "ok", "error"}],
           \A d \in Service : d = s \/ (step'[d] = step[d] /\ at'[d] = at[d]),
           step'[s] # "choose" => at'[s] # 0,
           step'[s] \in {"configure", "add"} => s \in raw' \/ closing # "no",
           raw \ {s} \subseteq raw',
           \A i \in Entry : Passed(i)' \subseteq Passed(i),
           UNCHANGED <<live, closing>>
    PROVE  ServiceInv'
<1>1. ServiceTypeOK' /\ SubscribesForAnEntry'
  BY DEF ServiceInv, ServiceTypeOK, SubscribesForAnEntry
<1>2. ASSUME closing' = "no", NEW i \in Entry PROVE Cardinality(Passed(i)') <= live'[i]
  <2>1. Cardinality(Passed(i)) <= live[i] /\ live[i] \in Nat
    BY <1>2 DEF ServiceInv, ServiceTypeOK, NilMeansServed, Passed
  <2>2. QED
    BY <2>1, StillServed
<1>3. QED
  BY <1>1, <1>2 DEF ServiceInv, NilMeansServed, Passed

LEMMA CallHolds ==
    ASSUME ServiceInv, NEW s \in Service, Call(s) PROVE ServiceInv'
<1>1. at[s] = 0 /\ step[s] = "choose" /\ UNCHANGED <<live, raw, closing>> /\ ServiceTypeOK
  BY DEF Call, ServiceInv, ServiceTypeOK, SubscribesForAnEntry, subVars
<1>2. CASE Len(List) = 0
  <2>1. EndCall(s, "ok") /\ Entry = {}
    BY <1>2, EntriesAreNumbers DEF Call
  <2>2. step'[s] = "choose"
    BY <1>1, <2>1 DEF EndCall, StepTo, ServiceTypeOK
  <2>3. QED
    BY <1>1, <2>1, <2>2, EndsOrBegins, NothingAdded
<1>3. CASE Len(List) # 0
  <2>1. /\ at' = [at EXCEPT ![s] = 1] /\ Entry # {} /\ UNCHANGED step
        /\ outcome' = [outcome EXCEPT ![s] = "none"]
    <3>1. Entry # {}
      BY <1>3, EntriesAreNumbers
    <3>2. QED
      BY <1>3, <3>1 DEF Call
  <2>2. step'[s] = "choose"
    BY <1>1, <2>1
  <2>3. QED
    BY <1>1, <2>1, <2>2, EndsOrBegins, NothingAdded
<1>4. QED
  BY <1>2, <1>3

LEMMA FailsHolds ==
    ASSUME ServiceInv, NEW s \in Service, RefuseEntry(s) \/ OpenFails(s) \/ ConfigureFails(s)
    PROVE  ServiceInv'
<1>1. /\ EndCall(s, "error") /\ ServiceTypeOK /\ raw \ {s} \subseteq raw'
      /\ UNCHANGED <<live, closing>>
  BY DEF RefuseEntry, OpenFails, ConfigureFails, ServiceInv, subVars
<1>2. step'[s] = "choose"
  BY <1>1 DEF EndCall, StepTo, ServiceTypeOK
<1>3. QED
  BY <1>1, <1>2, EndsOrBegins, NothingAdded

LEMMA PassOverHolds ==
    ASSUME ServiceInv, NEW s \in Service, PassOver(s) PROVE ServiceInv'
<1>1. /\ Advance(s) /\ at[s] # 0 /\ ServiceTypeOK
      /\ UNCHANGED <<live, raw, closing>>
  BY DEF PassOver, ServiceInv, subVars
<1>2. s \notin Users(at[s])
  BY DEF PassOver, Serves, Users
<1>3. \A i \in Entry : Passed(i)' \subseteq Passed(i)
  BY <1>1, <1>2, Advances
<1>4. QED
  BY <1>1, <1>3, Advances, NothingAdded

LEMMA GoesOnHolds ==
    ASSUME ServiceInv, NEW s \in Service, Choose(s) \/ Open(s) \/ Configure(s)
    PROVE  ServiceInv'
<1>1. /\ UNCHANGED <<at, outcome, live, closing>>
      /\ at[s] # 0 /\ ServiceTypeOK /\ raw \ {s} \subseteq raw'
  BY DEF Choose, Open, Configure, subVars, ServiceInv, SubscribesForAnEntry
<1>2. PICK label \in {"open", "configure", "add"} :
        /\ step' = [step EXCEPT ![s] = label]
        /\ label = "configure" => s \in raw'
        /\ label = "add" => step[s] = "configure" /\ UNCHANGED raw
  BY DEF Choose, Open, Configure, StepTo, subVars
<1>3. step'[s] = label /\ \A d \in Service \ {s} : step'[d] = step[d]
  BY <1>1, <1>2 DEF ServiceTypeOK
<1>4. step'[s] \in {"configure", "add"} => s \in raw' \/ closing # "no"
  BY <1>2, <1>3 DEF ServiceInv, SubscribesForAnEntry
<1>5. step' \in [Service -> {"choose", "open", "configure", "add"}]
  BY <1>1, <1>2 DEF ServiceTypeOK
<1>6. \A i \in Entry : Passed(i)' \subseteq Passed(i)
  BY <1>1 DEF Passed
<1>7. at' \in [Service -> 0 .. Len(List)] /\ outcome' \in [Service -> {"none", "ok", "error"}]
  BY <1>1 DEF ServiceTypeOK
<1>8. QED
  BY <1>1, <1>3, <1>4, <1>5, <1>6, <1>7, NothingAdded

\* The one step that passes an entry for a service it is for: one subscription more.
LEMMA AddHolds ==
    ASSUME ServiceInv, NEW s \in Service, Add(s) PROVE ServiceInv'
<1> USE EntriesAreNumbers
<1>1. /\ Advance(s) /\ at[s] \in Entry /\ ServiceTypeOK
      /\ raw' = raw \ {s} /\ UNCHANGED closing
  BY DEF Add, ServiceInv, ServiceTypeOK, SubscribesForAnEntry
<1>2. live' \in [Entry -> Nat] /\ \A i \in Entry \ {at[s]} : live'[i] = live[i]
  BY <1>1 DEF Add, ServiceTypeOK
<1>3. closing = "no" => live'[at[s]] = live[at[s]] + 1
  BY <1>1 DEF Add, ServiceInv, SubscribesForAnEntry, ServiceTypeOK
<1>4. ServiceTypeOK'
  BY <1>1, <1>2, Advances DEF ServiceTypeOK
<1>5. SubscribesForAnEntry'
  BY <1>1, Advances DEF ServiceInv, SubscribesForAnEntry
<1>6. ASSUME closing' = "no", NEW i \in Entry PROVE Cardinality(Passed(i)') <= live'[i]
  <2>1. Cardinality(Passed(i)) <= live[i] /\ live[i] \in Nat /\ live'[i] \in Nat
    BY <1>1, <1>2, <1>6 DEF ServiceInv, ServiceTypeOK, NilMeansServed, Passed
  <2>2. CASE i = at[s]
    <3>1. Passed(i)' \subseteq Passed(i) \cup {s} /\ live'[i] >= live[i] + 1
      BY <1>1, <1>3, <1>6, <2>1, <2>2, Advances
    <3>2. QED
      BY <2>1, <3>1, StillServed
  <2>3. CASE i # at[s]
    <3>1. Passed(i)' \subseteq Passed(i) /\ live'[i] >= live[i]
      BY <1>1, <1>2, <2>1, <2>3, Advances
    <3>2. QED
      BY <2>1, <3>1, StillServed
  <2>4. QED
    BY <2>2, <2>3
<1>7. QED
  BY <1>4, <1>5, <1>6 DEF ServiceInv, NilMeansServed, Passed

LEMMA CloseHolds ==
    ASSUME ServiceInv, Close \/ CloseSubscriptions \/ Disconnect
    PROVE  ServiceInv'
<1>1. closing' # "no" /\ UNCHANGED <<at, step, outcome>>
  BY DEF Close, CloseSubscriptions, Disconnect, serveVars
<1>2. live' \in [Entry -> Nat]
  BY DEF Close, CloseSubscriptions, Disconnect, subVars, ServiceInv, ServiceTypeOK
<1>3. QED
  BY <1>1, <1>2 DEF ServiceInv, ServiceTypeOK, SubscribesForAnEntry, NilMeansServed

\* For any list, services and bounds: until Close is called every call that has passed
\* an entry, and every one that returned nil, has a subscription of its own open for it
\* (client.go SubscribeService, nats.go Subscribe).
THEOREM ServicesAreServed == ServiceSpec => []NilMeansServed
<1>1. ServiceInv /\ [ServiceNext]_serviceVars => ServiceInv'
  <2> SUFFICES ASSUME ServiceInv, [ServiceNext]_serviceVars PROVE ServiceInv'
    OBVIOUS
  <2>1. ASSUME NEW s \in Service,
               \/ Call(s) \/ RefuseEntry(s) \/ PassOver(s) \/ Choose(s)
               \/ Open(s) \/ OpenFails(s) \/ Configure(s) \/ ConfigureFails(s) \/ Add(s)
        PROVE  ServiceInv'
    BY <2>1, CallHolds, FailsHolds, PassOverHolds, GoesOnHolds, AddHolds
  <2>2. CASE UNCHANGED serviceVars
    BY <2>2 DEF serviceVars, serveVars, subVars, ServiceInv, ServiceTypeOK,
                SubscribesForAnEntry, NilMeansServed, Users
  <2>3. QED
    BY <2>1, <2>2, CloseHolds DEF ServiceNext
<1>2. ServiceInv => NilMeansServed
  BY DEF ServiceInv
<1>3. QED
  BY <1>1, <1>2, ServiceInitHolds, PTL DEF ServiceSpec
====
