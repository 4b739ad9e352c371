------------------------------ MODULE HotConfig_proofs ------------------------------
(***************************************************************************)
(* Proofs about HotConfig, for any documents, watchers and callers.        *)
(***************************************************************************)
EXTENDS HotConfig, TLAPS

-----------------------------------------------------------------------------
(* Types *)

LEMMA PartType ==
    ASSUME NEW w \in Watcher, NEW doc \in Doc
    PROVE  View(Watches[w], doc) \in Part
<1>1. Watches[w] \in SUBSET Path
  BY FeedAssumption
<1>2. View(Watches[w], doc) \in [Watches[w] -> Value \cup {None}]
  BY <1>1 DEF View, Doc
<1> QED
  BY <1>1, <1>2 DEF Part

LEMMA UnloadedType == Unloaded \in Snapshots
BY DEF Unloaded, Snapshots, EmptyDoc, Doc

\* What the loader may do to its own variables.
FeedMove == Publish \/ (\E w \in Watcher : Open(w) \/ Accept(w)) \/ UNCHANGED feedVars

LEMMA FeedTypes ==
    ASSUME HotTypeOK, FeedMove, current' \in Snapshots \/ current' = current
    PROVE  /\ current' \in Snapshots /\ history' \subseteq Snapshots
           /\ open' \subseteq Watcher /\ seen' \in [Watcher -> Nat]
           /\ shown' \in [Watcher -> Part]
<1> USE DEF HotTypeOK
<1>1. CASE Publish
  BY <1>1 DEF Publish
<1>2. ASSUME NEW w \in Watcher, Open(w) PROVE
         /\ current' \in Snapshots /\ history' \subseteq Snapshots
         /\ open' \subseteq Watcher /\ seen' \in [Watcher -> Nat]
         /\ shown' \in [Watcher -> Part]
  <2>1. PICK s \in history : shown' = [shown EXCEPT ![w] = ShownBy(w, s)]
    BY <1>2 DEF Open
  <2>2. ShownBy(w, s) \in Part
    BY <2>1, PartType DEF ShownBy, Snapshots
  <2> QED
    BY <1>2, <2>1, <2>2 DEF Open, Snapshots
<1>3. ASSUME NEW w \in Watcher, Accept(w) PROVE
         /\ current' \in Snapshots /\ history' \subseteq Snapshots
         /\ open' \subseteq Watcher /\ seen' \in [Watcher -> Nat]
         /\ shown' \in [Watcher -> Part]
  <2>1. PICK s \in history : /\ seen' = [seen EXCEPT ![w] = s.ver]
                             /\ shown' = [shown EXCEPT ![w] = ShownBy(w, s)]
    BY <1>3 DEF Accept
  <2>2. ShownBy(w, s) \in Part /\ s.ver \in Nat
    BY <2>1, PartType DEF ShownBy, Snapshots
  <2> QED
    BY <1>3, <2>1, <2>2 DEF Accept
<1>4. CASE UNCHANGED feedVars
  BY <1>4 DEF feedVars
<1> QED
  BY <1>1, <1>2, <1>3, <1>4 DEF FeedMove

LEMMA PublishTypes ==
    ASSUME HotTypeOK, PublishNext
    PROVE  /\ current' \in Snapshots /\ current'.ver > current.ver /\ Publish
           /\ FeedMove
<1>1. PICK d \in Doc : current' = [ver |-> current.ver + 1, doc |-> d]
  BY DEF PublishNext
<1> QED
  BY <1>1 DEF PublishNext, FeedMove, HotTypeOK, Snapshots

LEMMA HotTypeInit == HotInit => HotTypeOK
<1> SUFFICES ASSUME HotInit PROVE HotTypeOK
  OBVIOUS
<1> USE UnloadedType, HotAssumption DEF HotInit, Init
<1>1. Unloaded.doc \in Doc /\ Unloaded.ver \in Nat /\ EmptyDoc \in Doc
  BY DEF Snapshots, Unloaded, Doc, EmptyDoc
<1>2. shown \in [Watcher -> Part]
  BY <1>1, PartType DEF ShownBy
<1>3. value \in [Client -> Part] /\ told \in [Client -> Part]
  BY <1>1, PartType
<1>4. lock = {c \in Loading : callPc[c] # "idle"}
  BY DEF Caller
<1> QED
  BY <1>1, <1>2, <1>3, <1>4 DEF HotTypeOK

\* What a step leaves alone keeps its type.
Types ==
    /\ snap \in Snapshots /\ vals \in Doc /\ exit \in BOOLEAN /\ synced \in BOOLEAN
    /\ runPc \in {"unborn", "watch", "again", "next", "adopt", "sleep", "done"}
    /\ runHand \in Snapshots /\ returned \in Nat
    /\ callPc \in [Caller -> {"idle", "load", "read", "install"}]
    /\ hand \in [Caller -> Snapshots]
    /\ lock = {c \in Loading : callPc[c] # "idle"}
    /\ \A c, d \in lock : c = d
    /\ joining \subseteq Client /\ shares \subseteq Client
    /\ value \in [Client -> Part] /\ told \in [Client -> Part]

LEMMA CallTypes ==
    ASSUME HotTypeOK, [HotNext]_vars
    PROVE  Types' /\ FeedMove /\ (current' \in Snapshots \/ current' = current)
<1> USE HotAssumption DEF HotTypeOK, Types, Caller, FeedMove
<1> USE DEF configVars, runVars, callVars, clientVars, CallGoto
<1>1. CASE SourcePublish
  BY <1>1, PublishTypes DEF SourcePublish
<1>2. CASE Start
  BY <1>2 DEF Start, Adopt, Snapshots, feedVars
<1>3. CASE RunWatch
  BY <1>3 DEF RunWatch, Open
<1>4. CASE RunNext
  <2>1. PICK s \in history : /\ seen' = [seen EXCEPT ![Run] = s.ver]
                             /\ shown' = [shown EXCEPT ![Run] = ShownBy(Run, s)]
    BY <1>4 DEF RunNext, Accept
  <2>2. seen'[Run] = s.ver /\ shown'[Run] = View(Path, s.doc)
    BY <2>1 DEF ShownBy
  <2>3. View(Path, s.doc) \in Doc /\ s.ver \in Nat
    BY <2>1 DEF View, Doc, Snapshots
  <2>4. /\ runHand' \in Snapshots /\ returned' \in Nat
        /\ runPc' \in {"next", "adopt"}
    BY <1>4, <2>2, <2>3 DEF RunNext, Snapshots
  <2> QED
    BY <1>4, <2>4 DEF RunNext, Accept
<1>5. CASE RunAdopt
  BY <1>5 DEF RunAdopt, Adopt, Snapshots, feedVars
<1>6. CASE RunStopped \/ RunWake \/ RunRetry
  BY <1>6 DEF RunStopped, RunWake, RunRetry, RunWatchFails, RunTryAgain, feedVars
<1>7. CASE Edit
  <2>1. PICK p \in Path, v \in Value \cup {None} : vals' = [vals EXCEPT ![p] = v]
    BY <1>7 DEF Edit
  <2>2. vals' \in Doc
    BY <2>1 DEF Doc
  <2>3. \A w \in Client : View(Watches[w], vals') \in Part
    BY <2>2, PartType
  <2>4. value' \in [Client -> Part]
    BY <1>7, <2>3 DEF Edit
  <2> QED
    BY <1>7, <2>2, <2>4 DEF Edit, feedVars
<1>8. CASE CloseConfig
  BY <1>8 DEF CloseConfig, feedVars
<1>9. ASSUME NEW c \in Syncing, SyncStep(c)
      PROVE  Types' /\ FeedMove /\ (current' \in Snapshots \/ current' = current)
  <2>1. CASE SyncPublish(c)
    BY <2>1, PublishTypes DEF SyncPublish
  <2>2. CASE SyncFails(c)
    BY <2>2, PublishTypes DEF SyncFails
  <2>3. CASE ReadSnapshot(c)
    BY <2>3 DEF ReadSnapshot, feedVars
  <2>4. CASE SyncInstall(c)
    BY <2>4, UnloadedType DEF SyncInstall, Adopt, Snapshots, feedVars
  <2> QED
    BY <1>9, <2>1, <2>2, <2>3, <2>4 DEF SyncStep
<1>10. ASSUME NEW c \in Loading, LoadStep(c)
       PROVE  Types' /\ FeedMove /\ (current' \in Snapshots \/ current' = current)
  <2>1. CASE LoadLock(c)
    BY <2>1 DEF LoadLock, feedVars
  <2>2. CASE LoadPublish(c)
    BY <2>2, PublishTypes DEF LoadPublish
  <2>3. CASE LoadFails(c)
    BY <2>3, PublishTypes DEF LoadFails, feedVars
  <2>4. CASE ReadSnapshot(c)
    BY <2>4 DEF ReadSnapshot, feedVars
  <2>5. CASE LoadInstall(c)
    <3>1. hand[c] \in Snapshots /\ hand[c].doc \in Doc
      BY DEF Snapshots
    <3>2. snap' \in Snapshots /\ vals' \in Doc /\ hand' \in [Caller -> Snapshots]
      BY <2>5, <3>1, UnloadedType DEF LoadInstall, Adopt
    <3>3. lock' = {d \in Loading : callPc'[d] # "idle"}
      <4>1. lock = {c}
        BY <2>5 DEF LoadInstall
      <4> QED
        BY <2>5, <4>1 DEF LoadInstall
    <3> QED
      BY <2>5, <3>2, <3>3 DEF LoadInstall, Adopt, feedVars
  <2> QED
    BY <1>10, <2>1, <2>2, <2>3, <2>4, <2>5 DEF LoadStep
<1>11. ASSUME NEW w \in Client, ClientStep(w)
       PROVE  Types' /\ FeedMove /\ (current' \in Snapshots \/ current' = current)
  <2>1. CASE WatchValue(w)
    <3>1. View(Watches[w], vals) \in Part
      BY PartType
    <3> QED
      BY <2>1, <3>1 DEF WatchValue, feedVars
  <2>2. CASE WatchLoader(w)
    BY <2>2 DEF WatchLoader, Open
  <2>4. CASE WatchFails(w)
    BY <2>4 DEF WatchFails, feedVars
  <2>3. CASE ClientNext(w)
    <3>1. shown' \in [Watcher -> Part]
      BY <2>3, FeedTypes DEF ClientNext, Accept
    <3> QED
      BY <2>3, <3>1, ZenonT(60) DEF ClientNext, Accept
  <2> QED
    BY <1>11, <2>1, <2>2, <2>3, <2>4 DEF ClientStep
<1>12. CASE UNCHANGED vars
  BY <1>12 DEF vars, feedVars
<1> QED
  BY <1>1, <1>2, <1>3, <1>4, <1>5, <1>6, <1>7, <1>8, <1>9, <1>10, <1>11, <1>12
  DEF HotNext, RunStep

LEMMA HotTypeStep == HotTypeOK /\ [HotNext]_vars => HotTypeOK'
<1> SUFFICES ASSUME HotTypeOK, [HotNext]_vars PROVE HotTypeOK'
  OBVIOUS
<1>1. Types' /\ FeedMove /\ (current' \in Snapshots \/ current' = current)
  BY CallTypes
<1>2. /\ current' \in Snapshots /\ history' \subseteq Snapshots
      /\ open' \subseteq Watcher /\ seen' \in [Watcher -> Nat]
      /\ shown' \in [Watcher -> Part]
  BY <1>1, FeedTypes
<1> QED
  BY <1>1, <1>2 DEF HotTypeOK, Types

\* Every variable keeps its type, and at most one caller holds c.Mutex across
\* steps: the one inside config.Load (default.go:250-270).
THEOREM HotTypeCorrect == HotSpec => []HotTypeOK
BY HotTypeInit, HotTypeStep, PTL DEF HotSpec

-----------------------------------------------------------------------------
(* Only Sync takes the configuration back *)

\* Nothing held anywhere is newer than the loader's snapshot, and what the caller
\* inside Load is about to install is as new as the configuration and as what run
\* last received: run cannot install while Load holds the lock.
HandsAreFresh ==
    /\ snap.ver <= current.ver /\ runHand.ver <= current.ver
    /\ returned <= current.ver
    /\ \A s \in history : s.ver <= current.ver
    /\ \A c \in Caller : hand[c].ver <= current.ver
    /\ \A c \in Loading : callPc[c] = "install" =>
            hand[c].ver >= snap.ver /\ (runPc # "adopt" => hand[c].ver >= returned)
    /\ runPc = "unborn" => \A c \in Caller : callPc[c] = "idle"

\* What run got from its watcher is in hand or already covered by c.snap.
ReturnedIsHeld ==
    IF runPc = "adopt" THEN runHand.ver = returned
    ELSE synced \/ snap.ver >= returned

HotInv == HotTypeOK /\ HandsAreFresh /\ ReturnedIsHeld

LEMMA HotInvInit == HotInit => HotInv
<1> SUFFICES ASSUME HotInit PROVE HotInv
  OBVIOUS
<1>1. HandsAreFresh /\ ReturnedIsHeld
  BY DEF HotInit, Init, Unloaded, Caller, HandsAreFresh, ReturnedIsHeld
<1> QED
  BY <1>1, HotTypeInit DEF HotInv

LEMMA HotInvStep ==
    ASSUME HotInv, [HotNext]_vars
    PROVE  HotInv' /\ (snap'.ver < snap.ver => synced')
<1> DEFINE Kept == /\ HandsAreFresh' /\ ReturnedIsHeld'
                   /\ snap'.ver < snap.ver => synced'
<1>t. HotTypeOK /\ HotTypeOK'
  BY HotTypeStep DEF HotInv
<1> USE HotAssumption DEF HotInv, HotTypeOK, Snapshots, HandsAreFresh,
    ReturnedIsHeld, Caller, configVars, runVars, callVars, clientVars
<1>p. ASSUME PublishNext
      PROVE  /\ current'.ver = current.ver + 1 /\ current.ver \in Nat
             /\ \A s \in history' : s.ver <= current'.ver
  BY <1>p, <1>t DEF PublishNext, Publish
<1>1. CASE SourcePublish
  BY <1>1, <1>p, <1>t DEF SourcePublish
<1>2. CASE Start
  <2>1. \A c \in Loading : callPc'[c] = "idle"
    BY <1>2 DEF Start, Adopt
  <2>2. snap'.ver = current.ver /\ returned <= current.ver
    BY <1>2 DEF Start, Adopt
  <2> QED
    BY <1>2, <2>1, <2>2, <1>t DEF Start, Adopt, feedVars
<1>3. CASE RunWatch
  BY <1>3, <1>t DEF RunWatch, Open
<1>4. CASE RunNext
  <2>1. PICK s \in history : seen' = [seen EXCEPT ![Run] = s.ver]
    BY <1>4 DEF RunNext, Accept
  <2>2. seen'[Run] <= current.ver /\ current' = current /\ history' = history
    BY <1>4, <2>1, <1>t DEF RunNext, Accept
  <2> QED
    BY <1>4, <2>2, <1>t DEF RunNext
<1>5. CASE RunAdopt
  BY <1>5, <1>t DEF RunAdopt, Adopt, Newer, feedVars
<1>6. CASE RunStopped \/ RunWake \/ RunRetry
  BY <1>6, <1>t DEF RunStopped, RunWake, RunRetry, RunWatchFails, RunTryAgain, feedVars
<1>7. CASE Edit \/ CloseConfig
  BY <1>7, <1>t DEF Edit, CloseConfig, feedVars
<1>11. ASSUME NEW c \in Syncing, SyncStep(c) PROVE Kept
  <2> USE <1>t DEF CallGoto, Started
  <2>1. CASE SyncPublish(c)
    BY <2>1, <1>p DEF SyncPublish
  <2>2. CASE SyncFails(c)
    BY <2>2, <1>p DEF SyncFails
  <2>3. CASE ReadSnapshot(c)
    BY <2>3 DEF ReadSnapshot, feedVars
  <2>4. CASE SyncInstall(c)
    <3>1. \A d \in Loading : callPc'[d] = "idle"
      BY <2>4 DEF SyncInstall, Adopt
    <3>2. synced' /\ snap' = hand[c] /\ UNCHANGED <<feedVars, runVars>>
      BY <2>4 DEF SyncInstall, Adopt
    <3>3. \A d \in Caller : hand'[d].ver <= current.ver
      BY <2>4 DEF SyncInstall, Adopt, Unloaded
    <3>4. runPc # "unborn"
      BY <2>4 DEF SyncInstall
    <3> QED
      BY <3>1, <3>2, <3>3, <3>4 DEF feedVars
  <2> QED
    BY <1>11, <2>1, <2>2, <2>3, <2>4 DEF SyncStep
<1>8. ASSUME NEW c \in Loading, LoadStep(c) PROVE Kept
  <2> USE <1>t DEF CallGoto, Started
  <2>1. CASE LoadLock(c)
    BY <2>1 DEF LoadLock, feedVars
  <2>2. CASE LoadPublish(c)
    BY <2>2, <1>p DEF LoadPublish
  <2>3. CASE LoadFails(c)
    BY <2>3, <1>p DEF LoadFails, feedVars
  <2>4. CASE ReadSnapshot(c)
    BY <2>4 DEF ReadSnapshot, feedVars
  <2>5. CASE LoadInstall(c)
    <3>1. hand[c].ver >= snap.ver /\ snap' = hand[c] /\ lock' = {}
      BY <2>5 DEF LoadInstall, Adopt
    <3>2. \A d \in Loading : callPc'[d] = "idle"
      BY <3>1
    <3>3. UNCHANGED <<current, history, runPc, runHand, returned>>
      BY <2>5 DEF LoadInstall, Adopt, feedVars
    <3>4. \A d \in Caller : hand'[d].ver <= current.ver
      BY <2>5 DEF LoadInstall, Adopt, Unloaded
    <3>5. runPc # "unborn" /\ (runPc # "adopt" => hand[c].ver >= returned)
      BY <2>5 DEF LoadInstall, Adopt
    <3>6. snap'.ver = hand[c].ver /\ snap.ver \in Nat /\ hand[c].ver \in Nat
      BY <3>1
    <3>7. HandsAreFresh'
      BY <3>1, <3>2, <3>3, <3>4, <3>5
    <3>8. ReturnedIsHeld'
      BY <3>1, <3>3, <3>5, <3>6
    <3> QED
      BY <3>6, <3>7, <3>8, <3>1
  <2> QED
    BY <1>8, <2>1, <2>2, <2>3, <2>4, <2>5 DEF LoadStep
<1>9. ASSUME NEW w \in Client, ClientStep(w) PROVE Kept
  BY <1>9, <1>t DEF ClientStep, WatchValue, WatchLoader, WatchFails, ClientNext,
     Open, Accept, feedVars
<1>10. CASE UNCHANGED vars
  BY <1>10, <1>t DEF vars, feedVars
<1> QED
  BY <1>1, <1>2, <1>3, <1>4, <1>5, <1>6, <1>7, <1>8, <1>9, <1>10, <1>11,
     <1>t
  DEF HotNext, RunStep

\* The configuration's snapshot gets older only by config.Sync: the comparison in
\* run (default.go:104) and the lock Load holds from before Loader.Load (:251) are
\* enough, for any number of loading and syncing goroutines.
THEOREM LoadNeverGoesBack == HotSpec => ViewNeverGoesBack
<1>1. HotInv /\ [HotNext]_vars => HotInv' /\ [snap'.ver < snap.ver => synced']_vars
  BY HotInvStep
<1> QED
  BY <1>1, HotInvInit, PTL DEF HotSpec, ViewNeverGoesBack

\* Whenever run waits for its watcher the configuration is at least as new as the
\* last snapshot the watcher returned, unless Sync installed what it shows.
THEOREM LoadNeverOutrunsRun == HotSpec => []RunKeepsUp
<1>1. HotInv /\ [HotNext]_vars => HotInv'
  BY HotInvStep
<1>2. HotInv => RunKeepsUp
  BY DEF HotInv, ReturnedIsHeld, RunKeepsUp
<1> QED
  BY <1>1, <1>2, HotInvInit, PTL DEF HotSpec
-----------------------------------------------------------------------------
(* The run goroutine of a closed configuration runs down *)

\* What the watcher of run has seen was published.
SeenWasPublished == seen[Run] <= current.ver

\* How many steps run has left at most once the configuration is closed, if nothing
\* more is published: three for each version its watcher may still show, and the way
\* out.
StepsLeft ==
    CASE runPc \in {"unborn", "watch", "again"} -> 3
      [] runPc = "adopt"                        -> 3 * (current.ver - seen[Run]) + 3
      [] runPc = "next"                         -> 3 * (current.ver - seen[Run]) + 2
      [] runPc = "sleep"                        -> 1
      [] runPc = "done"                         -> 0

RunsDown ==
    exit =>
      /\ StepsLeft \in Nat
      /\ RunStep /\ ~RunRetry => StepsLeft' < StepsLeft
      /\ RunRetry => StepsLeft' = StepsLeft
      /\ ~RunStep => StepsLeft' <= StepsLeft + 3 * (current'.ver - current.ver)

SeenInv == HotInv /\ SeenWasPublished

LEMMA SeenInit == HotInit => SeenInv
<1> SUFFICES ASSUME HotInit PROVE SeenInv
  OBVIOUS
<1>1. current.ver = 0 /\ seen[Run] = 0
  BY HotAssumption DEF HotInit, Init, Unloaded
<1> QED
  BY <1>1, HotInvInit DEF SeenInv, SeenWasPublished

\* What steps do to the variables the number is about.
LEMMA StepsOfTheFeed ==
    ASSUME HotTypeOK, [HotNext]_vars
    PROVE  \/ PublishNext
           \/ RunWatch
           \/ RunNext
           \/ UNCHANGED <<current, seen[Run]>>
<1> USE DEF feedVars, configVars, runVars, callVars, clientVars
<1>1. CASE SourcePublish
  BY <1>1 DEF SourcePublish
<1>2. CASE Start \/ Edit \/ CloseConfig
  BY <1>2 DEF Start, Edit, CloseConfig
<1>3. CASE RunStep
  BY <1>3 DEF RunStep, RunRetry, RunWatchFails, RunTryAgain, RunAdopt, RunStopped, RunWake
<1>4. ASSUME NEW c \in Syncing, SyncStep(c)
      PROVE  PublishNext \/ UNCHANGED <<current, seen[Run]>>
  BY <1>4 DEF SyncStep, SyncPublish, SyncFails, ReadSnapshot, SyncInstall
<1>5. ASSUME NEW c \in Loading, LoadStep(c)
      PROVE  PublishNext \/ UNCHANGED <<current, seen[Run]>>
  BY <1>5 DEF LoadStep, LoadLock, LoadPublish, LoadFails, ReadSnapshot, LoadInstall
<1>6. ASSUME NEW w \in Client, ClientStep(w)
      PROVE  UNCHANGED <<current, seen[Run]>>
  <2>1. w # Run /\ w \in Watcher /\ Run \in Watcher
    BY HotAssumption
  <2>2. CASE WatchValue(w)
    BY <2>2 DEF WatchValue
  <2>3. CASE WatchLoader(w)
    BY <2>1, <2>3 DEF WatchLoader, Open, HotTypeOK
  <2>4. CASE ClientNext(w)
    BY <2>1, <2>4 DEF ClientNext, Accept, HotTypeOK
  <2>5. CASE WatchFails(w)
    BY <2>5 DEF WatchFails
  <2> QED
    BY <1>6, <2>2, <2>3, <2>4, <2>5 DEF ClientStep
<1>7. CASE UNCHANGED vars
  BY <1>7 DEF vars
<1> QED
  BY <1>1, <1>2, <1>3, <1>4, <1>5, <1>6, <1>7 DEF HotNext

\* What a watcher accepts was published, and is newer than what it has seen.
LEMMA RunAdvances ==
    ASSUME HotTypeOK, HandsAreFresh, RunNext
    PROVE  /\ UNCHANGED current /\ seen'[Run] \in Nat
           /\ seen[Run] < seen'[Run] /\ seen'[Run] <= current.ver
<1>1. PICK s \in history : s.ver > seen[Run] /\ seen' = [seen EXCEPT ![Run] = s.ver]
  BY DEF RunNext, Accept
<1>2. s.ver <= current.ver /\ s.ver \in Nat
  BY <1>1 DEF HandsAreFresh, HotTypeOK, Snapshots
<1>3. seen'[Run] = s.ver
  BY <1>1, HotAssumption DEF HotTypeOK
<1>4. UNCHANGED current
  BY DEF RunNext, Accept
<1> QED
  BY <1>1, <1>2, <1>3, <1>4

LEMMA RunJoins ==
    ASSUME HotTypeOK, RunWatch
    PROVE  UNCHANGED current /\ seen'[Run] = current.ver
BY HotAssumption DEF HotTypeOK, RunWatch, Open

LEMMA PublishAdvances ==
    ASSUME HotTypeOK, PublishNext
    PROVE  current'.ver = current.ver + 1 /\ seen'[Run] = seen[Run]
BY DEF HotTypeOK, Snapshots, PublishNext, Publish

LEMMA SeenStep == SeenInv /\ [HotNext]_vars => SeenInv'
<1> SUFFICES ASSUME SeenInv, [HotNext]_vars PROVE SeenInv'
  OBVIOUS
<1>1. HotInv' /\ HotTypeOK
  BY HotInvStep DEF SeenInv, HotInv
<1>2. current.ver \in Nat /\ seen[Run] \in Nat /\ seen[Run] <= current.ver
  BY <1>1, HotAssumption DEF HotTypeOK, Snapshots, SeenInv, SeenWasPublished
<1>3. CASE PublishNext
  <2>1. seen'[Run] <= current'.ver
    BY <1>1, <1>2, <1>3, PublishAdvances
  <2> QED
    BY <1>1, <2>1 DEF SeenInv, SeenWasPublished
<1>4. CASE RunWatch
  BY <1>1, <1>2, <1>4, RunJoins DEF SeenInv, SeenWasPublished
<1>5. CASE RunNext
  BY <1>1, <1>2, <1>5, RunAdvances DEF SeenInv, HotInv, SeenWasPublished
<1>6. CASE UNCHANGED <<current, seen[Run]>>
  BY <1>1, <1>2, <1>6 DEF SeenInv, SeenWasPublished
<1> QED
  BY <1>1, <1>3, <1>4, <1>5, <1>6, StepsOfTheFeed

LEMMA RunStepCounts ==
    ASSUME SeenInv, exit, RunStep, ~RunRetry
    PROVE  StepsLeft' < StepsLeft
<1> USE DEF SeenInv, HotInv
<1>1. seen[Run] \in Nat /\ current.ver \in Nat /\ seen[Run] <= current.ver
  BY HotAssumption DEF HotTypeOK, SeenWasPublished, Snapshots
<1>2. CASE RunWatch
  <2>1. runPc = "watch" /\ runPc' = "next" /\ seen'[Run] = current.ver
    BY <1>2, RunJoins DEF RunWatch
  <2>2. current' = current
    BY <1>2, RunJoins
  <2>3. StepsLeft = 3 /\ StepsLeft' = 2
    BY <1>1, <2>1, <2>2 DEF StepsLeft
  <2> QED
    BY <2>3
<1>3. CASE RunNext
  <2>1. runPc = "next" /\ runPc' \in {"next", "adopt"}
    BY <1>3 DEF RunNext
  <2>2. /\ seen'[Run] \in Nat /\ seen[Run] < seen'[Run] /\ seen'[Run] <= current.ver
        /\ current' = current
    BY <1>3, RunAdvances
  <2> QED
    BY <1>1, <2>1, <2>2 DEF StepsLeft
<1>4. CASE RunAdopt
  <2>1. runPc = "adopt" /\ runPc' = "next" /\ seen' = seen /\ current' = current
    BY <1>4 DEF RunAdopt, feedVars
  <2> QED
    BY <1>1, <2>1 DEF StepsLeft
<1>5. CASE RunStopped
  <2>1. runPc = "next" /\ runPc' = "sleep"
    BY <1>5 DEF RunStopped
  <2> QED
    BY <1>1, <2>1 DEF StepsLeft
<1>6. CASE RunWake
  <2>1. runPc = "sleep" /\ runPc' = "done"
    BY <1>6 DEF RunWake
  <2> QED
    BY <2>1 DEF StepsLeft
<1> QED
  BY <1>2, <1>3, <1>4, <1>5, <1>6 DEF RunStep

\* Only run itself moves run, once it was started.
LEMMA OthersLeaveRun ==
    ASSUME [HotNext]_vars, ~RunStep
    PROVE  runPc' = runPc \/ (runPc = "unborn" /\ runPc' = "watch")
<1> USE DEF runVars
<1>1. CASE SourcePublish \/ Edit \/ CloseConfig
  BY <1>1 DEF SourcePublish, Edit, CloseConfig
<1>2. CASE Start
  BY <1>2 DEF Start
<1>3. ASSUME NEW c \in Syncing, SyncStep(c) PROVE runPc' = runPc
  BY <1>3 DEF SyncStep, SyncPublish, SyncFails, ReadSnapshot, SyncInstall
<1>4. ASSUME NEW c \in Loading, LoadStep(c) PROVE runPc' = runPc
  BY <1>4 DEF LoadStep, LoadLock, LoadPublish, LoadFails, ReadSnapshot, LoadInstall
<1>5. ASSUME NEW w \in Client, ClientStep(w) PROVE runPc' = runPc
  BY <1>5 DEF ClientStep, WatchValue, WatchLoader, WatchFails, ClientNext
<1>6. CASE UNCHANGED vars
  BY <1>6 DEF vars
<1> QED
  BY <1>1, <1>2, <1>3, <1>4, <1>5, <1>6 DEF HotNext

LEMMA RunsDownStep ==
    ASSUME SeenInv, [HotNext]_vars
    PROVE  RunsDown
<1> USE DEF SeenInv, HotInv
<1>1. seen[Run] \in Nat /\ current.ver \in Nat /\ seen[Run] <= current.ver
  BY HotAssumption DEF HotTypeOK, SeenWasPublished, Snapshots
<1>2. runPc \in {"unborn", "watch", "again", "next", "adopt", "sleep", "done"}
  BY DEF HotTypeOK
<1>3. StepsLeft \in Nat
  BY <1>1, <1>2 DEF StepsLeft
<1>4. ASSUME RunRetry PROVE StepsLeft' = StepsLeft
  <2>1. runPc \in {"watch", "again"} /\ runPc' \in {"watch", "again"}
    BY <1>4 DEF RunRetry, RunWatchFails, RunTryAgain
  <2>2. StepsLeft = 3 /\ StepsLeft' = 3
    BY <2>1 DEF StepsLeft
  <2> QED
    BY <2>2
<1>5. ASSUME exit, ~RunStep
      PROVE  StepsLeft' <= StepsLeft + 3 * (current'.ver - current.ver)
  <2>1. ~RunWatch /\ ~RunNext
    BY <1>5 DEF RunStep
  <2>2. runPc' = runPc \/ (runPc = "unborn" /\ runPc' = "watch")
    BY <1>5, OthersLeaveRun
  <2>3. CASE PublishNext
    <3>1. current'.ver = current.ver + 1 /\ seen'[Run] = seen[Run]
      BY <2>3, PublishAdvances
    <3>2. PICK p, v : p = seen[Run] /\ p = seen'[Run] /\ v = current.ver
                      /\ v + 1 = current'.ver /\ p \in Nat /\ v \in Nat
      BY <1>1, <3>1
    <3>3. StepsLeft' <= StepsLeft + 3
      BY <1>2, <2>2, <3>2 DEF StepsLeft
    <3> QED
      BY <1>1, <1>3, <3>1, <3>3
  <2>4. CASE UNCHANGED <<current, seen[Run]>>
    <3>1. PICK p, v : p = seen[Run] /\ p = seen'[Run] /\ v = current.ver /\ v = current'.ver
      BY <2>4
    <3>2. StepsLeft' = StepsLeft
      BY <2>2, <3>1 DEF StepsLeft
    <3> QED
      BY <1>1, <1>3, <2>4, <3>2
  <2> QED
    BY <2>1, <2>3, <2>4, StepsOfTheFeed
<1> QED
  BY <1>3, <1>4, <1>5, RunStepCounts DEF RunsDown

\* Once the configuration is closed, every step of run brings it closer to its end but
\* for a Loader.Watch that fails, which leaves it where it is; the steps of callers and
\* clients do not take it farther away, and a snapshot the loader publishes costs it
\* three steps at most (default.go:90-154): the part of CloseEndsRun that needs no
\* fairness, and no bound on versions.
THEOREM ClosedRunRunsDown == HotSpec => [][RunsDown]_vars
<1>1. SeenInv /\ [HotNext]_vars => [RunsDown]_vars
  BY RunsDownStep
<1> QED
  BY <1>1, SeenInit, SeenStep, PTL DEF HotSpec
=====================================================================================
