--------------------------- MODULE ConfigLoader_proofs ---------------------------
(***************************************************************************)
(* Theorems about ConfigLoader, for every value of its constants.          *)
(***************************************************************************)
EXTENDS ConfigLoader, TLAPS

(* Data *)

LEMMA EmptyDocType == EmptyDoc \in Doc
BY DEF EmptyDoc, Doc

LEMMA MergeType ==
    ASSUME NEW order, NEW cs
    PROVE  Merge(order, cs) \in Doc
<1>1. ASSUME NEW p \in Path, LastDefined(order, cs, p) # {}
      PROVE  (CHOOSE v \in LastDefined(order, cs, p) : TRUE) \in Value
  BY <1>1 DEF LastDefined
<1> QED
  BY <1>1 DEF Merge, Doc

LEMMA ViewType ==
    ASSUME NEW ps \in SUBSET Path, NEW doc \in Doc
    PROVE  View(ps, doc) \in [ps -> Value \cup {None}]
BY DEF View, Doc

\* What Install does to the snapshot variables.
LEMMA InstallType ==
    ASSUME TypeOK, NEW doc \in Doc, NEW b \in BOOLEAN, Install(doc, b)
    PROVE  /\ loaded' \in BOOLEAN /\ snap' \in Snapshots /\ clock' \in Int
           /\ history' \subseteq Snapshots /\ bySync' \in BOOLEAN
<1>1. clock' \in Int
  BY LoaderAssumption DEF Install, TypeOK
<1>2. snap' \in Snapshots
  BY <1>1 DEF Install, Snapshots
<1> QED
  BY <1>1, <1>2 DEF Install, TypeOK

LEMMA TypeInit == Init => TypeOK
<1> SUFFICES ASSUME Init PROVE TypeOK
  OBVIOUS
<1> USE LoaderAssumption, DataAssumption, EmptyDocType DEF Init
<1>1. /\ content \in [Source -> ChangeSet] /\ sets \in [Source -> ChangeSet]
      /\ queue \in [Source -> Seq(ChangeSet)]
      /\ \A s \in Source : Len(queue[s]) <= QueueCap
      /\ hand \in [Proc -> ChangeSet]
  BY DEF ChangeSet
<1>2. /\ pc \in [Proc -> GoroutineLabels \cup CallerLabels]
      /\ \A s \in Source : pc[s] \in GoroutineLabels
      /\ \A c \in Caller : pc[c] \in CallerLabels
  BY DEF Proc, GoroutineLabels, CallerLabels
<1>3. /\ snap \in Snapshots /\ history \subseteq Snapshots
  BY DEF Unloaded, Snapshots
<1>4. job \in [Proc -> [ver : Int, doc : Doc, todo : SUBSET Watcher,
                        now : SUBSET Watcher]]
  BY DEF NoJob
<1>5. \A w \in Watcher : held[w] \in [Watches[w] -> Value \cup {None}]
  BY ViewType
<1>6. \A w \in Watcher : /\ slot[w] \subseteq Updates(w)
                         /\ \A u1, u2 \in slot[w] : u1 = u2
  OBVIOUS
<1>7. /\ stage \in [Watcher -> {"new", "opening", "live", "stopped"}]
      /\ seen \in [Watcher -> Int] /\ missed \in [Watcher -> Int]
      /\ DOMAIN held = Watcher /\ DOMAIN slot = Watcher
      /\ target \in [Caller -> SUBSET Source]
      /\ subscribed \in [Source -> BOOLEAN]
      /\ sources \in Seq(Source) /\ clock \in Int
      /\ changes \in 0..MaxChanges /\ calls \in 0..MaxCalls
  OBVIOUS
<1>8. /\ list \subseteq Watcher /\ unseen \subseteq Source
      /\ pinned \subseteq Source
      /\ loaded \in BOOLEAN /\ closed \in BOOLEAN /\ bySync \in BOOLEAN
  OBVIOUS
<1> QED
  BY <1>1, <1>2, <1>3, <1>4, <1>5, <1>6, <1>7, <1>8 DEF TypeOK

LEMMA SyncType ==
    ASSUME TypeOK, NEW c \in Caller, Sync(c)
    PROVE  TypeOK'
<1>1. PICK failed \in SUBSET (Flaky \cap Loaded) :
        LET read == [s \in Source |-> IF s \in failed THEN EmptyDoc ELSE content[s]]
        IN  /\ Install(Merge(sources, read), TRUE)
            /\ pinned' = Loaded \ failed
  BY DEF Sync
<1> DEFINE read == [s \in Source |-> IF s \in failed THEN EmptyDoc ELSE content[s]]
<1>2. Merge(sources, read) \in Doc
  BY MergeType, EmptyDocType, DataAssumption DEF TypeOK, ChangeSet
<1>3. /\ loaded' \in BOOLEAN /\ snap' \in Snapshots /\ clock' \in Int
      /\ history' \subseteq Snapshots /\ bySync' \in BOOLEAN
  BY <1>1, <1>2, InstallType
<1>4. pinned' \subseteq Source
  BY <1>1 DEF Loaded, TypeOK
<1>5. changes' \in 0..MaxChanges /\ calls' \in 0..MaxCalls
  BY LoaderAssumption DEF Sync, CountCall, TypeOK
<1>6. /\ pc' \in [Proc -> GoroutineLabels \cup CallerLabels]
      /\ \A s \in Source : pc'[s] \in GoroutineLabels
      /\ \A b \in Caller : pc'[b] \in CallerLabels
  BY LoaderAssumption DEF Sync, Goto, TypeOK, Proc, GoroutineLabels, CallerLabels
<1>7. /\ UNCHANGED <<content, queue, subscribed, sources, sets, list, stage, seen, held>>
      /\ UNCHANGED <<closed, hand, target, job, slot, missed>>
      /\ unseen' \subseteq Source
  BY DEF Sync, sourceVars, mergeVars, clientVars, TypeOK, Loaded
<1>8. \A w \in Watcher : Updates(w)' = Updates(w)
  BY DEF Updates
<1> QED
  BY <1>3, <1>4, <1>5, <1>6, <1>7, <1>8 DEF TypeOK

LEMMA WatchGetType ==
    ASSUME TypeOK, NEW w \in Watcher, WatchGet(w)
    PROVE  TypeOK'
<1>1. held' = [held EXCEPT ![w] = View(Watches[w], snap.doc)]
      /\ stage' = [stage EXCEPT ![w] = "opening"]
  BY DEF WatchGet
<1>2. View(Watches[w], snap.doc) \in [Watches[w] -> Value \cup {None}]
  BY LoaderAssumption, ViewType DEF TypeOK, Snapshots
<1>3. /\ DOMAIN held' = Watcher
      /\ \A x \in Watcher : held'[x] \in [Watches[x] -> Value \cup {None}]
  BY <1>1, <1>2 DEF TypeOK
<1>4. stage' \in [Watcher -> {"new", "opening", "live", "stopped"}]
  BY <1>1 DEF TypeOK
<1>5. /\ UNCHANGED <<content, queue, subscribed, unseen, sources, sets, list, seen>>
      /\ UNCHANGED <<loaded, snap, clock, history, bySync, changes, calls>>
      /\ UNCHANGED <<closed, pc, hand, target, job, slot, missed, pinned>>
  BY DEF WatchGet, sourceVars, mergeVars, snapVars, clientVars, counters
<1>6. \A x \in Watcher : Updates(x)' = Updates(x)
  BY DEF Updates
<1> QED
  BY <1>3, <1>4, <1>5, <1>6 DEF TypeOK

LEMMA TypeStep == TypeOK /\ [Next]_vars => TypeOK'
<1> SUFFICES ASSUME TypeOK, [Next]_vars PROVE TypeOK'
  OBVIOUS
<1> USE LoaderAssumption, DataAssumption, EmptyDocType, ViewType, MergeType
    DEF TypeOK, Proc, GoroutineLabels, CallerLabels, Snapshots, ChangeSet,
        sourceVars, mergeVars, snapVars, clientVars, counters
<1>1. ASSUME NEW s \in Source, NEW cs \in ChangeSet, SourceChange(s, cs) PROVE TypeOK'
  <2>1. content' \in [Source -> ChangeSet]
    BY <1>1 DEF SourceChange
  <2>2. /\ queue' \in [Source -> Seq(ChangeSet)]
        /\ \A r \in Source : Len(queue'[r]) <= QueueCap
    <3>1. CASE queue' = queue
      BY <3>1
    <3>2. CASE /\ Len(queue[s]) < QueueCap
               /\ queue' = [queue EXCEPT ![s] = Append(queue[s], cs)]
      <4>1. /\ Append(queue[s], cs) \in Seq(ChangeSet)
            /\ Len(Append(queue[s], cs)) = Len(queue[s]) + 1
            /\ Len(queue[s]) \in Nat
        OBVIOUS
      <4> QED
        BY <3>2, <4>1
    <3> QED
      BY <1>1, <3>1, <3>2 DEF SourceChange
  <2>3. changes' \in 0..MaxChanges /\ calls' \in 0..MaxCalls
    BY <1>1 DEF SourceChange, CountChange
  <2>4. unseen' \subseteq Source /\ pinned' \subseteq Source
    BY <1>1 DEF SourceChange
  <2>5. UNCHANGED <<subscribed, mergeVars, snapVars, clientVars, closed, pc, hand, target,
                    job, slot, missed>>
    BY <1>1 DEF SourceChange
  <2>6. \A w \in Watcher : Updates(w)' = Updates(w)
    BY DEF Updates
  <2>7. \A w \in Watcher : /\ held'[w] \in [Watches[w] -> Value \cup {None}]
                           /\ slot'[w] \subseteq Updates(w)'
                           /\ \A u1, u2 \in slot'[w] : u1 = u2
    BY <2>5, <2>6
  <2> QED
    BY <2>1, <2>2, <2>3, <2>4, <2>5, <2>7
<1>2. ASSUME NEW p \in Proc, Capture(p) PROVE TypeOK'
  BY <1>2 DEF Capture, Goto
<1>3. ASSUME NEW p \in Proc, NEW w \in Watcher, CheckWatcher(p, w) PROVE TypeOK'
  <2>1. job' = [job EXCEPT ![p] =
                  [ver |-> job[p].ver, doc |-> job[p].doc,
                   todo |-> job[p].todo \ {w},
                   now |-> IF Newer(job[p].ver, seen[w]) THEN {w} ELSE {}]]
    BY <1>3 DEF CheckWatcher, Advance
  <2>2. job' \in [Proc -> [ver : Int, doc : Doc, todo : SUBSET Watcher,
                           now : SUBSET Watcher]]
    BY <2>1
  <2>3. UNCHANGED <<sourceVars, mergeVars, snapVars, clientVars, closed, pc,
                    hand, target, slot, counters, missed, pinned>>
    BY <1>3 DEF CheckWatcher
  <2> QED
    BY <2>2, <2>3
<1>4. ASSUME NEW p \in Proc, NEW w \in Watcher, SendUpdate(p, w) PROVE TypeOK'
  <2> DEFINE u == [ver |-> job[p].ver, val |-> View(Watches[w], job[p].doc)]
  <2>1. u \in Updates(w)
    BY DEF Updates
  <2>2. job' = [job EXCEPT ![p] =
                  [ver |-> job[p].ver, doc |-> job[p].doc,
                   todo |-> job[p].todo, now |-> job[p].now \ {w}]]
    BY <1>4 DEF SendUpdate, Advance
  <2>3. job' \in [Proc -> [ver : Int, doc : Doc, todo : SUBSET Watcher,
                           now : SUBSET Watcher]]
    BY <2>2
  <2>4. missed' \in [Watcher -> Int]
    BY <1>4 DEF SendUpdate
  <2>5. /\ DOMAIN slot' = Watcher
        /\ \A v \in Watcher : /\ slot'[v] \subseteq Updates(v)
                              /\ \A u1, u2 \in slot'[v] : u1 = u2
    <3>1. CASE slot[w] = {} /\ slot' = [slot EXCEPT ![w] = {u}]
      BY <2>1, <3>1
    <3>2. CASE slot' = slot
      BY <3>2
    <3> QED
      BY <1>4, <3>1, <3>2 DEF SendUpdate, Room
  <2> QED
    BY <1>4, <2>3, <2>4, <2>5 DEF SendUpdate
<1>5. ASSUME NEW p \in Proc, UpdateDone(p) PROVE TypeOK'
  BY <1>5 DEF UpdateDone, Goto, NoJob
<1>6. ASSUME NEW s \in Source, BeginWatch(s) PROVE TypeOK'
  BY <1>6 DEF BeginWatch, Goto
<1>7. ASSUME NEW s \in Source, NextChange(s) PROVE TypeOK'
  BY <1>7 DEF NextChange, Goto
<1>8. ASSUME NEW s \in Source, NextError(s) PROVE TypeOK'
  BY <1>8 DEF NextError, Goto
<1>9. ASSUME NEW s \in Source, InstallChange(s) PROVE TypeOK'
  <2>1. Merge(sources, sets') \in Doc
    OBVIOUS
  <2>2. Install(Merge(sources, sets'), FALSE)
    BY <1>9 DEF InstallChange
  <2>3. /\ loaded' \in BOOLEAN /\ snap' \in Snapshots /\ clock' \in Int
        /\ history' \subseteq Snapshots /\ bySync' \in BOOLEAN
    BY <2>1, <2>2, InstallType
  <2> QED
    BY <1>9, <2>3 DEF InstallChange, Goto
<1>10. ASSUME NEW s \in Source, RejectChange(s) PROVE TypeOK'
  BY <1>10 DEF RejectChange, Goto
<1>11. ASSUME NEW s \in Source, Wake(s) PROVE TypeOK'
  BY <1>11 DEF Wake, Goto
<1>12. ASSUME NEW s \in Source, StopSourceWatcher(s) PROVE TypeOK'
  BY <1>12 DEF StopSourceWatcher
<1>13. ASSUME NEW c \in Caller, LoadBegin(c) PROVE TypeOK'
  BY <1>13 DEF LoadBegin, CountCall, Goto
<1>14. ASSUME NEW c \in Caller, NEW s \in Source, LoadRead(c, s) PROVE TypeOK'
  BY <1>14 DEF LoadRead, Goto
<1>15. ASSUME NEW c \in Caller, NEW s \in Source, LoadAppend(c, s) PROVE TypeOK'
  <2>1. /\ s \in Source /\ c \in Caller /\ s # c
        /\ pc' = [pc EXCEPT ![c] = "load", ![s] = "watch"]
    BY <1>15 DEF LoadAppend
  <2>2. /\ pc' \in [Proc -> GoroutineLabels \cup CallerLabels]
        /\ \A r \in Source : pc'[r] \in GoroutineLabels
        /\ \A d \in Caller : pc'[d] \in CallerLabels
    <3> DEFINE pc1 == [pc EXCEPT ![c] = "load"]
    <3>1. /\ pc1 \in [Proc -> GoroutineLabels \cup CallerLabels]
          /\ \A r \in Source : pc1[r] \in GoroutineLabels
          /\ \A d \in Caller : pc1[d] \in CallerLabels
      OBVIOUS
    <3>2. pc' = [pc1 EXCEPT ![s] = "watch"]
      BY <2>1
    <3> HIDE DEF pc1
    <3> QED
      BY <3>1, <3>2
  <2>3. sources' \in Seq(Source)
    BY <1>15 DEF LoadAppend
  <2>4. /\ sets' \in [Source -> ChangeSet] /\ hand' \in [Proc -> ChangeSet]
        /\ target' \in [Caller -> SUBSET Source]
    BY <1>15 DEF LoadAppend
  <2>5. UNCHANGED <<sourceVars, snapVars, clientVars, closed, job, slot,
                    counters, missed, pinned>>
    BY <1>15 DEF LoadAppend
  <2> QED
    BY <2>2, <2>3, <2>4, <2>5
<1>16. ASSUME NEW c \in Caller, Reload(c) PROVE TypeOK'
  <2>1. Merge(sources, sets) \in Doc
    OBVIOUS
  <2>2. /\ loaded' \in BOOLEAN /\ snap' \in Snapshots /\ clock' \in Int
        /\ history' \subseteq Snapshots /\ bySync' \in BOOLEAN
    BY <1>16, <2>1, InstallType DEF Reload
  <2>3. /\ pc' \in [Proc -> GoroutineLabels \cup CallerLabels]
        /\ \A s \in Source : pc'[s] \in GoroutineLabels
        /\ \A d \in Caller : pc'[d] \in CallerLabels
    <3>1. CASE pc' = [pc EXCEPT ![c] = "capture"]
      BY <3>1
    <3>2. CASE pc' = [pc EXCEPT ![c] = "idle"]
      BY <3>2
    <3> QED
      BY <1>16, <3>1, <3>2 DEF Reload, Goto
  <2> QED
    BY <1>16, <2>2, <2>3 DEF Reload
<1>17. ASSUME NEW c \in Caller, Sync(c) PROVE TypeOK'
  BY <1>17, SyncType
<1>18. ASSUME NEW c \in Caller, Close(c) PROVE TypeOK'
  BY <1>18 DEF Close
<1>19. ASSUME NEW w \in Watcher, WatchGet(w) PROVE TypeOK'
  BY <1>19, WatchGetType
<1>20. ASSUME NEW w \in Watcher, WatchRegister(w) PROVE TypeOK'
  BY <1>20 DEF WatchRegister
<1>21. ASSUME NEW w \in Watcher, NextUpdate(w) PROVE TypeOK'
  BY <1>21 DEF NextUpdate, Updates
<1>22. ASSUME NEW w \in Watcher, NextStale(w) PROVE TypeOK'
  BY <1>22 DEF NextStale
<1>23. ASSUME NEW w \in Watcher, StopWatcher(w) PROVE TypeOK'
  BY <1>23 DEF StopWatcher
<1>24. ASSUME NEW w \in Watcher, Deregister(w) PROVE TypeOK'
  BY <1>24 DEF Deregister
<1>25. CASE UNCHANGED vars
  BY <1>25 DEF vars
<1> QED
  BY <1>1, <1>2, <1>3, <1>4, <1>5, <1>6, <1>7, <1>8, <1>9, <1>10, <1>11, <1>12, <1>13, <1>14, <1>15, <1>16, <1>17, <1>18, <1>19, <1>20, <1>21, <1>22, <1>23, <1>24, <1>25
     DEF Next, Goroutine, API, Client, Update

(* Every variable keeps its type, a watcher's channel holds one update at   *)
(* most and a source watcher's QueueCap changes at most, whatever the clock *)
(* does and however many sources, callers and watchers there are.           *)
THEOREM TypeCorrect == Spec => []TypeOK
BY TypeInit, TypeStep, PTL DEF Spec

-----------------------------------------------------------------------------
(* A source being loaded has no goroutine yet, and one caller *)

LoadInv ==
    \A c \in Caller : \A s \in target[c] :
        /\ pc[s] = "off"
        /\ \A d \in Caller : s \in target[d] => d = c

LEMMA LoadStep ==
    ASSUME TypeOK, [Next]_vars, LoadInv
    PROVE  LoadInv'
<1> USE LoaderAssumption DEF TypeOK, LoadInv, Proc
<1>1. ASSUME target' = target,
             \A s \in Source : pc[s] = "off" => pc'[s] = "off"
      PROVE  LoadInv'
  BY <1>1
<1>2. ASSUME NEW p \in Proc, NEW label, pc[p] # "off", Goto(p, label)
      PROVE  \A s \in Source : pc[s] = "off" => pc'[s] = "off"
  BY <1>2 DEF Goto
<1>3. ASSUME NEW p \in Proc, Update(p) PROVE LoadInv'
  <2>1. target' = target
    BY <1>3 DEF Update, Capture, CheckWatcher, SendUpdate, UpdateDone
  <2>2. pc' = pc \/ (pc[p] # "off" /\ \E label : Goto(p, label))
    BY <1>3 DEF Update, Capture, CheckWatcher, SendUpdate, UpdateDone
  <2> QED
    BY <1>1, <1>2, <2>1, <2>2
<1>4. ASSUME NEW s \in Source,
             \/ BeginWatch(s) \/ NextChange(s) \/ NextError(s)
             \/ InstallChange(s) \/ RejectChange(s) \/ Wake(s)
      PROVE  LoadInv'
  <2>1. target' = target /\ pc[s] # "off" /\ \E label : Goto(s, label)
    BY <1>4 DEF BeginWatch, NextChange, NextError, InstallChange,
                RejectChange, Wake
  <2> QED
    BY <1>1, <1>2, <2>1
<1>5. ASSUME NEW c \in Caller, LoadBegin(c) \/ Reload(c) \/ Sync(c)
      PROVE  LoadInv'
  <2>1. target' = target /\ pc[c] # "off" /\ \E label : Goto(c, label)
    BY <1>5 DEF LoadBegin, Reload, Sync
  <2> QED
    BY <1>1, <1>2, <2>1
<1>6. ASSUME NEW c \in Caller, NEW s \in Source, LoadRead(c, s)
      PROVE  LoadInv'
  BY <1>6 DEF LoadRead, Goto
<1>7. ASSUME NEW c \in Caller, NEW s \in Source, LoadAppend(c, s)
      PROVE  LoadInv'
  <2>1. target' = [target EXCEPT ![c] = {}]
    BY <1>7 DEF LoadAppend
  <2>2. \A r \in Source : r # s => pc'[r] = pc[r]
    BY <1>7 DEF LoadAppend
  <2>3. \A d \in Caller : s \in target[d] => d = c
    BY <1>7 DEF LoadAppend
  <2> QED
    BY <2>1, <2>2, <2>3
<1>8. ASSUME pc' = pc /\ target' = target PROVE LoadInv'
  BY <1>8
<1>9. ASSUME \/ UNCHANGED vars
             \/ \E s \in Source : StopSourceWatcher(s)
             \/ \E s \in Source, cs \in ChangeSet : SourceChange(s, cs)
             \/ \E c \in Caller : Close(c)
             \/ \E w \in Watcher : Client(w)
      PROVE  pc' = pc /\ target' = target
  BY <1>9 DEF vars, StopSourceWatcher, SourceChange, Close, Client, WatchGet,
              WatchRegister, NextUpdate, NextStale, StopWatcher, Deregister
<1> QED
  BY <1>3, <1>4, <1>5, <1>6, <1>7, <1>8, <1>9 DEF Next, Goroutine, API

-----------------------------------------------------------------------------
(* No watcher falls behind silently *)

\* What NoSilentStaleness says of one watcher.
Covered(w) == seen[w] >= snap.ver \/ missed[w] >= snap.ver \/ Coming(w)

\* A step that installs a snapshot leaves its process about to capture it.
LEMMA CaptureCovers ==
    ASSUME NEW p \in Proc, pc'[p] = "capture"
    PROVE  \A w \in Watcher : Covered(w)'
BY DEF Covered, Coming

\* A step that touches no snapshot, watcher, job or channel, and takes no
\* process away from "capture" or "send", changes nothing for a watcher.
LEMMA IdleCovers ==
    ASSUME NEW w, Covered(w),
           snap' = snap, seen' = seen, missed' = missed, slot' = slot,
           job' = job,
           \A p \in Proc : pc[p] \in {"capture", "send"} => pc'[p] = pc[p]
    PROVE  Covered(w)'
BY DEF Covered, Coming

LEMMA StalenessStep ==
    ASSUME TypeOK, LoadInv, [Next]_vars, NoSilentStaleness
    PROVE  NoSilentStaleness'
<1> USE DEF sourceVars, mergeVars, snapVars, clientVars, counters
<1>a. \A w \in list : stage[w] = "live" => Covered(w)
  BY DEF NoSilentStaleness, Covered
<1> SUFFICES ASSUME NEW w \in list', stage'[w] = "live" PROVE Covered(w)'
  BY DEF NoSilentStaleness, Covered
<1> USE DEF TypeOK
<1>b. w \in Watcher
  BY TypeStep
<1>1. ASSUME NEW s \in Source, NEW cs \in ChangeSet, SourceChange(s, cs)
      PROVE  Covered(w)'
  BY <1>a, <1>b, <1>1, IdleCovers DEF SourceChange
<1>2. ASSUME NEW p \in Proc, Capture(p) PROVE Covered(w)'
  <2>1. w \in list /\ snap' = snap
    BY <1>2 DEF Capture
  <2>2. /\ pc'[p] = "send" /\ job'[p].ver = snap.ver
        /\ w \in job'[p].todo
    BY <1>2, <2>1 DEF Capture, Goto
  <2>3. snap.ver \in Int
    BY DEF Snapshots
  <2> QED
    BY <2>1, <2>2, <2>3 DEF Covered, Coming
<1>3. ASSUME NEW p \in Proc, NEW v \in Watcher, CheckWatcher(p, v)
      PROVE  Covered(w)'
  <2>1. /\ Covered(w)
        /\ UNCHANGED <<snap, seen, missed, slot, pc>>
        /\ pc[p] = "send" /\ job[p].now = {} /\ v \in job[p].todo
    BY <1>a, <1>3 DEF CheckWatcher
  <2>2. /\ job' = [job EXCEPT ![p] = job'[p]]
        /\ job'[p].ver = job[p].ver
        /\ job'[p].todo = job[p].todo \ {v}
        /\ Newer(job[p].ver, seen[v]) => job'[p].now = {v}
    BY <1>3 DEF CheckWatcher, Advance
  <2>3. /\ job[p].ver \in Int /\ seen[w] \in Int /\ snap.ver \in Int
    BY <1>b DEF Snapshots
  <2>4. CASE w # v \/ Newer(job[p].ver, seen[w])
    <3>1. w \in job[p].todo \cup job[p].now =>
            w \in job'[p].todo \cup job'[p].now
      BY <2>1, <2>2, <2>4
    <3>2. \A q \in Proc : q # p => job'[q] = job[q]
      BY <2>2
    <3> QED
      BY <2>1, <2>2, <3>1, <3>2 DEF Covered, Coming
  <2>5. CASE w = v /\ ~Newer(job[p].ver, seen[w])
    <3>1. CASE job[p].ver >= snap.ver
      BY <2>1, <2>3, <2>5, <3>1 DEF Covered, Newer
    <3>2. CASE ~(job[p].ver >= snap.ver)
      <4>1. \A q \in Proc : q # p => job'[q] = job[q]
        BY <2>2
      <4> QED
        BY <2>1, <3>2, <4>1 DEF Covered, Coming
    <3> QED
      BY <3>1, <3>2
  <2> QED
    BY <2>4, <2>5
<1>4. ASSUME NEW p \in Proc, NEW v \in Watcher, SendUpdate(p, v)
      PROVE  Covered(w)'
  <2>1. /\ Covered(w)
        /\ UNCHANGED <<snap, seen, pc>>
        /\ pc[p] = "send" /\ v \in job[p].now
    BY <1>a, <1>4 DEF SendUpdate
  <2>2. /\ job'[p].ver = job[p].ver /\ job'[p].todo = job[p].todo
        /\ job'[p].now = job[p].now \ {v}
        /\ \A q \in Proc : q # p => job'[q] = job[q]
    BY <1>4 DEF SendUpdate, Advance
  <2>3. /\ job[p].ver \in Int /\ missed[w] \in Int /\ snap.ver \in Int
    BY <1>b DEF Snapshots
  <2>4. \A r \in Watcher : /\ missed[r] \in Int /\ missed'[r] \in Int
                          /\ missed'[r] >= missed[r]
    <3>1. CASE missed' = missed
      BY <3>1
    <3>2. CASE missed' = [missed EXCEPT ![v] = IF job[p].ver > missed[v]
                                               THEN job[p].ver ELSE missed[v]]
      BY <2>3, <3>2
    <3> QED
      BY <1>4, <3>1, <3>2 DEF SendUpdate
  <2>5. /\ slot[w] \subseteq slot'[w]
        /\ \/ \E u \in slot'[v] : u.ver = job[p].ver
           \/ missed'[v] >= job[p].ver
    <3>1. CASE Room(v)
      <4> DEFINE u == [ver |-> job[p].ver, val |-> View(Watches[v], job[p].doc)]
      <4>1. slot' = [slot EXCEPT ![v] = slot[v] \cup {u}]
        BY <1>4, <3>1 DEF SendUpdate
      <4>2. u \in slot'[v] /\ u.ver = job[p].ver /\ slot[w] \subseteq slot'[w]
        BY <1>b, <4>1
      <4> QED
        BY <4>2
    <3>2. CASE ~Room(v)
      <4>1. /\ slot' = slot
            /\ missed' = [missed EXCEPT ![v] = IF job[p].ver > missed[v]
                                               THEN job[p].ver ELSE missed[v]]
        BY <1>4, <3>2 DEF SendUpdate
      <4> QED
        BY <2>3, <2>4, <4>1
    <3> QED
      BY <3>1, <3>2
  <2>6. CASE job[p].ver >= snap.ver /\ w = v
    <3>1. CASE \E u \in slot'[v] : u.ver = job[p].ver
      BY <2>1, <2>6, <3>1 DEF Covered, Coming
    <3>2. CASE missed'[v] >= job[p].ver
      <4>1. missed'[w] >= snap.ver
        BY <2>3, <2>4, <2>6, <3>2
      <4> QED
        BY <2>1, <4>1 DEF Covered
    <3> QED
      BY <2>5, <3>1, <3>2
  <2>7. CASE ~(job[p].ver >= snap.ver) \/ w # v
    <3>1. CASE seen[w] >= snap.ver \/ missed[w] >= snap.ver
      <4>1. missed[w] >= snap.ver => missed'[w] >= snap.ver
        BY <1>b, <2>3, <2>4
      <4> QED
        BY <2>1, <3>1, <4>1 DEF Covered
    <3>2. CASE \E u \in slot[w] : u.ver >= snap.ver
      BY <2>1, <2>5, <3>2 DEF Covered, Coming
    <3>3. CASE \E q \in Proc :
                 \/ pc[q] = "capture"
                 \/ /\ pc[q] = "send" /\ job[q].ver >= snap.ver
                    /\ w \in job[q].todo \cup job[q].now
      <4>1. PICK q \in Proc :
                 \/ pc[q] = "capture"
                 \/ /\ pc[q] = "send" /\ job[q].ver >= snap.ver
                    /\ w \in job[q].todo \cup job[q].now
        BY <3>3
      <4>2. CASE q # p \/ pc[q] = "capture"
        BY <2>1, <2>2, <4>1, <4>2 DEF Covered, Coming
      <4>3. CASE q = p /\ pc[q] # "capture"
        <5>1. w # v /\ w \in job[p].todo \cup job[p].now
          BY <2>7, <4>1, <4>3
        <5>2. w \in job'[p].todo \cup job'[p].now
          BY <2>2, <5>1
        <5> QED
          BY <2>1, <2>2, <4>1, <4>3, <5>2 DEF Covered, Coming
      <4> QED
        BY <4>2, <4>3
    <3> QED
      BY <2>1, <3>1, <3>2, <3>3 DEF Covered, Coming
  <2> QED
    BY <2>6, <2>7
<1>5. ASSUME NEW p \in Proc, UpdateDone(p) PROVE Covered(w)'
  <2>1. /\ Covered(w)
        /\ UNCHANGED <<snap, seen, missed, slot>>
        /\ pc[p] = "send" /\ job[p].now = {} /\ job[p].todo = {}
    BY <1>a, <1>5 DEF UpdateDone
  <2>2. \A q \in Proc : q # p => job'[q] = job[q] /\ pc'[q] = pc[q]
    BY <1>5 DEF UpdateDone, Goto
  <2> QED
    BY <2>1, <2>2 DEF Covered, Coming
<1>6. ASSUME NEW s \in Source,
             \/ BeginWatch(s) \/ NextChange(s) \/ NextError(s)
             \/ RejectChange(s) \/ Wake(s) \/ StopSourceWatcher(s)
      PROVE  Covered(w)'
  <2>1. /\ snap' = snap /\ seen' = seen /\ missed' = missed /\ slot' = slot
        /\ job' = job /\ list' = list /\ stage' = stage
    BY <1>6 DEF BeginWatch, NextChange, NextError, RejectChange, Wake,
                StopSourceWatcher
  <2>2. \A p \in Proc : pc[p] \in {"capture", "send"} => pc'[p] = pc[p]
    BY <1>6 DEF BeginWatch, NextChange, NextError, RejectChange, Wake,
                StopSourceWatcher, Goto
  <2> QED
    BY <1>a, <2>1, <2>2, IdleCovers
<1>7. ASSUME NEW s \in Source, InstallChange(s) PROVE Covered(w)'
  <2>1. s \in Proc /\ pc'[s] = "capture"
    BY <1>7 DEF InstallChange, Goto, Proc
  <2> QED
    BY <1>b, <2>1, CaptureCovers
<1>8. ASSUME NEW c \in Caller, LoadBegin(c) \/ Close(c) PROVE Covered(w)'
  <2>1. /\ snap' = snap /\ seen' = seen /\ missed' = missed /\ slot' = slot
        /\ job' = job /\ list' = list /\ stage' = stage
    BY <1>8 DEF LoadBegin, Close
  <2>2. \A p \in Proc : pc[p] \in {"capture", "send"} => pc'[p] = pc[p]
    BY <1>8 DEF LoadBegin, Close, Goto
  <2> QED
    BY <1>a, <2>1, <2>2, IdleCovers
<1>9. ASSUME NEW c \in Caller, NEW s \in Source,
             LoadRead(c, s) \/ LoadAppend(c, s)
      PROVE  Covered(w)'
  <2>1. /\ snap' = snap /\ seen' = seen /\ missed' = missed /\ slot' = slot
        /\ job' = job /\ list' = list /\ stage' = stage
    BY <1>9 DEF LoadRead, LoadAppend
  <2>2. \A p \in Proc : pc[p] \in {"capture", "send"} => pc'[p] = pc[p]
    <3>1. CASE LoadRead(c, s)
      BY <3>1 DEF LoadRead, Goto
    <3>2. CASE LoadAppend(c, s)
      <4>1. pc[s] = "off" /\ s \in Proc /\ c \in Proc /\ pc[c] = "append"
        BY <3>2 DEF LoadAppend, LoadInv, Proc
      <4>2. pc' = [pc EXCEPT ![c] = "load", ![s] = "watch"]
        BY <3>2 DEF LoadAppend
      <4> QED
        BY <4>1, <4>2
    <3> QED
      BY <1>9, <3>1, <3>2
  <2> QED
    BY <1>a, <2>1, <2>2, IdleCovers
<1>10. ASSUME NEW c \in Caller, Reload(c) PROVE Covered(w)'
  <2>1. c \in Proc
    BY DEF Proc
  <2>2. CASE pc' = [pc EXCEPT ![c] = "capture"]
    BY <1>b, <2>1, <2>2, CaptureCovers
  <2>3. CASE pc' = [pc EXCEPT ![c] = "idle"] /\ UNCHANGED snapVars
    <3>1. /\ snap' = snap /\ seen' = seen /\ missed' = missed
          /\ slot' = slot /\ job' = job /\ list' = list /\ stage' = stage
      BY <1>10, <2>3 DEF Reload
    <3>2. \A p \in Proc : pc[p] \in {"capture", "send"} => pc'[p] = pc[p]
      BY <1>10, <2>3 DEF Reload
    <3> QED
      BY <1>a, <3>1, <3>2, IdleCovers
  <2> QED
    BY <1>10, <2>2, <2>3 DEF Reload, Goto
<1>11. ASSUME NEW c \in Caller, Sync(c) PROVE Covered(w)'
  <2>1. c \in Proc /\ pc'[c] = "capture"
    BY <1>11 DEF Sync, Goto, Proc
  <2> QED
    BY <1>b, <2>1, CaptureCovers
<1>12. ASSUME NEW v \in Watcher,
              WatchGet(v) \/ StopWatcher(v) \/ Deregister(v)
       PROVE  Covered(w)'
  <2>1. /\ snap' = snap /\ seen' = seen /\ missed' = missed /\ slot' = slot
        /\ job' = job /\ pc' = pc
    BY <1>12 DEF WatchGet, StopWatcher, Deregister
  <2>2. w \in list /\ stage[w] = "live"
    BY <1>b, <1>12 DEF WatchGet, StopWatcher, Deregister
  <2> QED
    BY <1>a, <2>1, <2>2, IdleCovers
<1>13. ASSUME NEW v \in Watcher, WatchRegister(v) PROVE Covered(w)'
  <2>1. /\ snap' = snap /\ missed' = missed /\ slot' = slot
        /\ job' = job /\ pc' = pc
        /\ seen' = [seen EXCEPT ![v] = snap.ver]
    BY <1>13 DEF WatchRegister
  <2>2. CASE w = v
    BY <1>b, <2>1, <2>2 DEF Covered, Snapshots
  <2>3. CASE w # v
    <3>1. w \in list /\ stage[w] = "live" /\ seen'[w] = seen[w]
      BY <1>b, <1>13, <2>3 DEF WatchRegister
    <3> QED
      BY <1>a, <2>1, <3>1 DEF Covered, Coming
  <2> QED
    BY <2>2, <2>3
<1>14. ASSUME NEW v \in Watcher, NextUpdate(v) \/ NextStale(v)
       PROVE  Covered(w)'
  <2>1. /\ snap' = snap /\ missed' = missed /\ job' = job /\ pc' = pc
        /\ Covered(w)
    BY <1>a, <1>14 DEF NextUpdate, NextStale
  <2>2. CASE w # v
    BY <1>b, <1>14, <2>1, <2>2 DEF Covered, Coming, NextUpdate, NextStale
  <2>3. CASE w = v
    <3>1. PICK u \in slot[w] : IF Newer(u.ver, seen[w]) THEN seen'[w] = u.ver
                                                       ELSE seen'[w] = seen[w]
      BY <1>b, <1>14, <2>3 DEF NextUpdate, NextStale
    <3>2. slot[w] = {u} /\ u.ver \in Int /\ seen[w] \in Int /\ snap.ver \in Int
      BY <1>b DEF Updates, Snapshots
    <3>3. seen'[w] >= u.ver /\ seen'[w] >= seen[w] /\ seen'[w] \in Int
      BY <3>1, <3>2 DEF Newer
    <3> QED
      BY <2>1, <3>2, <3>3 DEF Covered, Coming
  <2> QED
    BY <2>2, <2>3
<1>15. CASE UNCHANGED vars
  <2>1. /\ snap' = snap /\ seen' = seen /\ missed' = missed /\ slot' = slot
        /\ job' = job /\ list' = list /\ stage' = stage /\ pc' = pc
    BY <1>15 DEF vars
  <2> QED
    BY <1>a, <2>1, IdleCovers
<1> QED
  BY <1>1, <1>2, <1>3, <1>4, <1>5, <1>6, <1>7, <1>8, <1>9, <1>10, <1>11,
     <1>12, <1>13, <1>14, <1>15
     DEF Next, Goroutine, API, Client, Update, Proc

(* A live watcher has reached the current version, or an update taking it   *)
(* there is on its way, or that update was dropped at its full channel:     *)
(* for any clock, any number of installers, sources and watchers.           *)
THEOREM StalenessIsNeverSilent == Spec => []NoSilentStaleness
<1>1. Init => LoadInv /\ NoSilentStaleness
  BY DEF Init, LoadInv, NoSilentStaleness
<1>2. TypeOK /\ LoadInv /\ NoSilentStaleness /\ [Next]_vars
        => LoadInv' /\ NoSilentStaleness'
  BY LoadStep, StalenessStep
<1> QED
  BY <1>1, <1>2, TypeCorrect, PTL DEF Spec

-----------------------------------------------------------------------------
(* The loader implements the versioned feed, while its clock advances *)

ClockAdvances == \A d \in ClockSteps : d > 0

\* Everything in flight was installed: captured snapshots, updates in channels
\* and values read by a Watch that has not registered yet.
Installed(ver, doc) == \E h \in history : h.ver = ver /\ h.doc = doc

InstalledView(w, val) == \E h \in history : val = View(Watches[w], h.doc)

InstalledUpdate(w, u) ==
    \E h \in history : h.ver = u.ver /\ u.val = View(Watches[w], h.doc)

FeedInv ==
    /\ snap \in history /\ snap.ver = clock
    /\ \A p \in Proc : pc[p] = "send" => Installed(job[p].ver, job[p].doc)
    /\ \A w \in Watcher : \A u \in slot[w] : InstalledUpdate(w, u)
    /\ \A w \in Watcher : stage[w] = "opening" => InstalledView(w, held[w])
    /\ \A w \in Watcher : stage[w] \in {"new", "opening"} => seen[w] = 0

\* The feed's documents and views are the loader's.
LEMMA FeedData ==
    /\ Feed!Doc = Doc /\ Feed!EmptyDoc = EmptyDoc
    /\ \A ps, doc : Feed!View(ps, doc) = View(ps, doc)
BY DEF Feed!Doc, Doc, Feed!EmptyDoc, EmptyDoc, Feed!View, View

\* The abstract step of an installation.
LEMMA InstallPublishes ==
    ASSUME TypeOK, ClockAdvances, FeedInv,
           NEW doc \in Doc, NEW b \in BOOLEAN, Install(doc, b),
           UNCHANGED <<seen, stage, held>>
    PROVE  Feed!Publish /\ snap'.ver = clock' /\ snap' \in history'
                        /\ history \subseteq history'
<1>1. clock' \in Int /\ clock' > clock
  BY LoaderAssumption DEF Install, TypeOK, ClockAdvances
<1>2. snap'.doc \in Doc /\ snap'.ver = clock' /\ snap'.ver > snap.ver
  BY <1>1 DEF Install, FeedInv
<1>3. history' = history \cup {snap'}
  BY DEF Install
<1>4. OpenWatchers' = OpenWatchers /\ ShownView' = ShownView
  BY DEF OpenWatchers, ShownView
<1>5. Feed!Publish
  BY <1>2, <1>3, <1>4, FeedData DEF Feed!Publish
<1> QED
  BY <1>2, <1>3, <1>5

\* A step that leaves the snapshot and the open watchers alone is a stutter.
LEMMA FeedStutter ==
    ASSUME UNCHANGED <<snap, history, seen, stage, held>>
    PROVE  UNCHANGED Feed!feedVars
BY DEF Feed!feedVars, OpenWatchers, ShownView

\* FeedInv survives when history grows and nothing new is in flight.
LEMMA FeedInvKept ==
    ASSUME FeedInv, history \subseteq history',
           snap' \in history', snap'.ver = clock',
           UNCHANGED <<job, slot, seen, stage, held>>,
           \A p \in Proc : pc'[p] = "send" => pc[p] = "send"
    PROVE  FeedInv'
<1>1. \A p \in Proc : pc'[p] = "send" => Installed(job[p].ver, job[p].doc)'
  BY DEF FeedInv, Installed
<1>2. \A w \in Watcher : \A u \in slot'[w] : InstalledUpdate(w, u)'
  BY DEF FeedInv, InstalledUpdate
<1>3. \A w \in Watcher : stage'[w] = "opening" => InstalledView(w, held[w])'
  BY DEF FeedInv, InstalledView
<1> QED
  BY <1>1, <1>2, <1>3 DEF FeedInv

LEMMA FeedInit == Init => FeedInv /\ Feed!Init
<1> SUFFICES ASSUME Init PROVE FeedInv /\ Feed!Init
  OBVIOUS
<1> USE DEF Init
<1>1. FeedInv
  BY DEF FeedInv, Unloaded
<1>2. OpenWatchers = {}
  BY DEF OpenWatchers
<1>3. ShownView = [w \in Watcher |-> View(Watches[w], EmptyDoc)]
  BY <1>2 DEF ShownView
<1>4. Feed!Init
  BY <1>2, <1>3, FeedData DEF Feed!Init, Feed!Unloaded, Feed!ShownBy, Unloaded
<1> QED
  BY <1>1, <1>4

\* Every step of the loader is a step of the feed or a stutter.
LEMMA FeedStep ==
    ASSUME ClockAdvances, TypeOK, FeedInv, [Next]_vars
    PROVE  FeedInv' /\ [Feed!Next]_(Feed!feedVars)
<1> USE DEF sourceVars, mergeVars, snapVars, clientVars, counters
<1> DEFINE Goal == FeedInv' /\ [Feed!Next]_(Feed!feedVars)
\* Steps that install nothing and move no update.
<1>a. ASSUME UNCHANGED <<snap, history, clock, job, slot, seen, stage, held>>,
             \A p \in Proc : pc'[p] = "send" => pc[p] = "send"
      PROVE  Goal
  <2>1. snap \in history /\ snap.ver = clock
    BY DEF FeedInv
  <2> QED
    BY <1>a, <2>1, FeedStutter, FeedInvKept
\* Steps that install.
<1>b. ASSUME NEW doc \in Doc, NEW b \in BOOLEAN, Install(doc, b),
             UNCHANGED <<job, slot, seen, stage, held>>,
             \A p \in Proc : pc'[p] = "send" => pc[p] = "send"
      PROVE  Goal
  <2>1. Feed!Publish /\ snap'.ver = clock' /\ snap' \in history'
        /\ history \subseteq history'
    BY <1>b, InstallPublishes
  <2> QED
    BY <1>b, <2>1, FeedInvKept DEF Feed!Next
<1>c. ASSUME NEW p \in Proc, NEW label, label # "send", Goto(p, label)
      PROVE  \A q \in Proc : pc'[q] = "send" => pc[q] = "send"
  BY <1>c DEF Goto, TypeOK
<1>1. ASSUME NEW p \in Proc, Capture(p) PROVE Goal
  <2>1. /\ job' = [job EXCEPT ![p] = [ver |-> snap.ver, doc |-> snap.doc,
                                      todo |-> list, now |-> {}]]
        /\ pc' = [pc EXCEPT ![p] = "send"]
        /\ UNCHANGED <<snap, history, clock, slot, seen, stage, held>>
    BY <1>1 DEF Capture, Goto
  <2>2. Installed(snap.ver, snap.doc)
    BY DEF FeedInv, Installed
  <2>3. \A q \in Proc : pc'[q] = "send" => Installed(job[q].ver, job[q].doc)'
    BY <2>1, <2>2 DEF FeedInv, Installed, TypeOK
  <2>4. FeedInv'
    BY <2>1, <2>3 DEF FeedInv, InstalledUpdate, InstalledView
  <2> QED
    BY <2>1, <2>4, FeedStutter
<1>2. ASSUME NEW p \in Proc, NEW w \in Watcher, CheckWatcher(p, w) PROVE Goal
  <2>1. /\ \A q \in Proc : job'[q].ver = job[q].ver /\ job'[q].doc = job[q].doc
        /\ UNCHANGED <<pc, snap, history, clock, slot, seen, stage, held>>
    BY <1>2 DEF CheckWatcher, Advance, TypeOK
  <2>2. \A q \in Proc : pc'[q] = "send" => Installed(job[q].ver, job[q].doc)'
    BY <2>1 DEF FeedInv, Installed
  <2>3. FeedInv'
    BY <2>1, <2>2 DEF FeedInv, InstalledUpdate, InstalledView
  <2> QED
    BY <2>1, <2>3, FeedStutter
<1>3. ASSUME NEW p \in Proc, NEW w \in Watcher, SendUpdate(p, w) PROVE Goal
  <2>1. /\ \A q \in Proc : job'[q].ver = job[q].ver /\ job'[q].doc = job[q].doc
        /\ UNCHANGED <<pc, snap, history, clock, seen, stage, held>>
        /\ pc[p] = "send"
    BY <1>3 DEF SendUpdate, Advance, TypeOK
  <2>2. \A q \in Proc : pc'[q] = "send" => Installed(job[q].ver, job[q].doc)'
    BY <2>1 DEF FeedInv, Installed
  <2> DEFINE u == [ver |-> job[p].ver, val |-> View(Watches[w], job[p].doc)]
  <2>3. InstalledUpdate(w, u)
    BY <2>1 DEF FeedInv, Installed, InstalledUpdate
  <2>4. slot' = slot \/ slot' = [slot EXCEPT ![w] = slot[w] \cup {u}]
    BY <1>3 DEF SendUpdate
  <2>5. \A v \in Watcher : \A n \in slot'[v] : InstalledUpdate(v, n)
    <3>1. \A v \in Watcher : slot'[v] = slot[v] \/ (v = w /\ slot'[v] = slot[v] \cup {u})
      BY <2>4 DEF TypeOK
    <3> HIDE DEF u
    <3> QED
      BY <2>3, <3>1 DEF FeedInv
  <2>6. FeedInv'
    BY <2>1, <2>2, <2>5 DEF FeedInv, InstalledUpdate, InstalledView
  <2> QED
    BY <2>1, <2>6, FeedStutter
<1>4. ASSUME NEW p \in Proc, UpdateDone(p) PROVE Goal
  <2>1. /\ \A q \in Proc : pc'[q] = "send" =>
             pc[q] = "send" /\ job'[q] = job[q]
        /\ UNCHANGED <<snap, history, clock, slot, seen, stage, held>>
    BY <1>4 DEF UpdateDone, Goto, TypeOK
  <2>2. \A q \in Proc : pc'[q] = "send" => Installed(job[q].ver, job[q].doc)'
    BY <2>1 DEF FeedInv, Installed
  <2>3. FeedInv'
    BY <2>1, <2>2 DEF FeedInv, InstalledUpdate, InstalledView
  <2> QED
    BY <2>1, <2>3, FeedStutter
<1>5. ASSUME NEW s \in Source,
             \/ BeginWatch(s) \/ NextChange(s) \/ NextError(s)
             \/ RejectChange(s) \/ Wake(s)
      PROVE  Goal
  <2>1. /\ UNCHANGED <<snap, history, clock, job, slot, seen, stage, held>>
        /\ s \in Proc /\ \E label : label # "send" /\ Goto(s, label)
    BY <1>5 DEF BeginWatch, NextChange, NextError, RejectChange, Wake, Proc
  <2> QED
    BY <1>a, <1>c, <2>1
<1>6. ASSUME NEW s \in Source, InstallChange(s) PROVE Goal
  <2>1. /\ UNCHANGED <<job, slot, seen, stage, held>>
        /\ s \in Proc /\ Goto(s, "capture")
        /\ Install(Merge(sources, sets'), FALSE)
    BY <1>6 DEF InstallChange, Proc
  <2>2. Merge(sources, sets') \in Doc
    BY MergeType
  <2> QED
    BY <1>b, <1>c, <2>1, <2>2
<1>7. ASSUME NEW c \in Caller, LoadBegin(c) PROVE Goal
  <2>1. /\ UNCHANGED <<snap, history, clock, job, slot, seen, stage, held>>
        /\ c \in Proc /\ Goto(c, "load")
    BY <1>7 DEF LoadBegin, Proc
  <2> QED
    BY <1>a, <1>c, <2>1
<1>8. ASSUME NEW c \in Caller, NEW s \in Source, LoadRead(c, s) PROVE Goal
  <2>1. /\ UNCHANGED <<snap, history, clock, job, slot, seen, stage, held>>
        /\ c \in Proc /\ Goto(c, "append")
    BY <1>8 DEF LoadRead, Proc
  <2> QED
    BY <1>a, <1>c, <2>1
<1>9. ASSUME NEW c \in Caller, NEW s \in Source, LoadAppend(c, s) PROVE Goal
  <2>1. /\ UNCHANGED <<snap, history, clock, job, slot, seen, stage, held>>
        /\ pc' = [pc EXCEPT ![c] = "load", ![s] = "watch"]
    BY <1>9 DEF LoadAppend
  <2>2. \A p \in Proc : pc'[p] = "send" => pc[p] = "send"
    BY <2>1 DEF TypeOK
  <2> QED
    BY <1>a, <2>1, <2>2
<1>10. ASSUME NEW c \in Caller, Reload(c) PROVE Goal
  <2>1. UNCHANGED <<job, slot, seen, stage, held>> /\ c \in Proc
    BY <1>10 DEF Reload, Proc
  <2>2. CASE Install(Merge(sources, sets), FALSE) /\ Goto(c, "capture")
    <3>1. Merge(sources, sets) \in Doc
      BY MergeType
    <3> QED
      BY <1>b, <1>c, <2>1, <2>2, <3>1
  <2>3. CASE Goto(c, "idle") /\ UNCHANGED snapVars
    BY <1>a, <1>c, <2>1, <2>3
  <2> QED
    BY <1>10, <2>2, <2>3 DEF Reload
<1>11. ASSUME NEW c \in Caller, Sync(c) PROVE Goal
  <2>1. UNCHANGED <<job, slot, seen, stage, held>> /\ c \in Proc
        /\ Goto(c, "capture")
    BY <1>11 DEF Sync, Proc
  <2>2. PICK cs : Install(Merge(sources, cs), TRUE)
    BY <1>11 DEF Sync
  <2>3. Merge(sources, cs) \in Doc
    BY MergeType
  <2> QED
    BY <1>b, <1>c, <2>1, <2>2, <2>3
<1>12. ASSUME \/ UNCHANGED vars
              \/ \E s \in Source : StopSourceWatcher(s)
              \/ \E s \in Source, cs \in ChangeSet : SourceChange(s, cs)
              \/ \E c \in Caller : Close(c)
       PROVE  Goal
  <2>1. /\ UNCHANGED <<snap, history, clock, job, slot, seen, stage, held>>
        /\ pc' = pc
    BY <1>12 DEF vars, StopSourceWatcher, SourceChange, Close
  <2> QED
    BY <1>a, <2>1
<1>13. ASSUME NEW w \in Watcher, WatchGet(w) PROVE Goal
  <2>1. /\ UNCHANGED <<snap, history, clock, job, slot, seen, pc>>
        /\ stage[w] = "new" /\ stage' = [stage EXCEPT ![w] = "opening"]
        /\ held' = [held EXCEPT ![w] = View(Watches[w], snap.doc)]
    BY <1>13 DEF WatchGet
  <2>2. InstalledView(w, View(Watches[w], snap.doc))
    BY DEF FeedInv, InstalledView
  <2>3. \A v \in Watcher : stage'[v] = "opening" => InstalledView(v, held[v])'
    BY <2>1, <2>2 DEF FeedInv, InstalledView, TypeOK
  <2>4. \A v \in Watcher : stage'[v] \in {"new", "opening"} => seen'[v] = 0
    BY <2>1 DEF FeedInv, TypeOK
  <2>5. FeedInv'
    BY <2>1, <2>3, <2>4 DEF FeedInv, InstalledUpdate, Installed
  <2>6. OpenWatchers' = OpenWatchers
    BY <2>1 DEF OpenWatchers, TypeOK
  <2>7. ShownView' = ShownView
    BY <2>1, <2>6 DEF ShownView, OpenWatchers, TypeOK
  <2> QED
    BY <2>1, <2>5, <2>6, <2>7 DEF Feed!feedVars
<1>14. ASSUME NEW w \in Watcher, WatchRegister(w) PROVE Goal
  <2>1. /\ UNCHANGED <<snap, history, clock, job, slot, held, pc>>
        /\ stage[w] = "opening" /\ stage' = [stage EXCEPT ![w] = "live"]
        /\ seen' = [seen EXCEPT ![w] = snap.ver]
    BY <1>14 DEF WatchRegister
  <2>2. FeedInv'
    BY <2>1 DEF FeedInv, InstalledUpdate, Installed, InstalledView, TypeOK
  <2>3. w \notin OpenWatchers /\ OpenWatchers' = OpenWatchers \cup {w}
    BY <2>1 DEF OpenWatchers, TypeOK
  <2>4. ShownView' = [ShownView EXCEPT ![w] = held[w]]
    BY <2>1, <2>3 DEF ShownView
  <2>5. PICK h \in history : held[w] = View(Watches[w], h.doc)
    BY <2>1 DEF FeedInv, InstalledView
  <2>6. Feed!Open(w)
    BY <2>1, <2>3, <2>4, <2>5, FeedData DEF Feed!Open, Feed!ShownBy
  <2> QED
    BY <2>2, <2>6 DEF Feed!Next
<1>15. ASSUME NEW w \in Watcher, NextUpdate(w) PROVE Goal
  <2>1. PICK u \in slot[w] :
          /\ Newer(u.ver, seen[w])
          /\ seen' = [seen EXCEPT ![w] = u.ver]
          /\ held' = [held EXCEPT ![w] = u.val]
    BY <1>15 DEF NextUpdate
  <2>2. /\ UNCHANGED <<snap, history, clock, job, stage, pc>>
        /\ stage[w] \in {"live", "stopped"}
        /\ slot' = [slot EXCEPT ![w] = {}]
    BY <1>15 DEF NextUpdate
  <2>3. PICK h \in history : h.ver = u.ver /\ u.val = View(Watches[w], h.doc)
    BY DEF FeedInv, InstalledUpdate
  <2>4. FeedInv'
    <3>1. \A v \in Watcher : \A n \in slot'[v] : InstalledUpdate(v, n)'
      BY <2>2 DEF FeedInv, InstalledUpdate, TypeOK
    <3>2. \A v \in Watcher : stage'[v] = "opening" => InstalledView(v, held[v])'
      BY <2>1, <2>2 DEF FeedInv, InstalledView, TypeOK
    <3>3. \A v \in Watcher : stage'[v] \in {"new", "opening"} => seen'[v] = 0
      BY <2>1, <2>2 DEF FeedInv, TypeOK
    <3> QED
      BY <2>2, <3>1, <3>2, <3>3 DEF FeedInv, Installed
  <2>5. w \in OpenWatchers /\ OpenWatchers' = OpenWatchers
    BY <2>2 DEF OpenWatchers
  <2>6. ShownView' = [ShownView EXCEPT ![w] = u.val]
    <3>1. \A v \in Watcher : held'[v] = IF v = w THEN u.val ELSE held[v]
      BY <2>1 DEF TypeOK
    <3> QED
      BY <2>5, <3>1 DEF ShownView
  <2>7. Feed!Accept(w)
    BY <2>1, <2>2, <2>3, <2>5, <2>6, FeedData
       DEF Feed!Accept, Feed!ShownBy, Newer
  <2> QED
    BY <2>4, <2>7 DEF Feed!Next
<1>16. ASSUME NEW w \in Watcher, NextStale(w) PROVE Goal
  <2>1. /\ UNCHANGED <<snap, history, clock, job, seen, held, stage, pc>>
        /\ slot' = [slot EXCEPT ![w] = {}]
    BY <1>16 DEF NextStale
  <2>2. FeedInv'
    BY <2>1 DEF FeedInv, InstalledUpdate, Installed, InstalledView, TypeOK
  <2> QED
    BY <2>1, <2>2, FeedStutter
<1>17. ASSUME NEW w \in Watcher, StopWatcher(w) PROVE Goal
  <2>1. /\ UNCHANGED <<snap, history, clock, job, slot, seen, held, pc>>
        /\ stage[w] = "live" /\ stage' = [stage EXCEPT ![w] = "stopped"]
    BY <1>17 DEF StopWatcher
  <2>2. FeedInv'
    BY <2>1 DEF FeedInv, InstalledUpdate, Installed, InstalledView, TypeOK
  <2>3. OpenWatchers' = OpenWatchers
    BY <2>1 DEF OpenWatchers, TypeOK
  <2>4. ShownView' = ShownView
    BY <2>1, <2>3 DEF ShownView
  <2> QED
    BY <2>1, <2>2, <2>3, <2>4 DEF Feed!feedVars
<1>18. ASSUME NEW w \in Watcher, Deregister(w) PROVE Goal
  <2>1. UNCHANGED <<snap, history, clock, job, slot, seen, stage, held, pc>>
    BY <1>18 DEF Deregister
  <2> QED
    BY <1>a, <2>1
<1> HIDE DEF Goal
<1>19. Goal
  BY <1>1, <1>2, <1>3, <1>4, <1>5, <1>6, <1>7, <1>8, <1>9, <1>10, <1>11,
     <1>12, <1>13, <1>14, <1>15, <1>16, <1>17, <1>18
     DEF Next, Goroutine, API, Client, Update, Proc
<1> QED
  BY <1>19 DEF Goal

(* While its clock advances, the loader is a versioned feed: its version    *)
(* and those of its watchers only grow, and a watcher is only shown its     *)
(* part of a snapshot that was installed with the version it reaches.       *)
THEOREM LoaderIsVersionedFeed ==
    ASSUME ClockAdvances
    PROVE  Spec => FeedSpec
<1>1. TypeOK /\ FeedInv /\ [Next]_vars
        => FeedInv' /\ [Feed!Next]_(Feed!feedVars)
  BY FeedStep
<1> QED
  BY <1>1, FeedInit, TypeCorrect, PTL DEF Spec, FeedSpec, Feed!Spec

-----------------------------------------------------------------------------
(* The snapshot is the merge of the saved sets *)

LoadingAt(c) == pc[c] \in {"load", "append"}

\* A step that leaves what ViewIsMergeOfSets is about, unless a Load begins or goes on.
LEMMA ViewStutter ==
    ASSUME ViewIsMergeOfSets, UNCHANGED <<loaded, snap, bySync, sources, sets>>,
           \A c \in Caller : LoadingAt(c) => LoadingAt(c)'
    PROVE  ViewIsMergeOfSets'
BY DEF ViewIsMergeOfSets, LoadingAt, Mergeable, Merge, LastDefined

LEMMA ViewInstalled ==
    ASSUME Install(Merge(sources', sets'), FALSE)
    PROVE  ViewIsMergeOfSets'
<1>1. snap'.doc = Merge(sources', sets')
  BY DEF Install
<1>2. Merge(sources', sets') = Merge(sources, sets)'
  BY DEF Merge, LastDefined
<1> QED
  BY <1>1, <1>2 DEF ViewIsMergeOfSets

LEMMA ViewUnmergeable ==
    ASSUME ~Mergeable(sources', sets')
    PROVE  ViewIsMergeOfSets'
BY DEF ViewIsMergeOfSets, Mergeable

LEMMA ViewStep ==
    ASSUME TypeOK, ViewIsMergeOfSets, [Next]_vars
    PROVE  ViewIsMergeOfSets'
<1> DEFINE same == UNCHANGED <<loaded, snap, bySync, sources, sets>>
           goesOn == \A c \in Caller : LoadingAt(c) => LoadingAt(c)'
<1>0. same /\ goesOn => ViewIsMergeOfSets'
  BY ViewStutter
<1>a. ASSUME NEW p \in Proc, NEW label, Goto(p, label),
             pc[p] \notin {"load", "append"} \/ label \in {"load", "append"}
      PROVE  goesOn
  BY <1>a DEF Goto, LoadingAt, TypeOK, Proc
<1>b. pc' = pc => goesOn
  BY DEF LoadingAt
<1>1. ASSUME NEW s \in Source, NEW cs \in ChangeSet, SourceChange(s, cs)
      PROVE  ViewIsMergeOfSets'
  BY <1>1, <1>0, <1>b DEF SourceChange, snapVars, mergeVars
<1>2. ASSUME NEW p \in Proc, Update(p) PROVE ViewIsMergeOfSets'
  <2>1. CASE Capture(p)
    BY <2>1, <1>0, <1>a DEF Capture, snapVars, mergeVars
  <2>2. CASE \E w \in Watcher : CheckWatcher(p, w) \/ SendUpdate(p, w)
    BY <2>2, <1>0, <1>b DEF CheckWatcher, SendUpdate, snapVars, mergeVars
  <2>3. CASE UpdateDone(p)
    BY <2>3, <1>0, <1>a DEF UpdateDone, snapVars, mergeVars
  <2> QED
    BY <1>2, <2>1, <2>2, <2>3 DEF Update
<1>3. ASSUME NEW s \in Source,
             BeginWatch(s) \/ NextChange(s) \/ NextError(s) \/ Wake(s)
      PROVE  ViewIsMergeOfSets'
  <2>1. same
    BY <1>3 DEF BeginWatch, NextChange, NextError, Wake, snapVars, mergeVars
  <2>2. s \in Proc /\ pc[s] \notin {"load", "append"}
    BY <1>3 DEF BeginWatch, NextChange, NextError, Wake, Proc
  <2>3. \E label : Goto(s, label)
    BY <1>3 DEF BeginWatch, NextChange, NextError, Wake
  <2> QED
    BY <2>1, <2>2, <2>3, <1>0, <1>a
<1>4. ASSUME NEW s \in Source, InstallChange(s) PROVE ViewIsMergeOfSets'
  BY <1>4, ViewInstalled DEF InstallChange
<1>5. ASSUME NEW s \in Source, RejectChange(s) PROVE ViewIsMergeOfSets'
  BY <1>5, ViewUnmergeable DEF RejectChange
<1>6. ASSUME NEW s \in Source, StopSourceWatcher(s) PROVE ViewIsMergeOfSets'
  BY <1>6, <1>0, <1>b DEF StopSourceWatcher, snapVars, mergeVars
<1>7. ASSUME NEW c \in Caller, LoadBegin(c) PROVE ViewIsMergeOfSets'
  BY <1>7, <1>0, <1>a DEF LoadBegin, snapVars, mergeVars, Proc
<1>8. ASSUME NEW c \in Caller, NEW s \in Source, LoadRead(c, s) PROVE ViewIsMergeOfSets'
  BY <1>8, <1>0, <1>a DEF LoadRead, snapVars, mergeVars, Proc
<1>9. ASSUME NEW c \in Caller, NEW s \in Source, LoadAppend(c, s) PROVE ViewIsMergeOfSets'
  <2>1. s # c /\ pc' = [pc EXCEPT ![c] = "load", ![s] = "watch"]
    BY <1>9, LoaderAssumption DEF LoadAppend
  <2>2. LoadingAt(c)'
    BY <2>1 DEF LoadingAt, TypeOK, Proc
  <2> QED
    BY <2>2 DEF ViewIsMergeOfSets, LoadingAt
<1>10. ASSUME NEW c \in Caller, Reload(c) PROVE ViewIsMergeOfSets'
  <2>1. UNCHANGED <<sources, sets>>
    BY <1>10 DEF Reload, mergeVars
  <2>2. CASE Mergeable(sources, sets)
    BY <1>10, <2>1, <2>2, ViewInstalled DEF Reload
  <2>3. CASE ~Mergeable(sources, sets)
    BY <2>1, <2>3, ViewUnmergeable
  <2> QED
    BY <2>2, <2>3
<1>11. ASSUME NEW c \in Caller, Sync(c) PROVE ViewIsMergeOfSets'
  <2>1. bySync' = TRUE
    BY <1>11 DEF Sync, Install
  <2> QED
    BY <2>1 DEF ViewIsMergeOfSets
<1>12. ASSUME NEW c \in Caller, Close(c) PROVE ViewIsMergeOfSets'
  BY <1>12, <1>0, <1>b DEF Close, snapVars, mergeVars
<1>13. ASSUME NEW w \in Watcher, Client(w) PROVE ViewIsMergeOfSets'
  <2>1. same /\ pc' = pc
    BY <1>13 DEF Client, WatchGet, WatchRegister, NextUpdate, NextStale, StopWatcher,
                 Deregister, snapVars, mergeVars
  <2> QED
    BY <2>1, <1>0, <1>b
<1>14. CASE UNCHANGED vars
  BY <1>14, <1>0, <1>b DEF vars, snapVars, mergeVars
<1> QED
  BY <1>1, <1>2, <1>3, <1>4, <1>5, <1>6, <1>7, <1>8, <1>9, <1>10, <1>11, <1>12, <1>13,
     <1>14 DEF Next, Goroutine, API, Proc

\* Whenever the saved sets can be merged and no Load is under way, the snapshot is their
\* merge, unless Sync installed it: nothing a goroutine saved while another source was
\* broken is forgotten (memory.go watch and reload).
THEOREM SnapshotIsMerge == Spec => []ViewIsMergeOfSets
<1>1. Init => ViewIsMergeOfSets
  BY DEF Init, ViewIsMergeOfSets
<1>2. TypeOK /\ ViewIsMergeOfSets /\ [Next]_vars => ViewIsMergeOfSets'
  BY ViewStep
<1> QED
  BY <1>1, <1>2, TypeCorrect, PTL DEF Spec

-----------------------------------------------------------------------------
(* No change of a source is lost silently *)

\* A source nobody watches has no channel.
Unwatched(s) == queue[s] = <<>> /\ subscribed[s] = FALSE

\* The loader has, or will get, what the source contains.
Reaches(s) == s \notin unseen \cup GivenSet => Newest(s) = content[s]

\* A source that was read but not appended is still off, and the caller holds what it
\* contains, unless it changed since.
Carried(c, s) == pc[s] = "off" /\ (s \notin unseen => hand[c] = content[s])

SourceInv ==
    /\ \A s \in Source : pc[s] \in {"off", "watch"} => Unwatched(s)
    /\ \A s \in Source : pc[s] # "off" => Reaches(s)
    /\ \A c \in Caller : \A s \in target[c] : Carried(c, s)
    /\ \A c, d \in Caller : \A s \in target[c] : s \in target[d] => c = d

LEMMA SourceInvSuffices == SourceInv => NoSilentSourceLoss
BY DEF SourceInv, Reaches, NoSilentSourceLoss, Watched

LEMMA SourceInit == Init => SourceInv
<1> SUFFICES ASSUME Init PROVE SourceInv
  OBVIOUS
<1>1. \A s \in Source : s \in Proc /\ s \notin Caller
  BY LoaderAssumption DEF Proc
<1>2. \A s \in Source : pc[s] # "off" => s \in GivenSet
  BY <1>1 DEF Init
<1>3. \A s \in Source : Unwatched(s)
  BY DEF Init, Unwatched
<1> QED
  BY <1>2, <1>3 DEF Init, SourceInv, Reaches

\* A step that moves goroutines about and perhaps stops source watchers.
LEMMA SourceStutter ==
    ASSUME TypeOK, SourceInv, UNCHANGED <<content, queue, sets, hand, target, unseen>>,
           \A s \in Source : subscribed'[s] = subscribed[s] \/ subscribed'[s] = FALSE,
           \A s \in Source :
             \/ pc'[s] = pc[s]
             \/ {pc[s], pc'[s]} \cap {"off", "watch", "install"} = {}
    PROVE  SourceInv'
<1>1. \A s \in Source : pc'[s] \in {"off", "watch"} => Unwatched(s)'
  BY DEF SourceInv, Unwatched
<1>2. ASSUME NEW s \in Source, pc'[s] # "off" PROVE Reaches(s)'
  <2>1. Reaches(s)
    BY <1>2 DEF SourceInv
  <2>2. Newest(s)' = Newest(s)
    BY DEF Newest
  <2> QED
    BY <2>1, <2>2 DEF Reaches
<1>3. ASSUME NEW c \in Caller, NEW s \in target[c] PROVE Carried(c, s)'
  <2>1. s \in Source /\ Carried(c, s)
    BY DEF TypeOK, SourceInv
  <2> QED
    BY <2>1 DEF Carried
<1>4. \A c, d \in Caller : \A s \in target'[c] : s \in target'[d] => c = d
  BY DEF SourceInv
<1> QED
  BY <1>1, <1>2, <1>3, <1>4 DEF SourceInv

\* A step about one source: its invariant is all there is to show.
LEMMA SourceAlone ==
    ASSUME TypeOK, SourceInv, NEW s \in Source,
           \A r \in Source \ {s} :
             /\ content'[r] = content[r] /\ queue'[r] = queue[r] /\ sets'[r] = sets[r]
             /\ subscribed'[r] = subscribed[r] /\ pc'[r] = pc[r] /\ hand'[r] = hand[r]
             /\ r \in unseen' <=> r \in unseen,
           target' = target, \A c \in Caller : hand'[c] = hand[c],
           pc'[s] \in {"off", "watch"} => Unwatched(s)',
           pc'[s] # "off" => Reaches(s)',
           \A c \in Caller : s \in target[c] => Carried(c, s)'
    PROVE  SourceInv'
<1>1. \A r \in Source : pc'[r] \in {"off", "watch"} => Unwatched(r)'
  BY DEF SourceInv, Unwatched
<1>2. ASSUME NEW r \in Source, r # s, pc'[r] # "off" PROVE Reaches(r)'
  <2>1. Reaches(r) /\ Newest(r)' = Newest(r)
    BY <1>2 DEF SourceInv, Newest
  <2> QED
    BY <1>2, <2>1 DEF Reaches
<1>3. ASSUME NEW c \in Caller, NEW r \in target[c], r # s PROVE Carried(c, r)'
  <2>1. r \in Source /\ Carried(c, r)
    BY DEF TypeOK, SourceInv
  <2> QED
    BY <1>3, <2>1 DEF Carried
<1>4. \A c, d \in Caller : \A r \in target'[c] : r \in target'[d] => c = d
  BY DEF SourceInv
<1> QED
  BY <1>1, <1>2, <1>3, <1>4 DEF SourceInv

LEMMA ChangeKeepsSource ==
    ASSUME TypeOK, SourceInv, NEW s \in Source, NEW cs \in ChangeSet, SourceChange(s, cs)
    PROVE  SourceInv'
<1>1. /\ content' = [content EXCEPT ![s] = cs]
      /\ UNCHANGED <<subscribed, sets, pc, hand, target>>
  BY <1>1 DEF SourceChange, mergeVars
<1>2. CASE /\ subscribed[s]
           /\ queue' = [queue EXCEPT ![s] = Append(@, cs)] /\ unseen' = unseen \ {s}
  <2>1. pc[s] \notin {"off", "watch"}
    BY <1>2 DEF SourceInv, Unwatched
  <2>2. queue'[s] = Append(queue[s], cs) /\ queue[s] \in Seq(ChangeSet)
    BY <1>2 DEF TypeOK
  <2>3. queue'[s] # <<>> /\ queue'[s][Len(queue'[s])] = cs
    BY <2>2
  <2>4. Reaches(s)'
    BY <1>1, <2>3 DEF Reaches, Newest, TypeOK
  <2>5. \A c \in Caller : s \notin target[c]
    BY <2>1 DEF SourceInv, Carried
  <2>6. \A r \in Source \ {s} : /\ content'[r] = content[r] /\ queue'[r] = queue[r]
                                /\ r \in unseen' <=> r \in unseen
    BY <1>1, <1>2 DEF TypeOK
  <2> QED
    BY <1>1, <2>1, <2>4, <2>5, <2>6, SourceAlone
<1>3. CASE unseen' = unseen \cup {s} /\ queue' = queue
  <2>1. Reaches(s)'
    BY <1>3 DEF Reaches
  <2>2. pc'[s] \in {"off", "watch"} => Unwatched(s)'
    BY <1>1, <1>3 DEF SourceInv, Unwatched
  <2>3. \A c \in Caller : s \in target[c] => Carried(c, s)'
    BY <1>1, <1>3 DEF SourceInv, Carried
  <2>4. \A r \in Source \ {s} : /\ content'[r] = content[r] /\ queue'[r] = queue[r]
                                /\ r \in unseen' <=> r \in unseen
    BY <1>1, <1>3 DEF TypeOK
  <2> QED
    BY <1>1, <2>1, <2>2, <2>3, <2>4, SourceAlone
<1> QED
  BY <1>2, <1>3 DEF SourceChange

LEMMA TailOfOne ==
    ASSUME NEW q \in Seq(ChangeSet), q # <<>>, Tail(q) = <<>>
    PROVE  Len(q) = 1 /\ Head(q) = q[1]
<1>1. Len(q) \in Nat /\ Len(q) # 0 /\ Head(q) = q[1]
  OBVIOUS
<1>2. Len(Tail(q)) = IF Len(q) = 0 THEN 0 ELSE Len(q) - 1
  OBVIOUS
<1>3. Len(Tail(q)) = Len(<<>>)
  BY Zenon
<1>4. Len(<<>>) = 0
  OBVIOUS
<1> QED
  BY <1>1, <1>2, <1>3, <1>4

\* What the goroutine of a source does with its watcher and what it received.
LEMMA GoroutineKeepsSource ==
    ASSUME TypeOK, SourceInv, NEW s \in Source,
           \/ BeginWatch(s) \/ NextChange(s) \/ InstallChange(s) \/ RejectChange(s)
           \/ Wake(s)
    PROVE  SourceInv'
<1>0. /\ s \in Proc /\ s \notin Caller /\ pc \in [Proc -> GoroutineLabels \cup CallerLabels]
      /\ hand \in [Proc -> ChangeSet] /\ queue[s] \in Seq(ChangeSet)
      /\ \A r \in Source : r \in Proc
  BY LoaderAssumption DEF TypeOK, Proc
<1>1. UNCHANGED <<content, target>>
  BY DEF BeginWatch, NextChange, InstallChange, RejectChange, Wake, sourceVars
<1>2. \A r \in Source \ {s} :
        /\ queue'[r] = queue[r] /\ sets'[r] = sets[r] /\ subscribed'[r] = subscribed[r]
        /\ pc'[r] = pc[r] /\ hand'[r] = hand[r]
        /\ r \in unseen' <=> r \in unseen
  <2>1. CASE BeginWatch(s)
    BY <2>1, <1>0 DEF BeginWatch, Goto, mergeVars, TypeOK
  <2>2. CASE NextChange(s)
    BY <2>2, <1>0 DEF NextChange, Goto, mergeVars, TypeOK
  <2>3. CASE InstallChange(s)
    BY <2>3, <1>0 DEF InstallChange, Goto, sourceVars, TypeOK
  <2>4. CASE RejectChange(s)
    BY <2>4, <1>0 DEF RejectChange, Goto, sourceVars, TypeOK
  <2>5. CASE Wake(s)
    BY <2>5, <1>0 DEF Wake, Goto, mergeVars, TypeOK
  <2> QED
    BY <2>1, <2>2, <2>3, <2>4, <2>5
<1>3. \A c \in Caller : hand'[c] = hand[c]
  BY <1>0 DEF BeginWatch, NextChange, InstallChange, RejectChange, Wake, Proc
<1>4. pc[s] # "off"
  BY DEF BeginWatch, NextChange, InstallChange, RejectChange, Wake
<1>5. (\A c \in Caller : s \notin target[c]) /\ Reaches(s)
  BY <1>4 DEF SourceInv, Carried
<1>6. pc'[s] \in {"off", "watch"} => Unwatched(s)'
  <2>1. CASE Wake(s)
    BY <2>1, <1>0 DEF Wake, Unwatched, TypeOK
  <2>2. CASE ~Wake(s)
    BY <2>2, <1>0 DEF BeginWatch, NextChange, InstallChange, RejectChange, Goto
  <2> QED
    BY <2>1, <2>2
<1>7. Reaches(s)'
  <2>1. CASE BeginWatch(s)
    <3>1. queue[s] = <<>> /\ queue'[s] = <<>> /\ pc'[s] = "next" /\ pc[s] = "watch"
      BY <2>1, <1>0 DEF BeginWatch, Goto, SourceInv, Unwatched, TypeOK
    <3>2. Newest(s)' = Newest(s)
      BY <2>1, <3>1 DEF BeginWatch, Newest, mergeVars
    <3> QED
      BY <2>1, <3>2, <1>1, <1>5 DEF BeginWatch, Reaches
  <2>2. CASE NextChange(s)
    <3>1. /\ pc[s] = "next" /\ queue[s] # <<>> /\ hand'[s] = Head(queue[s])
          /\ queue'[s] = Tail(queue[s]) /\ pc'[s] = "install"
      BY <2>2, <1>0 DEF NextChange, Goto, TypeOK
    <3>2. Newest(s) = queue[s][Len(queue[s])]
      BY <3>1 DEF Newest
    <3>3. CASE Tail(queue[s]) = <<>>
      <4>1. Len(queue[s]) = 1 /\ Head(queue[s]) = queue[s][1]
        BY <1>0, <3>1, <3>3, TailOfOne
      <4>2. Newest(s)' = Head(queue[s])
        BY <3>1, <3>3 DEF Newest
      <4> QED
        BY <4>1, <4>2, <3>2, <2>2, <1>1, <1>5 DEF NextChange, Reaches
    <3>4. CASE Tail(queue[s]) # <<>>
      <4>1. Tail(queue[s])[Len(Tail(queue[s]))] = queue[s][Len(queue[s])]
        BY <1>0, <3>1, <3>4
      <4>2. Newest(s)' = Tail(queue[s])[Len(Tail(queue[s]))]
        BY <3>1, <3>4 DEF Newest
      <4> QED
        BY <4>1, <4>2, <3>2, <2>2, <1>1, <1>5 DEF NextChange, Reaches
    <3> QED
      BY <3>3, <3>4
  <2>3. CASE InstallChange(s) \/ RejectChange(s)
    <3>1. /\ pc[s] = "install" /\ sets'[s] = hand[s] /\ pc'[s] # "install"
          /\ UNCHANGED <<queue, unseen>>
      BY <2>3, <1>0 DEF InstallChange, RejectChange, Goto, sourceVars, TypeOK
    <3>2. Newest(s)' = Newest(s)
      BY <3>1 DEF Newest
    <3> QED
      BY <3>1, <3>2, <1>1, <1>5 DEF Reaches
  <2>4. CASE Wake(s) /\ queue[s] # <<>>
    BY <2>4 DEF Wake, Reaches
  <2>5. CASE Wake(s) /\ queue[s] = <<>>
    <3>1. /\ queue'[s] = <<>> /\ pc[s] # "install" /\ pc'[s] # "install"
          /\ UNCHANGED <<sets, unseen>>
      BY <2>5, <1>0 DEF Wake, Goto, mergeVars, TypeOK
    <3>2. Newest(s)' = Newest(s)
      BY <3>1, <2>5 DEF Newest
    <3> QED
      BY <3>1, <3>2, <1>1, <1>5 DEF Reaches
  <2> QED
    BY <2>1, <2>2, <2>3, <2>4, <2>5
<1>8. \A r \in Source \ {s} :
        /\ content'[r] = content[r] /\ queue'[r] = queue[r] /\ sets'[r] = sets[r]
        /\ subscribed'[r] = subscribed[r] /\ pc'[r] = pc[r] /\ hand'[r] = hand[r]
        /\ r \in unseen' <=> r \in unseen
  BY <1>1, <1>2
<1>9. \A c \in Caller : s \in target[c] => Carried(c, s)'
  BY <1>5
<1>10. target' = target
  BY <1>1
<1> QED
  BY <1>3, <1>6, <1>7, <1>8, <1>9, <1>10, SourceAlone

LEMMA ReadKeepsSource ==
    ASSUME TypeOK, SourceInv, NEW c \in Caller, NEW s \in Source, LoadRead(c, s)
    PROVE  SourceInv'
<1>0. c \in Proc /\ \A r \in Source : r # c /\ r \in Proc
  BY LoaderAssumption DEF Proc
<1>1. /\ pc[s] = "off" /\ \A d \in Caller : s \notin target[d]
      /\ hand' = [hand EXCEPT ![c] = content[s]] /\ target' = [target EXCEPT ![c] = {s}]
      /\ unseen' = unseen \ {s} /\ pc' = [pc EXCEPT ![c] = "append"]
      /\ UNCHANGED <<content, queue, subscribed, sets>>
  BY DEF LoadRead, Goto, mergeVars
<1>2. \A r \in Source : pc'[r] = pc[r] /\ hand'[r] = hand[r]
  BY <1>0, <1>1 DEF TypeOK
<1>3. \A r \in Source : pc'[r] \in {"off", "watch"} => Unwatched(r)'
  BY <1>1, <1>2 DEF SourceInv, Unwatched
<1>4. ASSUME NEW r \in Source, pc'[r] # "off" PROVE Reaches(r)'
  <2>1. r # s /\ Reaches(r) /\ Newest(r)' = Newest(r)
    BY <1>1, <1>2, <1>4 DEF SourceInv, Newest
  <2> QED
    BY <1>1, <2>1 DEF Reaches
<1>5. ASSUME NEW d \in Caller, NEW r \in target'[d] PROVE Carried(d, r)'
  <2>1. CASE d = c
    <3>1. r = s /\ hand'[c] = content[s]
      BY <1>0, <1>1, <2>1 DEF TypeOK
    <3> QED
      BY <3>1, <2>1, <1>1, <1>2 DEF Carried
  <2>2. CASE d # c
    <3>1. r \in target[d] /\ r # s /\ r \in Source /\ hand'[d] = hand[d]
      BY <1>1, <2>2 DEF TypeOK, Proc
    <3> QED
      BY <3>1, <1>1, <1>2 DEF SourceInv, Carried
  <2> QED
    BY <2>1, <2>2
<1>6. \A b, d \in Caller : \A r \in target'[b] : r \in target'[d] => b = d
  BY <1>1 DEF SourceInv, TypeOK
<1> QED
  BY <1>3, <1>4, <1>5, <1>6 DEF SourceInv

LEMMA AppendKeepsSource ==
    ASSUME TypeOK, SourceInv, NEW c \in Caller, NEW s \in Source, LoadAppend(c, s)
    PROVE  SourceInv'
<1>0. c \in Proc /\ s \in Proc /\ \A r \in Source : r # c /\ r \in Proc
  BY LoaderAssumption DEF Proc
<1>1. /\ s \in target[c] /\ sets' = [sets EXCEPT ![s] = hand[c]]
      /\ hand' = [hand EXCEPT ![c] = EmptyDoc] /\ target' = [target EXCEPT ![c] = {}]
      /\ pc' = [pc EXCEPT ![c] = "load", ![s] = "watch"]
      /\ UNCHANGED <<content, queue, subscribed, unseen>>
  BY DEF LoadAppend, sourceVars
<1>2. /\ pc'[s] = "watch" /\ \A r \in Source \ {s} : pc'[r] = pc[r]
      /\ \A r \in Source : hand'[r] = hand[r]
  BY <1>0, <1>1 DEF TypeOK
<1>3. Carried(c, s) /\ Unwatched(s)
  BY <1>1 DEF SourceInv, Carried
<1>4. \A r \in Source : pc'[r] \in {"off", "watch"} => Unwatched(r)'
  BY <1>1, <1>2, <1>3 DEF SourceInv, Unwatched
<1>5. ASSUME NEW r \in Source, pc'[r] # "off" PROVE Reaches(r)'
  <2>1. CASE r = s
    <3>1. Newest(s)' = hand[c]
      BY <1>1, <1>2, <1>3 DEF Newest, Unwatched, TypeOK
    <3> QED
      BY <2>1, <3>1, <1>1, <1>3 DEF Reaches, Carried
  <2>2. CASE r # s
    <3>1. Reaches(r) /\ Newest(r)' = Newest(r)
      BY <2>2, <1>1, <1>2, <1>5 DEF SourceInv, Newest, TypeOK
    <3> QED
      BY <3>1, <1>1 DEF Reaches
  <2> QED
    BY <2>1, <2>2
<1>6. ASSUME NEW d \in Caller, NEW r \in target'[d] PROVE Carried(d, r)'
  <2>1. d # c /\ r \in target[d] /\ r \in Source
    BY <1>1 DEF TypeOK
  <2>2. r # s /\ hand'[d] = hand[d] /\ Carried(d, r)
    BY <1>1, <2>1 DEF SourceInv, TypeOK, Proc
  <2> QED
    BY <2>1, <2>2, <1>1, <1>2 DEF Carried
<1>7. \A b, d \in Caller : \A r \in target'[b] : r \in target'[d] => b = d
  BY <1>1 DEF SourceInv, TypeOK
<1> QED
  BY <1>4, <1>5, <1>6, <1>7 DEF SourceInv

LEMMA SourceStep ==
    ASSUME TypeOK, SourceInv, [Next]_vars
    PROVE  SourceInv'
<1> DEFINE same == UNCHANGED <<content, queue, subscribed, sets, hand, target, unseen>>
           calm == \A s \in Source :
                     \/ pc'[s] = pc[s]
                     \/ {pc[s], pc'[s]} \cap {"off", "watch", "install"} = {}
<1>0. same /\ calm => SourceInv'
  BY SourceStutter
<1>a. pc' = pc => calm
  OBVIOUS
<1>b. ASSUME NEW c \in Caller, NEW label, Goto(c, label) PROVE calm
  BY <1>b, LoaderAssumption DEF Goto, TypeOK, Proc
<1>1. ASSUME NEW s \in Source, NEW cs \in ChangeSet, SourceChange(s, cs) PROVE SourceInv'
  BY <1>1, ChangeKeepsSource
<1>2. ASSUME NEW p \in Proc, Update(p) PROVE SourceInv'
  <2>1. same
    BY <1>2 DEF Update, Capture, CheckWatcher, SendUpdate, UpdateDone, sourceVars,
                mergeVars
  <2>2. CASE Capture(p)
    <3>1. pc[p] = "capture" /\ pc' = [pc EXCEPT ![p] = "send"]
      BY <2>2 DEF Capture, Goto
    <3>2. calm
      BY <3>1 DEF TypeOK, Proc
    <3> QED
      BY <2>1, <3>2, <1>0
  <2>3. CASE \E w \in Watcher : CheckWatcher(p, w) \/ SendUpdate(p, w)
    BY <2>1, <2>3, <1>0, <1>a DEF CheckWatcher, SendUpdate
  <2>4. CASE UpdateDone(p)
    <3>1. \E label \in {"next", "idle"} :
            pc[p] = "send" /\ pc' = [pc EXCEPT ![p] = label]
      BY <2>4 DEF UpdateDone, Goto
    <3>2. calm
      BY <3>1 DEF TypeOK, Proc
    <3> QED
      BY <2>1, <3>2, <1>0
  <2> QED
    BY <1>2, <2>2, <2>3, <2>4 DEF Update
<1>3. ASSUME NEW s \in Source,
             \/ BeginWatch(s) \/ NextChange(s) \/ InstallChange(s) \/ RejectChange(s)
             \/ Wake(s)
      PROVE  SourceInv'
  BY <1>3, GoroutineKeepsSource
<1>4. ASSUME NEW s \in Source, NextError(s) PROVE SourceInv'
  <2>1. same
    BY <1>4 DEF NextError, sourceVars, mergeVars
  <2>2. pc[s] = "next" /\ pc' = [pc EXCEPT ![s] = "sleep"]
    BY <1>4 DEF NextError, Goto
  <2>3. calm
    BY <2>2 DEF TypeOK, Proc
  <2> QED
    BY <2>1, <2>3, <1>0
<1>5. ASSUME NEW s \in Source, StopSourceWatcher(s) PROVE SourceInv'
  <2>1. /\ UNCHANGED <<content, queue, sets, hand, target, unseen, pc>>
        /\ subscribed' = [subscribed EXCEPT ![s] = FALSE]
    BY <1>5 DEF StopSourceWatcher, mergeVars
  <2>2. \A r \in Source : subscribed'[r] = subscribed[r] \/ subscribed'[r] = FALSE
    BY <2>1 DEF TypeOK
  <2> QED
    BY <2>1, <2>2, SourceStutter
<1>6. ASSUME NEW c \in Caller, LoadBegin(c) \/ Reload(c) \/ Sync(c) \/ Close(c)
      PROVE  SourceInv'
  <2>1. same
    BY <1>6 DEF LoadBegin, Reload, Sync, Close, sourceVars, mergeVars
  <2>2. pc' = pc \/ \E label : Goto(c, label)
    BY <1>6 DEF LoadBegin, Reload, Sync, Close
  <2> QED
    BY <2>1, <2>2, <1>0, <1>a, <1>b
<1>7. ASSUME NEW c \in Caller, NEW s \in Source, LoadRead(c, s) PROVE SourceInv'
  BY <1>7, ReadKeepsSource
<1>8. ASSUME NEW c \in Caller, NEW s \in Source, LoadAppend(c, s) PROVE SourceInv'
  BY <1>8, AppendKeepsSource
<1>9. ASSUME NEW w \in Watcher, Client(w) PROVE SourceInv'
  <2>1. same /\ pc' = pc
    BY <1>9 DEF Client, WatchGet, WatchRegister, NextUpdate, NextStale, StopWatcher,
                Deregister, sourceVars, mergeVars
  <2> QED
    BY <2>1, <1>0, <1>a
<1>10. CASE UNCHANGED vars
  BY <1>10, <1>0, <1>a DEF vars, sourceVars, mergeVars
<1> QED
  BY <1>1, <1>2, <1>3, <1>4, <1>5, <1>6, <1>7, <1>8, <1>9, <1>10
     DEF Next, Goroutine, API, Proc

\* While a source is watched, its last change is in the channel, in the goroutine's hand
\* or saved, unless it reached no source watcher or was left in the channel by a back-off
\* (memory.go watch; source/memory Update).
THEOREM NoSourceIsLost == Spec => []NoSilentSourceLoss
<1>1. TypeOK /\ SourceInv /\ [Next]_vars => SourceInv'
  BY SourceStep
<1> QED
  BY <1>1, SourceInit, SourceInvSuffices, TypeCorrect, PTL DEF Spec

-----------------------------------------------------------------------------
(* The goroutines of a closed loader run down *)

Phase(label) ==
    CASE label = "off"     -> 7
      [] label = "watch"   -> 6
      [] label = "install" -> 5
      [] label = "capture" -> 4
      [] label = "send"    -> 3
      [] label = "next"    -> 2
      [] label = "sleep"   -> 1
      [] label = "done"    -> 0

\* What the goroutine of s may still go through: the changes in its channel, those its
\* source has not made yet, and the rest of its round.
StepsLeft(s) == 6 * (Len(queue[s]) + (MaxChanges - changes)) + Phase(pc[s])

\* update() has one watcher fewer to look at, or to send to.
ServesOne(s) ==
    /\ pc[s] = "send" /\ StepsLeft(s)' = StepsLeft(s)
    /\ \E w \in Watcher :
         \/ w \in job[s].todo /\ job'[s].todo = job[s].todo \ {w}
         \/ /\ job'[s].todo = job[s].todo
            /\ w \in job[s].now /\ job'[s].now = job[s].now \ {w}

RunsDown(s) ==
    closed => /\ StepsLeft(s) \in Nat
              /\ IF Goroutine(s) THEN StepsLeft(s)' < StepsLeft(s) \/ ServesOne(s)
                                 ELSE StepsLeft(s)' <= StepsLeft(s)

LEMMA PhaseType ==
    ASSUME NEW label \in GoroutineLabels
    PROVE  Phase(label) \in 0..7
BY DEF Phase, GoroutineLabels

\* The numbers StepsLeft is made of.
LEMMA StepsAreCounted ==
    ASSUME TypeOK, NEW s \in Source
    PROVE  /\ Len(queue[s]) \in Nat /\ MaxChanges - changes \in Nat /\ changes \in Nat
           /\ Phase(pc[s]) \in 0..7 /\ StepsLeft(s) \in Nat
<1>1. queue[s] \in Seq(ChangeSet) /\ changes \in 0..MaxChanges
  BY DEF TypeOK
<1>2. Len(queue[s]) \in Nat
  BY <1>1
<1>3. MaxChanges - changes \in Nat /\ changes \in Nat
  BY <1>1, LoaderAssumption
<1>4. Phase(pc[s]) \in 0..7
  BY PhaseType DEF TypeOK
<1>5. \A a, b \in Nat : \A p \in 0..7 : 6 * (a + b) + p \in Nat
  OBVIOUS
<1>6. 6 * (Len(queue[s]) + (MaxChanges - changes)) + Phase(pc[s]) \in Nat
  BY <1>2, <1>3, <1>4, <1>5
<1> QED
  BY <1>2, <1>3, <1>4, <1>6 DEF StepsLeft

\* A goroutine that passes to an earlier phase, with no more changes ahead.
LEMMA PhaseDecides ==
    ASSUME TypeOK, TypeOK', NEW s \in Source, changes' = changes,
           Len(queue'[s]) <= Len(queue[s]), Phase(pc'[s]) < Phase(pc[s])
    PROVE  StepsLeft(s)' < StepsLeft(s) /\ StepsLeft(s)' <= StepsLeft(s)
<1>1. /\ Len(queue[s]) \in Nat /\ MaxChanges - changes \in Nat /\ Phase(pc[s]) \in 0..7
  BY StepsAreCounted
<1>2. Len(queue'[s]) \in Nat
  BY DEF TypeOK
<1>3. Phase(pc'[s]) \in 0..7
  BY PhaseType DEF TypeOK
<1>4. StepsLeft(s)' = 6 * (Len(queue'[s]) + (MaxChanges - changes)) + Phase(pc'[s])
  BY DEF StepsLeft, Phase
<1>5. StepsLeft(s) = 6 * (Len(queue[s]) + (MaxChanges - changes)) + Phase(pc[s])
  BY DEF StepsLeft
<1>6. \A a, b, n \in Nat : \A p, q \in 0..7 :
        b <= a /\ q < p => /\ 6 * (b + n) + q < 6 * (a + n) + p
                          /\ 6 * (b + n) + q <= 6 * (a + n) + p
  OBVIOUS
<1> QED
  BY <1>1, <1>2, <1>3, <1>4, <1>5, <1>6

LEMMA StepsRest ==
    ASSUME NEW s \in Source, changes' = changes, queue'[s] = queue[s], pc'[s] = pc[s]
    PROVE  StepsLeft(s)' = StepsLeft(s)
BY DEF StepsLeft, Phase

LEMMA GoroutineCounts ==
    ASSUME TypeOK, TypeOK', NEW s \in Source, closed, Goroutine(s)
    PROVE  StepsLeft(s)' < StepsLeft(s) \/ ServesOne(s)
<1> USE DEF sourceVars, counters, Goto, Proc
<1>p. s \in Proc /\ pc \in [Proc -> GoroutineLabels \cup CallerLabels]
  BY DEF TypeOK
<1>q. queue \in [Source -> Seq(ChangeSet)]
  BY DEF TypeOK
<1>a. ASSUME UNCHANGED changes, Len(queue'[s]) <= Len(queue[s]),
             Phase(pc'[s]) < Phase(pc[s])
      PROVE  StepsLeft(s)' < StepsLeft(s)
  BY <1>a, PhaseDecides
<1>1. CASE BeginWatch(s)
  <2>1. pc[s] = "watch" /\ pc'[s] = "next" /\ UNCHANGED changes
    BY <1>1, <1>p DEF BeginWatch
  <2>2. Len(queue'[s]) = 0 /\ Len(queue[s]) \in Nat
    BY <1>1, <1>q DEF BeginWatch
  <2> QED
    BY <2>1, <2>2, <1>a DEF Phase
<1>2. CASE NextChange(s)
  <2>1. pc[s] = "next" /\ pc'[s] = "install" /\ UNCHANGED changes
    BY <1>2, <1>p DEF NextChange
  <2>2. queue[s] \in Seq(ChangeSet) /\ queue[s] # <<>> /\ queue'[s] = Tail(queue[s])
    BY <1>2, <1>q DEF NextChange
  <2>3. Len(queue'[s]) = Len(queue[s]) - 1
    BY <2>2
  <2>4. Len(queue[s]) \in Nat /\ MaxChanges - changes \in Nat
    BY StepsAreCounted
  <2>5. StepsLeft(s) = 6 * (Len(queue[s]) + (MaxChanges - changes)) + 2
    BY <2>1 DEF StepsLeft, Phase
  <2>6. StepsLeft(s)' = 6 * (Len(queue'[s]) + (MaxChanges - changes)) + 5
    BY <2>1 DEF StepsLeft, Phase
  <2> QED
    BY <2>3, <2>4, <2>5, <2>6
<1>3. CASE NextError(s)
  <2>1. pc[s] = "next" /\ pc'[s] = "sleep" /\ UNCHANGED <<changes, queue>>
    BY <1>3, <1>p DEF NextError
  <2> QED
    BY <2>1, <1>a, <1>q DEF Phase
<1>4. CASE InstallChange(s) \/ RejectChange(s)
  <2>1. /\ pc[s] = "install" /\ pc'[s] \in {"capture", "sleep"}
        /\ UNCHANGED <<changes, queue>>
    BY <1>4, <1>p DEF InstallChange, RejectChange
  <2> QED
    BY <2>1, <1>a, <1>q DEF Phase
<1>5. CASE Wake(s)
  <2>1. pc[s] = "sleep" /\ pc'[s] = "done" /\ UNCHANGED changes
    BY <1>5, <1>p DEF Wake
  <2>2. Len(queue'[s]) = 0 /\ Len(queue[s]) \in Nat
    BY <1>5, <1>q DEF Wake
  <2> QED
    BY <2>1, <2>2, <1>a DEF Phase
<1>6. CASE Capture(s)
  <2>1. pc[s] = "capture" /\ pc'[s] = "send" /\ UNCHANGED <<changes, queue>>
    BY <1>6, <1>p DEF Capture
  <2> QED
    BY <2>1, <1>a, <1>q DEF Phase
<1>7. CASE UpdateDone(s)
  <2>1. pc[s] = "send" /\ pc'[s] = "next" /\ UNCHANGED <<changes, queue>>
    BY <1>7, <1>p DEF UpdateDone
  <2> QED
    BY <2>1, <1>a, <1>q DEF Phase
<1>8. ASSUME NEW w \in Watcher, CheckWatcher(s, w) \/ SendUpdate(s, w)
      PROVE  ServesOne(s)
  <2>1. pc[s] = "send" /\ UNCHANGED <<changes, queue, pc>>
    BY <1>8 DEF CheckWatcher, SendUpdate
  <2>2. StepsLeft(s)' = StepsLeft(s)
    BY <2>1, StepsRest
  <2>3. job \in [Proc -> [ver : Int, doc : Doc, todo : SUBSET Watcher,
                          now : SUBSET Watcher]]
    BY DEF TypeOK
  <2>4. CASE CheckWatcher(s, w)
    <3>1. w \in job[s].todo /\ job'[s].todo = job[s].todo \ {w}
      BY <2>3, <2>4, <1>p DEF CheckWatcher, Advance
    <3> QED
      BY <2>1, <2>2, <3>1 DEF ServesOne
  <2>5. CASE SendUpdate(s, w)
    <3>1. /\ job'[s].todo = job[s].todo
          /\ w \in job[s].now /\ job'[s].now = job[s].now \ {w}
      BY <2>3, <2>5, <1>p DEF SendUpdate, Advance
    <3> QED
      BY <2>1, <2>2, <3>1 DEF ServesOne
  <2> QED
    BY <1>8, <2>4, <2>5
<1> QED
  BY <1>1, <1>2, <1>3, <1>4, <1>5, <1>6, <1>7, <1>8 DEF Goroutine, Update

\* A change adds at most one to the channel, and is one the source has made.
LEMMA ChangesAreCounted ==
    ASSUME TypeOK, NEW s \in Source, NEW r \in Source, NEW cs \in ChangeSet,
           SourceChange(r, cs)
    PROVE  StepsLeft(s)' <= StepsLeft(s)
<1>1. pc' = pc /\ changes' = changes + 1 /\ changes < MaxChanges
  BY DEF SourceChange, CountChange
<1>2. queue \in [Source -> Seq(ChangeSet)]
  BY DEF TypeOK
<1>3. Len(queue'[s]) <= Len(queue[s]) + 1 /\ Len(queue'[s]) \in Nat
  <2>1. queue'[s] = queue[s] \/ queue'[s] = Append(queue[s], cs)
    BY <1>2 DEF SourceChange
  <2>2. queue[s] \in Seq(ChangeSet)
    BY <1>2
  <2>3. Len(Append(queue[s], cs)) = Len(queue[s]) + 1 /\ Len(queue[s]) \in Nat
    BY <2>2
  <2> QED
    BY <2>1, <2>3
<1>4. Len(queue[s]) \in Nat /\ changes \in Nat /\ Phase(pc[s]) \in 0..7
  BY StepsAreCounted
<1>5. StepsLeft(s)' = 6 * (Len(queue'[s]) + (MaxChanges - changes')) + Phase(pc[s])
  BY <1>1 DEF StepsLeft, Phase
<1> QED
  BY <1>1, <1>3, <1>4, <1>5, LoaderAssumption DEF StepsLeft

LEMMA RunsDownStep ==
    ASSUME TypeOK, TypeOK', LoadInv, [Next]_vars, NEW s \in Source
    PROVE  RunsDown(s)
<1> SUFFICES ASSUME closed, ~Goroutine(s) PROVE StepsLeft(s)' <= StepsLeft(s)
  BY GoroutineCounts, StepsAreCounted DEF RunsDown
<1> USE DEF sourceVars, counters, Goto, Proc
<1>p. s \in Proc /\ pc \in [Proc -> GoroutineLabels \cup CallerLabels]
  BY DEF TypeOK
<1>q. queue \in [Source -> Seq(ChangeSet)]
  BY DEF TypeOK
<1>k. ASSUME changes' = changes, queue'[s] = queue[s], pc'[s] = pc[s]
      PROVE  StepsLeft(s)' <= StepsLeft(s)
  BY <1>k, StepsRest, StepsAreCounted
<1>u. ASSUME NEW p \in Proc, p # s, Update(p) PROVE StepsLeft(s)' <= StepsLeft(s)
  <2>1. UNCHANGED <<queue, changes>>
    BY <1>u DEF Update, Capture, CheckWatcher, SendUpdate, UpdateDone
  <2>2. pc'[s] = pc[s]
    BY <1>u, <1>p DEF Update, Capture, CheckWatcher, SendUpdate, UpdateDone
  <2> QED
    BY <2>1, <2>2, <1>k
<1>1. ASSUME NEW r \in Source, Goroutine(r) PROVE StepsLeft(s)' <= StepsLeft(s)
  <2>1. r # s /\ r \in Proc
    BY <1>1
  <2>2. CASE Update(r)
    BY <2>1, <2>2, <1>u
  <2>3. CASE BeginWatch(r) \/ NextChange(r) \/ NextError(r)
    <3>1. UNCHANGED changes /\ queue'[s] = queue[s] /\ pc'[s] = pc[s]
      BY <2>1, <2>3, <1>p, <1>q DEF BeginWatch, NextChange, NextError
    <3> QED
      BY <3>1, <1>k
  <2>4. CASE InstallChange(r) \/ RejectChange(r) \/ Wake(r)
    <3>1. UNCHANGED changes /\ queue'[s] = queue[s] /\ pc'[s] = pc[s]
      BY <2>1, <2>4, <1>p, <1>q DEF InstallChange, RejectChange, Wake
    <3> QED
      BY <3>1, <1>k
  <2> QED
    BY <1>1, <2>2, <2>3, <2>4 DEF Goroutine
<1>2. ASSUME NEW r \in Source, StopSourceWatcher(r) PROVE StepsLeft(s)' <= StepsLeft(s)
  BY <1>2, <1>k DEF StopSourceWatcher
<1>3. ASSUME NEW r \in Source, NEW cs \in ChangeSet, SourceChange(r, cs)
      PROVE  StepsLeft(s)' <= StepsLeft(s)
  BY <1>3, ChangesAreCounted
<1>4. ASSUME NEW c \in Caller, API(c) PROVE StepsLeft(s)' <= StepsLeft(s)
  <2>1. c # s /\ c \in Proc
    BY LoaderAssumption
  <2>2. CASE LoadBegin(c) \/ Sync(c) \/ Close(c)
    <3>1. UNCHANGED <<changes, queue>> /\ pc'[s] = pc[s]
      BY <2>1, <2>2, <1>p DEF LoadBegin, Sync, Close, CountCall
    <3> QED
      BY <3>1, <1>k
  <2>3. CASE Reload(c)
    <3>1. UNCHANGED <<changes, queue>> /\ pc'[s] = pc[s]
      BY <2>1, <2>3, <1>p DEF Reload
    <3> QED
      BY <3>1, <1>k
  <2>4. ASSUME NEW r \in Source, LoadRead(c, r) PROVE StepsLeft(s)' <= StepsLeft(s)
    <3>1. UNCHANGED <<changes, queue>> /\ pc'[s] = pc[s]
      BY <2>1, <2>4, <1>p DEF LoadRead
    <3> QED
      BY <3>1, <1>k
  <2>5. ASSUME NEW r \in Source, LoadAppend(c, r) PROVE StepsLeft(s)' <= StepsLeft(s)
    <3>1. UNCHANGED <<changes, queue>>
      BY <2>5 DEF LoadAppend
    <3>2. CASE r # s
      <4>1. pc'[s] = pc[s]
        BY <2>1, <2>5, <3>2, <1>p DEF LoadAppend
      <4> QED
        BY <3>1, <4>1, <1>k
    <3>3. CASE r = s
      <4>1. pc[s] = "off" /\ pc'[s] = "watch"
        BY <2>1, <2>5, <3>3, <1>p DEF LoadAppend, LoadInv
      <4>2. Len(queue[s]) \in Nat
        BY StepsAreCounted
      <4> QED
        BY <3>1, <4>1, <4>2, PhaseDecides DEF Phase
    <3> QED
      BY <3>2, <3>3
  <2> QED
    BY <1>4, <2>2, <2>3, <2>4, <2>5 DEF API
<1>5. ASSUME NEW c \in Caller, Update(c) PROVE StepsLeft(s)' <= StepsLeft(s)
  BY <1>5, <1>u, LoaderAssumption
<1>6. ASSUME NEW w \in Watcher, Client(w) PROVE StepsLeft(s)' <= StepsLeft(s)
  BY <1>6, <1>k DEF Client, WatchGet, WatchRegister, NextUpdate, NextStale, StopWatcher,
     Deregister
<1>7. CASE UNCHANGED vars
  BY <1>7, <1>k DEF vars
<1> QED
  BY <1>1, <1>2, <1>3, <1>4, <1>5, <1>6, <1>7 DEF Next

\* Once the loader is closed, every step of a source's goroutine takes it closer to its
\* end, or serves one more of the watchers update() took down; no change of a source,
\* call or client takes it farther away (memory.go:57-127): the part of
\* CloseEndsGoroutines that needs no fairness.
THEOREM ClosedGoroutinesRunDown == Spec => [][\A s \in Source : RunsDown(s)]_vars
<1>1. TypeOK /\ TypeOK' /\ LoadInv /\ [Next]_vars => [\A s \in Source : RunsDown(s)]_vars
  BY RunsDownStep
<1>2. TypeOK /\ LoadInv /\ [Next]_vars => LoadInv'
  BY LoadStep
<1>3. Init => LoadInv
  BY DEF Init, LoadInv
<1> QED
  BY <1>1, <1>2, <1>3, TypeInit, TypeStep, PTL DEF Spec
===================================================================================
