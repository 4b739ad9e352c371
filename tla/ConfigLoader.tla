------------------------------- MODULE ConfigLoader -------------------------------
(***************************************************************************)
(* The in-memory configuration loader (config/loader/memory/memory.go)     *)
(* with the sources it watches (config/source/memory).                     *)
(*                                                                         *)
(* Processes: one goroutine per loaded source (memory.watch), the callers  *)
(* of the loader's API (Load, Sync, Close), and the clients that open,     *)
(* read and stop watchers.  Every mutex section of the code is one step;   *)
(* what happens between two sections is not.                               *)
(***************************************************************************)
EXTENDS ConfigData

CONSTANTS
    Source,         \* the sources
    Given,          \* the sources passed to NewLoader, in order
    Flaky,          \* sources whose Read or Next may return an error
    Silent,         \* sources whose watcher never reports (env, flag)
    Unwatchable,    \* sources whose Watch always fails
    Caller,         \* goroutines that call Load, Sync and Close
    Watcher,        \* loader watchers
    Watches,        \* Watches[w]: the paths w watches
    InitialContent, \* what each source contains at first
    QueueCap,       \* capacity of a source watcher's channel (100)
    ClockSteps,     \* by how much the clock moves between two genVer calls
    MaxChanges,     \* bound on source changes
    MaxCalls        \* bound on Load and Sync calls

Proc == Source \cup Caller

ASSUME LoaderAssumption ==
    /\ Given \in Seq(Source)
    /\ Flaky \subseteq Source
    /\ Silent \subseteq Source
    /\ Unwatchable \subseteq Source
    /\ Source \cap Caller = {}
    /\ Watches \in [Watcher -> SUBSET Path]
    /\ InitialContent \in [Source -> ChangeSet]
    /\ QueueCap \in Nat \ {0}
    /\ ClockSteps \subseteq Int
    /\ MaxChanges \in Nat /\ MaxCalls \in Nat

VARIABLES
    content,    \* content[s]: what source s contains now
    queue,      \* queue[s]: changes in the channel of s's source watcher
    subscribed, \* subscribed[s]: s's source watcher exists and is not stopped
    sources,    \* m.sources, in order of loading
    sets,       \* m.sets: the last change set taken from each source
    loaded,     \* m.vals # nil
    snap,       \* m.snap, with the document m.vals was parsed from
    clock,      \* the clock genVer reads
    closed,     \* m.exit is closed
    pc,         \* where each goroutine and caller is
    hand,       \* the change set a process holds between two steps
    target,     \* the source a caller has read but not yet appended
    job,        \* the locals of update(): snapshot, watchers to go, one checked
    list,       \* m.watchers
    stage,      \* the life of each watcher
    seen,       \* watcher.version
    held,       \* watcher.value
    slot,       \* watcher.updates, a channel of capacity 1
    changes,    \* source changes so far
    calls,      \* Load and Sync calls so far
    \* history variables, read by properties only
    history,    \* every snapshot installed
    missed,     \* missed[w]: newest version w lost to a full channel
    unseen,     \* sources whose last change reached no source watcher
    pinned,     \* sources that did not change since the last complete Sync
    bySync      \* the current snapshot was installed by Sync

sourceVars  == <<content, queue, subscribed, unseen>>
mergeVars   == <<sources, sets>>
snapVars    == <<loaded, snap, clock, history, bySync>>
clientVars  == <<list, stage, seen, held>>
counters    == <<changes, calls>>
vars == <<sourceVars, mergeVars, snapVars, clientVars, closed, pc, hand,
          target, job, slot, counters, missed, pinned>>

Unloaded == [ver |-> 0, doc |-> EmptyDoc]
NoJob == [ver |-> 0, doc |-> EmptyDoc, todo |-> {}, now |-> {}]
Loaded == {sources[i] : i \in DOMAIN sources}
GivenSet == {Given[i] : i \in DOMAIN Given}

Init ==
    /\ content = InitialContent
    /\ queue = [s \in Source |-> <<>>]
    /\ subscribed = [s \in Source |-> FALSE]
    /\ unseen = {}
    /\ sources = Given
    /\ sets = [s \in Source |-> EmptyDoc]
    /\ loaded = FALSE /\ snap = Unloaded /\ clock = 0
    /\ history = {Unloaded} /\ bySync = FALSE
    /\ closed = FALSE
    /\ pc = [p \in Proc |-> IF p \in Caller THEN "idle"
                            ELSE IF p \in GivenSet THEN "watch" ELSE "off"]
    /\ hand = [p \in Proc |-> EmptyDoc]
    /\ target = [c \in Caller |-> {}]
    /\ job = [p \in Proc |-> NoJob]
    /\ list = {}
    /\ stage = [w \in Watcher |-> "new"]
    /\ seen = [w \in Watcher |-> 0]
    /\ held = [w \in Watcher |-> View(Watches[w], EmptyDoc)]
    /\ slot = [w \in Watcher |-> {}]
    /\ changes = 0 /\ calls = 0
    /\ missed = [w \in Watcher |-> 0]
    /\ pinned = {}

\* Mutated form of Newer: versions are not compared.
AlwaysNewer(next, cur) == TRUE

\* snapshotNewer
Newer(next, cur) == next > cur

\* The one-place channel of watcher w is free.
Room(w) == slot[w] = {}

Goto(p, label) == pc' = [pc EXCEPT ![p] = label]

CountChange == changes < MaxChanges /\ changes' = changes + 1 /\ UNCHANGED calls
CountCall   == calls < MaxCalls /\ calls' = calls + 1 /\ UNCHANGED changes

-----------------------------------------------------------------------------
(* Sources *)

\* A source changes and offers the change to its watcher, which drops it when
\* its channel is full (source/memory Update).
SourceChange(s, cs) ==
    /\ CountChange
    /\ cs # content[s]
    /\ content' = [content EXCEPT ![s] = cs]
    /\ IF subscribed[s] /\ s \notin Silent /\ Len(queue[s]) < QueueCap
       THEN /\ queue' = [queue EXCEPT ![s] = Append(@, cs)]
            /\ unseen' = unseen \ {s}
       ELSE /\ unseen' = unseen \cup {s}
            /\ UNCHANGED queue
    /\ pinned' = pinned \ {s}
    /\ UNCHANGED <<subscribed, mergeVars, snapVars, clientVars, closed, pc,
                   hand, target, job, slot, missed>>

-----------------------------------------------------------------------------
(* Installing a snapshot: the part of watch, reload and Sync under m.Lock *)

\* m.vals and m.snap are replaced together; the version is the clock's.
Install(doc, fromSync) ==
    /\ \E d \in ClockSteps : clock' = clock + d
    /\ loaded' = TRUE
    /\ snap' = [ver |-> clock', doc |-> doc]
    /\ history' = history \cup {snap'}
    /\ bySync' = fromSync

-----------------------------------------------------------------------------
(* update(): runs after the lock is released, by whoever installed *)

\* The same captured snapshot, with other watchers to go.
Advance(j, todo, now) ==
    [ver |-> j.ver, doc |-> j.doc, todo |-> todo, now |-> now]

\* The watchers to notify and the snapshot are read under one RLock.
Capture(p) ==
    /\ pc[p] = "capture"
    /\ job' = [job EXCEPT ![p] = [ver |-> snap.ver, doc |-> snap.doc,
                                  todo |-> list, now |-> {}]]
    /\ Goto(p, "send")
    /\ UNCHANGED <<sourceVars, mergeVars, snapVars, clientVars, closed, hand,
                   target, slot, counters, missed, pinned>>

\* The next watcher's version is compared with the captured one.
CheckWatcher(p, w) ==
    /\ pc[p] = "send" /\ job[p].now = {} /\ w \in job[p].todo
    /\ job' = [job EXCEPT ![p] =
                  Advance(@, @.todo \ {w},
                          IF Newer(job[p].ver, seen[w]) THEN {w} ELSE {})]
    /\ UNCHANGED <<sourceVars, mergeVars, snapVars, clientVars, closed, pc,
                   hand, target, slot, counters, missed, pinned>>

\* The value is sent without blocking: a full channel drops the new value.
SendUpdate(p, w) ==
    /\ pc[p] = "send" /\ w \in job[p].now
    /\ job' = [job EXCEPT ![p] = Advance(@, @.todo, @.now \ {w})]
    /\ IF Room(w)
       THEN /\ slot' = [slot EXCEPT ![w] = @ \cup
                  {[ver |-> job[p].ver, val |-> View(Watches[w], job[p].doc)]}]
            /\ UNCHANGED missed
       ELSE /\ missed' = [missed EXCEPT ![w] =
                             IF job[p].ver > @ THEN job[p].ver ELSE @]
            /\ UNCHANGED slot
    /\ UNCHANGED <<sourceVars, mergeVars, snapVars, clientVars, closed, pc,
                   hand, target, counters, pinned>>

\* All watchers served: the goroutine waits for the next change, a caller
\* returns.
UpdateDone(p) ==
    /\ pc[p] = "send" /\ job[p].now = {} /\ job[p].todo = {}
    /\ job' = [job EXCEPT ![p] = NoJob]
    /\ Goto(p, IF p \in Source THEN "next" ELSE "idle")
    /\ UNCHANGED <<sourceVars, mergeVars, snapVars, clientVars, closed, hand,
                   target, slot, counters, missed, pinned>>

Update(p) ==
    \/ Capture(p)
    \/ \E w \in Watcher : CheckWatcher(p, w) \/ SendUpdate(p, w)
    \/ UpdateDone(p)

-----------------------------------------------------------------------------
(* memory.watch: the goroutine of one source *)

\* source.Watch succeeds.  Until it does the goroutine retries each second,
\* whether or not the loader was closed.
BeginWatch(s) ==
    /\ pc[s] = "watch" /\ s \notin Unwatchable
    /\ subscribed' = [subscribed EXCEPT ![s] = TRUE]
    /\ queue' = [queue EXCEPT ![s] = <<>>]
    /\ Goto(s, "next")
    /\ UNCHANGED <<content, unseen, mergeVars, snapVars, clientVars, closed,
                   hand, target, job, slot, counters, missed, pinned>>

\* Next returns a change.  It may do so even after Stop: select is random.
NextChange(s) ==
    /\ pc[s] = "next" /\ queue[s] # <<>>
    /\ hand' = [hand EXCEPT ![s] = Head(queue[s])]
    /\ queue' = [queue EXCEPT ![s] = Tail(@)]
    /\ Goto(s, "install")
    /\ UNCHANGED <<content, subscribed, unseen, mergeVars, snapVars,
                   clientVars, closed, target, job, slot, counters, missed, pinned>>

\* Next returns an error: the source watcher was stopped, or it failed.
NextError(s) ==
    /\ pc[s] = "next"
    /\ ~subscribed[s] \/ s \in Flaky
    /\ Goto(s, "sleep")
    /\ UNCHANGED <<sourceVars, mergeVars, snapVars, clientVars, closed, hand,
                   target, job, slot, counters, missed, pinned>>

\* Mutated form of InstallChange: the merge runs before the change is saved.
InstallBeforeSave(s) ==
    /\ pc[s] = "install"
    /\ sets' = [sets EXCEPT ![s] = hand[s]]
    /\ Mergeable(sources, sets) /\ Mergeable(sources, sets')
    /\ Install(Merge(sources, sets), FALSE)
    /\ hand' = [hand EXCEPT ![s] = EmptyDoc]
    /\ Goto(s, "capture")
    /\ UNCHANGED <<sourceVars, sources, clientVars, closed, target, job, slot,
                   counters, missed, pinned>>

\* The change is saved and all sets are merged.
InstallChange(s) ==
    /\ pc[s] = "install"
    /\ sets' = [sets EXCEPT ![s] = hand[s]]
    /\ Mergeable(sources, sets')
    /\ Install(Merge(sources, sets'), FALSE)
    /\ hand' = [hand EXCEPT ![s] = EmptyDoc]
    /\ Goto(s, "capture")
    /\ UNCHANGED <<sourceVars, sources, clientVars, closed, target, job, slot,
                   counters, missed, pinned>>

\* Mutated form of RejectChange: the set that made the merge fail is not saved.
RejectUnsaved(s) ==
    /\ pc[s] = "install"
    /\ ~Mergeable(sources, [sets EXCEPT ![s] = hand[s]])
    /\ hand' = [hand EXCEPT ![s] = EmptyDoc]
    /\ Goto(s, "sleep")
    /\ UNCHANGED <<sourceVars, mergeVars, snapVars, clientVars, closed, target,
                   job, slot, counters, missed, pinned>>

\* The merge fails, because this source or another holds a bad change set.
\* The change stays saved; the goroutine drops its watcher and backs off.
RejectChange(s) ==
    /\ pc[s] = "install"
    /\ sets' = [sets EXCEPT ![s] = hand[s]]
    /\ ~Mergeable(sources, sets')
    /\ hand' = [hand EXCEPT ![s] = EmptyDoc]
    /\ Goto(s, "sleep")
    /\ UNCHANGED <<sourceVars, sources, snapVars, clientVars, closed, target,
                   job, slot, counters, missed, pinned>>

\* Mutated form of Wake: m.exit is not consulted.
WakeForever(s) ==
    /\ pc[s] = "sleep"
    /\ subscribed' = [subscribed EXCEPT ![s] = FALSE]
    /\ queue' = [queue EXCEPT ![s] = <<>>]
    /\ unseen' = IF queue[s] = <<>> THEN unseen ELSE unseen \cup {s}
    /\ Goto(s, "watch")
    /\ UNCHANGED <<content, mergeVars, snapVars, clientVars, closed, hand,
                   target, job, slot, counters, missed, pinned>>

\* After the sleep the source watcher is stopped, with the changes left in its
\* channel, and the goroutine ends or watches again, without reading the source.
Wake(s) ==
    /\ pc[s] = "sleep"
    /\ subscribed' = [subscribed EXCEPT ![s] = FALSE]
    /\ queue' = [queue EXCEPT ![s] = <<>>]
    /\ unseen' = IF queue[s] = <<>> THEN unseen ELSE unseen \cup {s}
    /\ Goto(s, IF closed THEN "done" ELSE "watch")
    /\ UNCHANGED <<content, mergeVars, snapVars, clientVars, closed,
                   hand, target, job, slot, counters, missed, pinned>>

\* The helper goroutine stops the source watcher once the loader is closed.
StopSourceWatcher(s) ==
    /\ closed /\ subscribed[s]
    /\ subscribed' = [subscribed EXCEPT ![s] = FALSE]
    /\ UNCHANGED <<content, queue, unseen, mergeVars, snapVars, clientVars,
                   closed, pc, hand, target, job, slot, counters, missed, pinned>>

Goroutine(s) ==
    \/ BeginWatch(s) \/ NextChange(s) \/ NextError(s)
    \/ InstallChange(s) \/ RejectChange(s) \/ Wake(s)
    \/ Update(s)

-----------------------------------------------------------------------------
(* Load: read each source, append it and start its goroutine, then reload *)

LoadBegin(c) ==
    /\ pc[c] = "idle"
    /\ CountCall
    /\ Goto(c, "load")
    /\ UNCHANGED <<sourceVars, mergeVars, snapVars, clientVars, closed, hand,
                   target, job, slot, missed, pinned>>

\* A source is loaded once.  (When Read fails the loop goes on, and nothing
\* changes.)
LoadRead(c, s) ==
    /\ pc[c] = "load"
    /\ pc[s] = "off" /\ \A d \in Caller : s \notin target[d]
    /\ hand' = [hand EXCEPT ![c] = content[s]]
    /\ target' = [target EXCEPT ![c] = {s}]
    /\ unseen' = unseen \ {s}
    /\ Goto(c, "append")
    /\ UNCHANGED <<content, queue, subscribed, mergeVars, snapVars, clientVars,
                   closed, job, slot, counters, missed, pinned>>

LoadAppend(c, s) ==
    /\ pc[c] = "append" /\ s \in target[c]
    /\ sources' = Append(sources, s)
    /\ sets' = [sets EXCEPT ![s] = hand[c]]
    /\ hand' = [hand EXCEPT ![c] = EmptyDoc]
    /\ target' = [target EXCEPT ![c] = {}]
    /\ pc' = [pc EXCEPT ![c] = "load", ![s] = "watch"]
    /\ UNCHANGED <<sourceVars, snapVars, clientVars, closed, job, slot, counters,
                   missed, pinned>>

\* Mutated form of Reload: the watchers are not notified.
ReloadQuietly(c) ==
    /\ pc[c] = "load"
    /\ IF Mergeable(sources, sets)
       THEN Install(Merge(sources, sets), FALSE)
       ELSE UNCHANGED snapVars
    /\ Goto(c, "idle")
    /\ UNCHANGED <<sourceVars, mergeVars, clientVars, closed, hand, target,
                   job, slot, counters, missed, pinned>>

\* reload: merges the saved sets; a bad set makes Load return an error with
\* the source and its goroutine in place.
Reload(c) ==
    /\ pc[c] = "load"
    /\ IF Mergeable(sources, sets)
       THEN Install(Merge(sources, sets), FALSE) /\ Goto(c, "capture")
       ELSE Goto(c, "idle") /\ UNCHANGED snapVars
    /\ UNCHANGED <<sourceVars, mergeVars, clientVars, closed, hand, target,
                   job, slot, counters, missed, pinned>>

-----------------------------------------------------------------------------
(* Sync, Close *)

\* Sync reads every source under m.Lock, leaving out those that fail, and
\* installs the merge without saving what it read in m.sets.  Snapshot, Get
\* and Watch call it first while nothing is loaded.  (When the merge fails it
\* returns an error and nothing changes.)
Sync(c) ==
    /\ pc[c] = "idle"
    /\ CountCall
    /\ \E failed \in SUBSET (Flaky \cap Loaded) :
         LET read == [s \in Source |-> IF s \in failed THEN EmptyDoc
                                       ELSE content[s]]
         IN  /\ Mergeable(sources, read)
             /\ Install(Merge(sources, read), TRUE)
             /\ pinned' = Loaded \ failed
    /\ Goto(c, "capture")
    /\ UNCHANGED <<sourceVars, mergeVars, clientVars, closed, hand, target,
                   job, slot, missed>>

Close(c) ==
    /\ pc[c] = "idle" /\ ~closed
    /\ closed' = TRUE
    /\ UNCHANGED <<sourceVars, mergeVars, snapVars, clientVars, pc, hand,
                   target, job, slot, counters, missed, pinned>>

API(c) ==
    \/ LoadBegin(c) \/ Reload(c) \/ Sync(c) \/ Close(c)
    \/ \E s \in Source : LoadRead(c, s) \/ LoadAppend(c, s)

-----------------------------------------------------------------------------
(* Loader watchers *)

\* Watch reads the value under one lock ...
WatchGet(w) ==
    /\ stage[w] = "new" /\ loaded
    /\ stage' = [stage EXCEPT ![w] = "opening"]
    /\ held' = [held EXCEPT ![w] = View(Watches[w], snap.doc)]
    /\ UNCHANGED <<sourceVars, mergeVars, snapVars, list, seen, closed, pc,
                   hand, target, job, slot, counters, missed, pinned>>

\* ... and takes the version and joins the list under another.
WatchRegister(w) ==
    /\ stage[w] = "opening"
    /\ stage' = [stage EXCEPT ![w] = "live"]
    /\ seen' = [seen EXCEPT ![w] = snap.ver]
    /\ list' = list \cup {w}
    /\ UNCHANGED <<sourceVars, mergeVars, snapVars, held, closed, pc, hand,
                   target, job, slot, counters, missed, pinned>>

\* Next receives an update newer than the watcher's version: it becomes the
\* watcher's version and value (and is returned if the value differs).
NextUpdate(w) ==
    /\ stage[w] \in {"live", "stopped"}
    /\ \E u \in slot[w] :
         /\ Newer(u.ver, seen[w])
         /\ seen' = [seen EXCEPT ![w] = u.ver]
         /\ held' = [held EXCEPT ![w] = u.val]
    /\ slot' = [slot EXCEPT ![w] = {}]
    /\ UNCHANGED <<sourceVars, mergeVars, snapVars, list, stage, closed, pc,
                   hand, target, job, counters, missed, pinned>>

\* Next receives an update that is no longer newer, and drops it.
NextStale(w) ==
    /\ stage[w] \in {"live", "stopped"}
    /\ \E u \in slot[w] : ~Newer(u.ver, seen[w])
    /\ slot' = [slot EXCEPT ![w] = {}]
    /\ UNCHANGED <<sourceVars, mergeVars, snapVars, clientVars, closed, pc,
                   hand, target, job, counters, missed, pinned>>

StopWatcher(w) ==
    /\ stage[w] = "live"
    /\ stage' = [stage EXCEPT ![w] = "stopped"]
    /\ UNCHANGED <<sourceVars, mergeVars, snapVars, list, seen, held, closed,
                   pc, hand, target, job, slot, counters, missed, pinned>>

\* Mutated form of Deregister: it waits for the loader's exit.
DeregisterOnClose(w) ==
    /\ stage[w] = "stopped" /\ w \in list /\ closed
    /\ list' = list \ {w}
    /\ UNCHANGED <<sourceVars, mergeVars, snapVars, stage, seen, held, closed,
                   pc, hand, target, job, slot, counters, missed, pinned>>

\* The watcher's own goroutine takes it off the list after Stop.
Deregister(w) ==
    /\ stage[w] = "stopped" /\ w \in list
    /\ list' = list \ {w}
    /\ UNCHANGED <<sourceVars, mergeVars, snapVars, stage, seen, held, closed,
                   pc, hand, target, job, slot, counters, missed, pinned>>

Client(w) ==
    \/ WatchGet(w) \/ WatchRegister(w) \/ NextUpdate(w) \/ NextStale(w)
    \/ StopWatcher(w) \/ Deregister(w)

-----------------------------------------------------------------------------
Next ==
    \/ \E s \in Source : Goroutine(s) \/ StopSourceWatcher(s)
    \/ \E s \in Source, cs \in ChangeSet : SourceChange(s, cs)
    \/ \E c \in Caller : API(c) \/ Update(c)
    \/ \E w \in Watcher : Client(w)

Spec == Init /\ [][Next]_vars

\* Scheduling: a goroutine that can take a step eventually takes one, a caller
\* finishes the call it is in, and a client keeps calling Next.
Fairness ==
    /\ \A s \in Source :
         WF_vars(Goroutine(s)) /\ WF_vars(StopSourceWatcher(s))
    /\ \A c \in Caller :
         /\ WF_vars(Update(c)) /\ WF_vars(Reload(c))
         /\ \A s \in Source : WF_vars(LoadAppend(c, s))
    /\ \A w \in Watcher :
         /\ WF_vars(WatchRegister(w)) /\ WF_vars(Deregister(w))
         /\ WF_vars(NextUpdate(w) \/ NextStale(w))

FairSpec == Spec /\ Fairness

-----------------------------------------------------------------------------
(* Properties *)

Snapshots == [ver : Int, doc : Doc]
Updates(w) == [ver : Int, val : [Watches[w] -> Value \cup {None}]]

GoroutineLabels == {"off", "watch", "next", "install", "capture", "send",
                    "sleep", "done"}
CallerLabels == {"idle", "load", "append", "capture", "send"}

\* Types; a watcher's channel never holds more than one update, and a source
\* watcher's never more than QueueCap.
TypeOK ==
    /\ content \in [Source -> ChangeSet]
    /\ queue \in [Source -> Seq(ChangeSet)]
    /\ \A s \in Source : Len(queue[s]) <= QueueCap
    /\ subscribed \in [Source -> BOOLEAN]
    /\ sources \in Seq(Source)
    /\ sets \in [Source -> ChangeSet]
    /\ loaded \in BOOLEAN /\ snap \in Snapshots /\ clock \in Int
    /\ closed \in BOOLEAN
    /\ pc \in [Proc -> GoroutineLabels \cup CallerLabels]
    /\ \A s \in Source : pc[s] \in GoroutineLabels
    /\ \A c \in Caller : pc[c] \in CallerLabels
    /\ hand \in [Proc -> ChangeSet]
    /\ target \in [Caller -> SUBSET Source]
    /\ job \in [Proc -> [ver : Int, doc : Doc, todo : SUBSET Watcher,
                         now : SUBSET Watcher]]
    /\ list \subseteq Watcher
    /\ stage \in [Watcher -> {"new", "opening", "live", "stopped"}]
    /\ seen \in [Watcher -> Int]
    /\ DOMAIN held = Watcher /\ DOMAIN slot = Watcher
    /\ \A w \in Watcher :
         /\ held[w] \in [Watches[w] -> Value \cup {None}]
         /\ slot[w] \subseteq Updates(w)
         /\ \A u1, u2 \in slot[w] : u1 = u2
    /\ changes \in 0..MaxChanges /\ calls \in 0..MaxCalls
    /\ history \subseteq Snapshots
    /\ missed \in [Watcher -> Int]
    /\ unseen \subseteq Source /\ pinned \subseteq Source
    /\ bySync \in BOOLEAN

\* An update with the current version, or a capture of it, is on its way to w.
Coming(w) ==
    \/ \E u \in slot[w] : u.ver >= snap.ver
    \/ \E p \in Proc :
         \/ pc[p] = "capture"
         \/ /\ pc[p] = "send" /\ job[p].ver >= snap.ver
            /\ w \in job[p].todo \cup job[p].now

\* A live watcher has reached the current version, or an update that will take
\* it there is on its way, or that very update was dropped at its full channel
\* (memory.update, :198-201).  There is no other way to fall behind, whatever
\* the interleaving of installs, captures, sends, Watch and Next.
NoSilentStaleness ==
    \A w \in list : stage[w] = "live" =>
        seen[w] >= snap.ver \/ missed[w] >= snap.ver \/ Coming(w)

\* Source s has a watcher and its goroutine is between Watch and back-off.
Watched(s) == pc[s] \in {"next", "install", "capture", "send"} /\ subscribed[s]

\* The newest change set the loader has, or will get, from source s.
Newest(s) ==
    IF queue[s] # <<>> THEN queue[s][Len(queue[s])]
    ELSE IF pc[s] = "install" THEN hand[s] ELSE sets[s]

\* While a source is watched, its last change is in the channel, in the
\* goroutine's hand or saved in m.sets, unless it happened when nobody was
\* subscribed, found the channel full, or was left in it by a back-off
\* (memory.watch, :92-95, :109-116).
NoSilentSourceLoss ==
    \A s \in Source :
        Watched(s) /\ s \in Loaded /\ s \notin unseen \cup Silent \cup GivenSet
            => Newest(s) = content[s]

\* Whenever the saved sets can be merged, the current snapshot is their merge,
\* unless Sync installed it or a Load is still to merge what it appended: a
\* change saved while another source held a bad change set is not lost, it
\* shows as soon as that source is repaired (memory.watch, :67-79).
ViewIsMergeOfSets ==
    loaded /\ ~bySync /\ Mergeable(sources, sets)
           /\ (\A c \in Caller : pc[c] \notin {"load", "append"})
        => snap.doc = Merge(sources, sets)

\* The loader is a versioned feed: versions of snapshots and watchers only
\* advance, and a watcher is only shown its part of an installed snapshot.
OpenWatchers == {w \in Watcher : stage[w] \in {"live", "stopped"}}
ShownView == [w \in Watcher |-> IF w \in OpenWatchers THEN held[w]
                                ELSE View(Watches[w], EmptyDoc)]
Feed == INSTANCE VersionedFeed
            WITH current <- snap, history <- history, open <- OpenWatchers,
                 seen <- seen, shown <- ShownView
FeedSpec == Feed!Spec

\* Once the loader is closed the goroutine of every source ends, when Watch
\* succeeds (memory.Close and memory.watch, :118-126).
CloseEndsGoroutines ==
    \A s \in Source : (closed /\ pc[s] # "off") ~> (pc[s] = "done")

\* A watcher that is read reaches every version installed while it is live,
\* or a later one, unless it lost it to its full channel.
WatchersCatchUp ==
    \A w \in Watcher, v \in 1..(MaxChanges + MaxCalls) :
        (stage[w] = "live" /\ snap.ver = v)
            ~> (seen[w] >= v \/ missed[w] >= v \/ stage[w] = "stopped")

\* A stopped watcher leaves the loader's list.
StoppedWatchersLeave ==
    \A w \in Watcher : (stage[w] = "stopped") ~> (w \notin list)

-----------------------------------------------------------------------------
(* What the documents say, and the code does not do *)

Quiescent ==
    /\ \A p \in Proc : pc[p] \in {"idle", "off", "next", "done"}
    /\ \A s \in Source : queue[s] = <<>>
    /\ \A w \in Watcher : slot[w] = {}

\* "Watch for changes" (loader.go:21): when nothing is in flight every live
\* watcher has received the newest snapshot, or shows the same value.
IdleWatchersReceivedNewest ==
    Quiescent => \A w \in Watcher : stage[w] = "live" =>
        \/ seen[w] >= snap.ver
        \/ held[w] = View(Watches[w], snap.doc)

\* "Sync() re-reads the sources and refreshes the view" (config/README.md:149):
\* a source that did not change since stays in effect.
SyncedSourcesStayInEffect ==
    LET latest == [s \in Source |-> IF s \in pinned THEN content[s]
                                    ELSE sets[s]]
    IN  Quiescent /\ ~closed /\ pinned # {} /\ Mergeable(sources, latest)
            => snap.doc = Merge(sources, latest)
===================================================================================
