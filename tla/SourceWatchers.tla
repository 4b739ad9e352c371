------------------------------ MODULE SourceWatchers ------------------------------
(***************************************************************************)
(* The sources whose content lives outside the program, and their watchers *)
(* (config/source/nats, config/source/file, config/source/noop.go and      *)
(* config/source/env), driven by the goroutine the loader runs for each    *)
(* source (config/loader/memory/memory.go, memory.watch).                  *)
(*                                                                         *)
(* A behaviour is about one source, of the kind chosen in Init:            *)
(*   "key"     a NATS key: the server sends every update to a subscription *)
(*             whose callback goroutine hands it to Next;                  *)
(*   "file"    a file: inotify reports changes of the file that is marked, *)
(*             and Next reads the path;                                    *)
(*   "static"  environment, flags, an fs.FS: Next only waits for Stop.     *)
(* Contents are numbered in the order in which the source has them.        *)
(***************************************************************************)
EXTENDS Naturals, Sequences

CONSTANTS
    Kinds,          \* the kinds of source to consider
    EventCap,       \* events the kernel queues for a watcher (16384)
    MaxChanges,     \* bound on changes of the source
    MaxFailures     \* bound on merges that fail

ASSUME WatchersAssumption ==
    /\ Kinds \subseteq {"key", "file", "static"}
    /\ EventCap \in Nat \ {0}
    /\ MaxChanges \in Nat /\ MaxFailures \in Nat

Watch == 1 .. MaxFailures + 1

VARIABLES
    kind,       \* which source this is
    version,    \* the number of its content; 0 for a key: it was never put
    readable,   \* the content passes Read: not too large (file), not empty (key)
    exists,     \* there is a file at the path
    held,       \* m.sets[idx]: the content the loader took last
    pc,         \* where memory.watch is
    watch,      \* the watchers of the source opened so far; the last is in use
    closed,     \* m.exit is closed
    exits,      \* watchers whose Stop was called
    failures,   \* merges that failed so far
    \* the key watcher
    wire,       \* wire[n]: entries on the subscription of watcher n, 0 the marker
    box,        \* box[n]: the change set its handle() is sending, 0 for none
    live,       \* watchers whose callback goroutine runs
    \* the file watcher
    marked,     \* the file at the path is one inotify reports about
    events,     \* events not yet received from fw.Events and fw.Errors
    hand,       \* what Next read
    \* history variable
    excused     \* since the last Read the file changed while nobody was in Next,
                \* or Next failed

originVars == <<kind, version, readable, exists>>
keyVars    == <<wire, box, live>>
fileVars   == <<marked, events, hand, excused>>
loopVars   == <<held, pc, watch, closed, exits, failures>>
vars == <<originVars, keyVars, fileVars, loopVars>>

Init ==
    /\ kind \in Kinds
    /\ version = 0 /\ readable = TRUE /\ exists = TRUE
    /\ held = 0 /\ pc = "load" /\ watch = 0 /\ closed = FALSE
    /\ exits = {} /\ failures = 0
    /\ wire = [n \in Watch |-> <<>>]
    /\ box = [n \in Watch |-> 0]
    /\ live = {}
    /\ marked = FALSE /\ events = <<>> /\ hand = 0 /\ excused = FALSE

(***************************************************************************)
(* The outside: the NATS server, the file system.                          *)
(***************************************************************************)

Changes ==
    /\ version < MaxChanges
    /\ version' = version + 1
    /\ readable' \in BOOLEAN
    /\ excused' = (excused \/ pc # "next")
    /\ UNCHANGED <<kind, hand, loopVars>>

\* A key is put, deleted or purged; every subscription is sent the entry.
PutKey ==
    /\ kind = "key"
    /\ Changes
    /\ wire' = [n \in Watch |-> IF n \in live THEN Append(wire[n], version') ELSE wire[n]]
    /\ UNCHANGED <<exists, box, live, marked, events>>

\* inotify reports about the marked file only.  When its queue is full it queues
\* one overflow in place of what it drops.
Report(reports) ==
    events' = IF ~marked THEN events
              ELSE IF Len(events) + Len(reports) <= EventCap THEN events \o reports
              ELSE Append(events, "overflow")

\* Another file takes the place of this one, or nothing does.  inotify reports the
\* lost link at once and the deletion when nobody has the old file open any more.
Unlink ==
    /\ \E reports \in {<<"other">>, <<"other", "other">>} : Report(reports)
    /\ marked' = FALSE

WriteFile  == exists /\ Report(<<"other">>) /\ UNCHANGED <<exists, marked>>
ReplaceFile == exists /\ Unlink /\ UNCHANGED exists
RemoveFile == exists /\ Unlink /\ exists' = FALSE
MoveFile   == exists /\ Report(<<"rename">>) /\ marked' = FALSE /\ exists' = FALSE
CreateFile == ~exists /\ exists' = TRUE /\ UNCHANGED <<events, marked>>

ChangeFile ==
    /\ kind = "file"
    /\ Changes
    /\ WriteFile \/ ReplaceFile \/ RemoveFile \/ MoveFile \/ CreateFile
    /\ UNCHANGED keyVars

(***************************************************************************)
(* The goroutine of the loader: memory.Load, memory.watch.                 *)
(***************************************************************************)

\* source.Read: a key that is absent reads as no change set, an empty one fails.
Readable == readable /\ exists

\* Load reads the source and starts the goroutine, or leaves the source out.
Load ==
    /\ pc = "load"
    /\ IF Readable
       THEN held' = version /\ pc' = "watch" /\ excused' = FALSE
       ELSE pc' = "ended" /\ UNCHANGED <<held, excused>>
    /\ UNCHANGED <<originVars, keyVars, marked, events, hand, watch, closed, exits,
                   failures>>

\* Mutated form of Replay: the subscription asks for new entries only.
ReplayNothing == <<>>

\* kv.Watch sends the present entry first, if there is one, then a marker.
Replay == IF version = 0 THEN <<0>> ELSE <<version, 0>>

OpenKey ==
    /\ kind = "key"
    /\ watch' = watch + 1
    /\ wire' = [wire EXCEPT ![watch'] = Replay]
    /\ live' = live \cup {watch'}
    /\ pc' = "next"
    /\ UNCHANGED <<box, exits, marked, events>>

\* file.Watch needs the file.  A new watcher has no marks and no events yet.
OpenFile ==
    /\ kind = "file" /\ exists
    /\ watch' = 1 /\ exits' = {}
    /\ marked' = FALSE /\ events' = <<>>
    /\ pc' = "add"
    /\ UNCHANGED keyVars

OpenStatic ==
    /\ kind = "static"
    /\ watch' = 1 /\ exits' = {}
    /\ pc' = "next"
    /\ UNCHANGED <<keyVars, marked, events>>

OpenWatch ==
    /\ pc = "watch"
    /\ OpenKey \/ OpenFile \/ OpenStatic
    /\ UNCHANGED <<originVars, held, closed, failures, hand, excused>>

\* file.Watch fails when there is no file, or no inotify instance to be had; the loop
\* sleeps and tries again, without a look at exit.
OpenFails ==
    /\ pc = "watch" /\ kind = "file"
    /\ UNCHANGED vars

\* fw.Add fails without a word when there is no file.
AddPath == marked' = exists

FirstAdd ==
    /\ pc = "add"
    /\ AddPath
    /\ pc' = "next"
    /\ UNCHANGED <<originVars, keyVars, events, hand, excused, held, watch, closed,
                   exits, failures>>

\* Next failed, or the merge did: sleep, then close(done).
Fail == pc' = "retry" /\ excused' = TRUE

\* What Next returned is saved, then merged with the other sources.
Save(v) ==
    /\ held' = v
    /\ \/ pc' = "next" /\ UNCHANGED <<failures, excused>>
       \/ failures < MaxFailures /\ failures' = failures + 1 /\ Fail

Retry ==
    /\ pc = "retry"
    /\ pc' = IF closed THEN "ended" ELSE "watch"
    /\ UNCHANGED <<originVars, keyVars, fileVars, held, watch, closed, exits, failures>>

\* Mutated form of NextStopped: the noop and file watchers look at exit, that of a key
\* does not.
NextOfKeyNeverStops ==
    /\ pc = "next" /\ watch \in exits /\ kind # "key"
    /\ Fail
    /\ UNCHANGED <<originVars, keyVars, marked, events, hand, held, watch, closed,
                   exits, failures>>

\* The select of Next finds exit closed, or the closed channels of fsnotify.
NextStopped ==
    /\ pc = "next" /\ watch \in exits
    /\ Fail
    /\ UNCHANGED <<originVars, keyVars, marked, events, hand, held, watch, closed,
                   exits, failures>>

\* Next of the key watcher receives what a callback is sending.
NextUpdate ==
    /\ kind = "key" /\ pc = "next" /\ box[watch] # 0
    /\ box' = [box EXCEPT ![watch] = 0]
    /\ Save(box[watch])
    /\ UNCHANGED <<originVars, wire, live, marked, events, hand, watch, closed, exits>>

\* Next of the file watcher receives an event.  After a rename it marks the path
\* again, if there is a file, before it reads.
NextEvent ==
    /\ kind = "file" /\ pc = "next" /\ events # <<>>
    /\ events' = Tail(events)
    /\ \/ Head(events) = "overflow" /\ Fail /\ UNCHANGED marked
       \/ /\ Head(events) # "overflow"
          /\ pc' = "read"
          /\ marked' = (marked \/ (Head(events) = "rename" /\ exists))
          /\ UNCHANGED excused
    /\ UNCHANGED <<originVars, keyVars, hand, held, watch, closed, exits, failures>>

ReadFile ==
    /\ pc = "read"
    /\ IF Readable
       THEN hand' = version /\ pc' = "readd" /\ excused' = FALSE
       ELSE Fail /\ UNCHANGED hand
    /\ UNCHANGED <<originVars, keyVars, marked, events, held, watch, closed, exits,
                   failures>>

\* Mutated form of AddAgain: the path is not added again, as in watcher.go, which the
\* other systems build.
AddOnlyOnce ==
    /\ pc = "readd"
    /\ Save(hand)
    /\ UNCHANGED <<originVars, keyVars, marked, events, hand, watch, closed, exits>>

\* Next adds the path again, which marks whatever file is there by now.
AddAgain ==
    /\ pc = "readd"
    /\ AddPath
    /\ Save(hand)
    /\ UNCHANGED <<originVars, keyVars, events, hand, watch, closed, exits>>

(***************************************************************************)
(* Other goroutines.                                                       *)
(***************************************************************************)

\* Mutated form of CallbackTake: every entry is handled in a goroutine of its own, so
\* any of them may be received first.
HandleConcurrently(n) ==
    /\ n \in live /\ box[n] = 0
    /\ \E i \in DOMAIN wire[n] :
         /\ box' = [box EXCEPT ![n] = wire[n][i]]
         /\ wire' = [wire EXCEPT ![n] = SubSeq(@, 1, i - 1) \o SubSeq(@, i + 1, Len(@))]
    /\ UNCHANGED <<originVars, fileVars, loopVars, live>>

\* The callback of watcher n takes an entry, drops the marker, and sends anything
\* else to Next; while it sends it does not look at exit.
CallbackTake(n) ==
    /\ n \in live /\ box[n] = 0 /\ wire[n] # <<>>
    /\ box' = [box EXCEPT ![n] = Head(wire[n])]
    /\ wire' = [wire EXCEPT ![n] = Tail(@)]
    /\ UNCHANGED <<originVars, fileVars, loopVars, live>>

CallbackExit(n) ==
    /\ n \in live /\ box[n] = 0 /\ n \in exits
    /\ live' = live \ {n}
    /\ UNCHANGED <<originVars, fileVars, loopVars, wire, box>>

\* The loop is done with watcher n: it closed done.
Abandoned(n) == n < watch \/ (n = watch /\ pc \in {"watch", "ended"})

\* Mutated form of StopWatcher: done is not closed when the loop opens another watcher.
StopWatcherAtCloseOnly(n) ==
    /\ n \in 1 .. watch \ exits
    /\ closed
    /\ exits' = exits \cup {n}
    /\ UNCHANGED <<originVars, keyVars, fileVars, held, pc, watch, closed, failures>>

\* The stop func of memory.watch calls Stop.
StopWatcher(n) ==
    /\ n \in 1 .. watch \ exits
    /\ closed \/ Abandoned(n)
    /\ exits' = exits \cup {n}
    /\ UNCHANGED <<originVars, keyVars, fileVars, held, pc, watch, closed, failures>>

\* memory.Close.
Close ==
    /\ ~closed
    /\ closed' = TRUE
    /\ UNCHANGED <<originVars, keyVars, fileVars, held, pc, watch, exits, failures>>

Goroutine ==
    Load \/ OpenWatch \/ FirstAdd \/ NextStopped \/ NextUpdate \/ NextEvent
    \/ ReadFile \/ AddAgain \/ Retry

Next ==
    \/ PutKey \/ ChangeFile \/ Close \/ Goroutine \/ OpenFails
    \/ \E n \in Watch : CallbackTake(n) \/ CallbackExit(n) \/ StopWatcher(n)

Spec == Init /\ [][Next]_vars

\* Goroutines run; a select with two cases ready does not choose one of them for
\* ever.  Nothing makes the source change or the loader close, and the Watch of a file
\* may fail each time it is tried.
Fairness ==
    /\ WF_vars(Load) /\ WF_vars(kind # "file" /\ OpenWatch) /\ WF_vars(FirstAdd)
    /\ WF_vars(NextStopped) /\ WF_vars(NextUpdate) /\ WF_vars(NextEvent)
    /\ WF_vars(ReadFile) /\ WF_vars(AddAgain) /\ WF_vars(Retry)
    /\ \A n \in Watch : WF_vars(CallbackTake(n)) /\ WF_vars(CallbackExit(n))
                        /\ WF_vars(StopWatcher(n))

FairSpec == Spec /\ Fairness

(***************************************************************************)
(* Properties.                                                             *)
(***************************************************************************)

\* The values of the variables; a callback that is sending has not ended, and every
\* subscription belongs to a watcher that was opened.
TypeOK ==
    /\ kind \in Kinds /\ version \in 0 .. MaxChanges
    /\ readable \in BOOLEAN /\ exists \in BOOLEAN /\ held \in 0 .. version
    /\ pc \in {"load", "watch", "add", "next", "read", "readd", "retry", "ended"}
    /\ watch \in 0 .. MaxFailures + 1 /\ closed \in BOOLEAN
    /\ exits \subseteq 1 .. watch /\ failures \in 0 .. MaxFailures
    /\ wire \in [Watch -> Seq(0 .. version)] /\ box \in [Watch -> 0 .. version]
    /\ live \subseteq 1 .. watch /\ \A n \in Watch : box[n] # 0 => n \in live
    /\ marked \in BOOLEAN /\ events \in Seq({"other", "rename", "overflow"})
    /\ hand \in 0 .. version /\ excused \in BOOLEAN

\* The loader waits in the Next of a watcher in use, and nothing is on its way to it.
Idle ==
    /\ pc = "next" /\ watch \notin exits
    /\ kind = "key" => wire[watch] = <<>> /\ box[watch] = 0
    /\ kind = "file" => events = <<>>

\* A watcher that waits with nothing on its way shows what the source contains, and a
\* file watcher would hear of the next change (nats/watcher.go, file/watcher_linux.go).
\* The only excuse a file has is a change while the loop was not in Next, or that
\* Next failed, since the file was last read.
NothingLostInNext ==
    Idle => \/ held = version /\ (kind = "file" => marked)
            \/ kind = "file" /\ excused

\* What the loader holds was a content of the source, and never goes back: the callback
\* hands entries over one by one, and a new subscription replays the newest only.
Origin == INSTANCE WatchedSource
HeldNeverGoesBack == Origin!Spec

\* Once the source rests the loader gets its content.  For a key that needs no read
\* after re-subscribing; a file may stay stale with the excuse above.
ChangesArrive ==
    <>[](\/ closed \/ pc = "ended" \/ held = version
         \/ kind = "file" /\ excused)

\* The goroutine and subscription of a key watcher that was given up end, unless it
\* was sending an update: then nobody receives, and it stays for ever.
CallbacksEnd ==
    \A n \in Watch : Abandoned(n) ~> (n \notin live \/ box[n] # 0)

\* Closing the loader ends the goroutine of the source, whatever kind it is, unless from
\* some time on the Watch of a file always fails: that loop never looks at exit.
CloseEndsWatch == (closed ~> pc = "ended") \/ <>[](kind = "file" /\ pc = "watch")
==================================================================================
