------------------------------ MODULE VersionedFeed ------------------------------
(***************************************************************************)
(* What a configuration loader promises its watchers                       *)
(* (config/loader/loader.go): snapshots with increasing versions, and      *)
(* watchers that each see some of them, in order.                          *)
(*                                                                         *)
(* The feed is lossy: a watcher may skip snapshots, and may be opened      *)
(* showing the content of a snapshot older than the version it starts      *)
(* from.  It never goes back, and never shows what was not published.      *)
(* ConfigLoader implements this module; HotConfig is built on it.          *)
(***************************************************************************)
EXTENDS ConfigData

CONSTANTS
    Watcher,    \* the watchers clients may open
    Watches     \* Watches[w]: the paths w watches

ASSUME FeedAssumption == Watches \in [Watcher -> SUBSET Path]

VARIABLES
    current,    \* the newest snapshot, [ver, doc]
    history,    \* every snapshot published so far
    open,       \* the watchers that were opened
    seen,       \* seen[w]: the version w has reached
    shown       \* shown[w]: what w shows its client

feedVars == <<current, history, open, seen, shown>>

\* Version 0 stands for "nothing loaded yet".
Unloaded == [ver |-> 0, doc |-> EmptyDoc]

ShownBy(w, s) == View(Watches[w], s.doc)

Init ==
    /\ current = Unloaded
    /\ history = {Unloaded}
    /\ open = {}
    /\ seen = [w \in Watcher |-> 0]
    /\ shown = [w \in Watcher |-> ShownBy(w, Unloaded)]

\* A snapshot with a newer version becomes the current one.
Publish ==
    /\ current'.doc \in Doc
    /\ current'.ver > current.ver
    /\ history' = history \cup {current'}
    /\ UNCHANGED <<open, seen, shown>>

\* A watcher starts from the current version.  The content it is opened with
\* was read earlier: it is that of some published snapshot.
Open(w) ==
    /\ w \notin open
    /\ open' = open \cup {w}
    /\ seen' = [seen EXCEPT ![w] = current.ver]
    /\ \E s \in history : shown' = [shown EXCEPT ![w] = ShownBy(w, s)]
    /\ UNCHANGED <<current, history>>

\* An open watcher advances to a published snapshot newer than all it has seen.
Accept(w) ==
    /\ w \in open
    /\ \E s \in history :
         /\ s.ver > seen[w]
         /\ seen' = [seen EXCEPT ![w] = s.ver]
         /\ shown' = [shown EXCEPT ![w] = ShownBy(w, s)]
    /\ UNCHANGED <<current, history, open>>

Next == Publish \/ \E w \in Watcher : Open(w) \/ Accept(w)

Spec == Init /\ [][Next]_feedVars
==================================================================================
