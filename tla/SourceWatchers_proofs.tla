-------------------------- MODULE SourceWatchers_proofs --------------------------
(***************************************************************************)
(* Proofs about SourceWatchers, for any kinds of source and any bounds:    *)
(* its type invariant, that it implements WatchedSource, and that nothing  *)
(* is lost while its loop waits.                                           *)
(***************************************************************************)
EXTENDS SourceWatchers, TLAPS

-----------------------------------------------------------------------------
(* The invariant, in parts *)

VersionOK ==
    /\ version \in 0 .. MaxChanges
    /\ held \in 0 .. version /\ hand \in 0 .. version

FlagsOK ==
    /\ kind \in Kinds /\ readable \in BOOLEAN /\ exists \in BOOLEAN
    /\ closed \in BOOLEAN /\ marked \in BOOLEAN /\ excused \in BOOLEAN

EventsOK == events \in Seq({"other", "rename", "overflow"})

\* The loop opens another watcher of a key only after a merge has failed, or when the
\* loader was closed, and then it does not come back to open one more.
LoopOK ==
    /\ pc \in {"load", "watch", "add", "next", "read", "readd", "retry", "ended"}
    /\ watch \in 0 .. MaxFailures + 1 /\ failures \in 0 .. MaxFailures
    /\ exits \subseteq 1 .. watch /\ live \subseteq 1 .. watch
    /\ pc = "load" => watch = 0
    /\ pc \in {"add", "next", "read", "readd", "retry"} => watch >= 1
    /\ pc \in {"add", "read", "readd"} => kind = "file"
    /\ kind # "key" => live = {} /\ watch <= 1
    /\ kind = "key" =>
         /\ watch <= failures + 1
         /\ pc = "watch" => watch <= failures
         /\ pc = "retry" => closed \/ watch <= failures
         /\ pc = "next" => closed \/ watch \notin exits

WireOK ==
    /\ wire \in [Watch -> Seq(0 .. version)] /\ box \in [Watch -> 0 .. version]
    /\ \A n \in Watch : box[n] # 0 => n \in live
    /\ kind # "key" => \A n \in Watch : wire[n] = <<>>

\* What is on its way to the loop, in the order in which it will arrive: what is on the
\* wire is newer than what the callback sends, and neither is older than what is held.
InOrder ==
    /\ \A n \in Watch : \A i \in DOMAIN wire[n] : wire[n][i] # 0 =>
         /\ box[n] <= wire[n][i]
         /\ n = watch => held <= wire[n][i]
         /\ \A j \in DOMAIN wire[n] : i < j /\ wire[n][j] # 0 => wire[n][i] <= wire[n][j]
    /\ \A n \in Watch : n = watch /\ box[n] # 0 => held <= box[n]
    /\ pc = "readd" => held <= hand

WatchersInv == VersionOK /\ FlagsOK /\ EventsOK /\ LoopOK /\ WireOK /\ InOrder

Bounds == MaxChanges \in Nat /\ MaxFailures \in Nat

LEMMA TypesFollow == WatchersInv => TypeOK
BY DEF WatchersInv, TypeOK, VersionOK, FlagsOK, EventsOK, LoopOK, WireOK

LEMMA BoundsHold == Bounds
BY WatchersAssumption DEF Bounds

LEMMA InitHolds == Init => WatchersInv
<1> SUFFICES ASSUME Init PROVE WatchersInv
  OBVIOUS
<1>1. VersionOK /\ FlagsOK /\ EventsOK
  <2>1. VersionOK
    BY BoundsHold DEF Init, VersionOK, Bounds
  <2>2. FlagsOK
    BY DEF Init, FlagsOK
  <2>3. EventsOK
    BY DEF Init, EventsOK
  <2> QED
    BY <2>1, <2>2, <2>3
<1>2. LoopOK
  BY BoundsHold DEF Init, LoopOK, Bounds
<1>3. wire = [n \in Watch |-> <<>>] /\ box = [n \in Watch |-> 0] /\ version = 0
  BY DEF Init
<1>4. WireOK
  BY <1>3 DEF WireOK
<1>5. InOrder
  BY <1>3 DEF InOrder, Init
<1> QED
  BY <1>1, <1>2, <1>4, <1>5 DEF WatchersInv

-----------------------------------------------------------------------------
(* Changes of the source *)

LEMMA SequencesGrow ==
    ASSUME NEW a \in Nat, NEW s \in Seq(0 .. a)
    PROVE  s \in Seq(0 .. a + 1) /\ Append(s, a + 1) \in Seq(0 .. a + 1)
<1>1. \A i \in 1 .. Len(s) : s[i] \in 0 .. a + 1
  OBVIOUS
<1>2. s \in Seq(0 .. a + 1)
  BY <1>1
<1> QED
  BY <1>2

LEMMA Appended ==
    ASSUME NEW a \in Nat, NEW s \in Seq(0 .. a), NEW t, t = Append(s, a + 1)
    PROVE  /\ DOMAIN s = 1 .. Len(s) /\ Len(s) \in Nat
           /\ DOMAIN t = 1 .. Len(s) + 1
           /\ \A j \in DOMAIN s : t[j] = s[j] /\ s[j] \in 0 .. a
           /\ t[Len(s) + 1] = a + 1
OBVIOUS

LEMMA PutKeyHolds ==
    ASSUME WatchersInv, PutKey
    PROVE  WatchersInv'
<1>1. /\ version' = version + 1 /\ version < MaxChanges /\ version \in Nat
      /\ readable' \in BOOLEAN /\ excused' = (excused \/ pc # "next")
      /\ UNCHANGED <<kind, hand, held, pc, watch, closed, exits, failures>>
      /\ UNCHANGED <<exists, box, live, marked, events>> /\ kind = "key"
      /\ wire' = [n \in Watch |-> IF n \in live THEN Append(wire[n], version + 1) ELSE wire[n]]
  BY DEF PutKey, Changes, loopVars, WatchersInv, VersionOK
<1>2. VersionOK'
  BY <1>1, BoundsHold DEF WatchersInv, VersionOK, Bounds
<1>3. FlagsOK' /\ EventsOK'
  BY <1>1 DEF WatchersInv, FlagsOK, EventsOK
<1>4. LoopOK'
  BY <1>1 DEF WatchersInv, LoopOK
<1>5. ASSUME NEW n \in Watch
      PROVE  /\ wire[n] \in Seq(0 .. version) /\ wire'[n] \in Seq(0 .. version')
             /\ box[n] \in 0 .. version
             /\ wire'[n] = wire[n] \/ wire'[n] = Append(wire[n], version')
  BY <1>1, SequencesGrow DEF WatchersInv, WireOK
<1>6. WireOK'
  BY <1>1, <1>5 DEF WatchersInv, WireOK
<1>7. ASSUME NEW n \in Watch, NEW i \in DOMAIN wire'[n], wire'[n][i] # 0
      PROVE  /\ box'[n] <= wire'[n][i]
             /\ n = watch' => held' <= wire'[n][i]
             /\ \A j \in DOMAIN wire'[n] :
                  i < j /\ wire'[n][j] # 0 => wire'[n][i] <= wire'[n][j]
  <2>1. CASE wire'[n] = wire[n]
    BY <2>1, <1>1, <1>7 DEF WatchersInv, InOrder
  <2>2. CASE wire'[n] = Append(wire[n], version + 1)
    <3>1. /\ DOMAIN wire[n] = 1 .. Len(wire[n]) /\ Len(wire[n]) \in Nat
          /\ DOMAIN wire'[n] = 1 .. Len(wire[n]) + 1
          /\ \A j \in DOMAIN wire[n] : wire'[n][j] = wire[n][j] /\ wire[n][j] \in 0 .. version
          /\ wire'[n][Len(wire[n]) + 1] = version + 1
      BY <1>1, <1>5, <2>2, Appended
    <3>2. box[n] <= version + 1 /\ held <= version + 1
      BY <1>1, <1>5 DEF WatchersInv, VersionOK
    <3>3. CASE i = Len(wire[n]) + 1
      BY <1>1, <3>1, <3>2, <3>3
    <3>4. CASE i \in DOMAIN wire[n]
      <4>1. box'[n] <= wire'[n][i] /\ (n = watch' => held' <= wire'[n][i])
        BY <1>1, <1>7, <3>1, <3>4 DEF WatchersInv, InOrder
      <4>2. ASSUME NEW j \in DOMAIN wire'[n], i < j, wire'[n][j] # 0
            PROVE  wire'[n][i] <= wire'[n][j]
        <5>1. CASE j = Len(wire[n]) + 1
          BY <5>1, <3>1, <3>4, <1>1
        <5>2. CASE j \in DOMAIN wire[n]
          BY <5>2, <4>2, <1>7, <3>1, <3>4 DEF WatchersInv, InOrder
        <5> QED
          BY <5>1, <5>2, <3>1
      <4> QED
        BY <4>1, <4>2
    <3> QED
      BY <3>1, <3>3, <3>4
  <2> QED
    BY <1>1, <1>5, <2>1, <2>2
<1>8. InOrder'
  BY <1>1, <1>7 DEF WatchersInv, InOrder
<1> QED
  BY <1>2, <1>3, <1>4, <1>6, <1>8 DEF WatchersInv

\* What a callback does with entries is about keys; the other steps leave wires alone.
LEMMA WiresRest ==
    ASSUME WatchersInv, UNCHANGED keyVars, version' = version, kind' = kind
    PROVE  WireOK'
BY DEF WatchersInv, WireOK, keyVars

LEMMA ChangeFileHolds ==
    ASSUME WatchersInv, ChangeFile
    PROVE  WatchersInv'
<1>1. /\ version' = version + 1 /\ version < MaxChanges /\ version \in Nat
      /\ readable' \in BOOLEAN /\ excused' = (excused \/ pc # "next")
      /\ UNCHANGED <<kind, hand, held, pc, watch, closed, exits, failures>>
      /\ UNCHANGED <<wire, box, live>>
  BY DEF ChangeFile, Changes, loopVars, keyVars, WatchersInv, VersionOK
<1>2. VersionOK'
  BY <1>1, BoundsHold DEF WatchersInv, VersionOK, Bounds
<1>3. exists' \in BOOLEAN /\ marked' \in BOOLEAN
  BY DEF ChangeFile, WriteFile, ReplaceFile, RemoveFile, MoveFile, CreateFile, Unlink,
         WatchersInv, FlagsOK
<1>4. EventsOK'
  <2>1. ASSUME NEW reports \in Seq({"other", "rename", "overflow"}), Report(reports)
        PROVE  EventsOK'
    BY <2>1 DEF Report, WatchersInv, EventsOK
  <2>2. /\ <<"other">> \in Seq({"other", "rename", "overflow"})
        /\ <<"rename">> \in Seq({"other", "rename", "overflow"})
        /\ <<"other", "other">> \in Seq({"other", "rename", "overflow"})
    OBVIOUS
  <2>3. Report(<<"other">>) \/ Report(<<"rename">>) \/ Report(<<"other", "other">>)
        \/ UNCHANGED events
    BY DEF ChangeFile, WriteFile, ReplaceFile, RemoveFile, MoveFile, CreateFile, Unlink
  <2>4. CASE UNCHANGED events
    BY <2>4 DEF WatchersInv, EventsOK
  <2> QED
    BY <2>1, <2>2, <2>3, <2>4
<1>5. FlagsOK'
  BY <1>1, <1>3 DEF WatchersInv, FlagsOK
<1>6. LoopOK'
  BY <1>1 DEF WatchersInv, LoopOK
<1>7. WireOK'
  <2>1. \A n \in Watch : wire'[n] \in Seq(0 .. version') /\ box'[n] \in 0 .. version'
    BY <1>1, SequencesGrow DEF WatchersInv, WireOK
  <2> QED
    BY <1>1, <2>1 DEF WatchersInv, WireOK
<1>8. InOrder'
  BY <1>1 DEF WatchersInv, InOrder
<1> QED
  BY <1>2, <1>4, <1>5, <1>6, <1>7, <1>8 DEF WatchersInv

-----------------------------------------------------------------------------
(* The goroutine of the loader *)

LEMMA OrderRests ==
    ASSUME WatchersInv, UNCHANGED <<keyVars, held, watch>>, pc' = "readd" => held <= hand'
    PROVE  InOrder'
BY DEF WatchersInv, InOrder, keyVars


LEMMA LoadHolds ==
    ASSUME WatchersInv, Load
    PROVE  WatchersInv'
<1>1. /\ UNCHANGED <<originVars, keyVars, marked, events, hand, watch, closed, exits, failures>>
      /\ pc = "load" /\ pc' \in {"watch", "ended"} /\ held' \in {held, version}
      /\ excused' \in {excused, FALSE} /\ watch = 0
  BY DEF Load, WatchersInv, LoopOK
<1>2. VersionOK' /\ FlagsOK' /\ EventsOK'
  <2>1. VersionOK'
    BY <1>1 DEF WatchersInv, VersionOK, originVars
  <2>2. FlagsOK' /\ EventsOK'
    BY <1>1 DEF WatchersInv, FlagsOK, EventsOK, originVars
  <2> QED
    BY <2>1, <2>2
<1>3. LoopOK'
  BY <1>1 DEF WatchersInv, LoopOK, originVars, keyVars
<1>4. WireOK'
  BY <1>1, WiresRest DEF originVars
<1>5. InOrder'
  BY <1>1 DEF WatchersInv, InOrder, Watch, keyVars
<1> QED
  BY <1>2, <1>3, <1>4, <1>5 DEF WatchersInv

LEMMA Replayed ==
    ASSUME NEW a \in Nat
    PROVE  /\ <<0>> \in Seq(0 .. a) /\ <<a, 0>> \in Seq(0 .. a)
           /\ DOMAIN <<0>> = {1} /\ DOMAIN <<a, 0>> = {1, 2}
OBVIOUS

LEMMA OpenKeyHolds ==
    ASSUME WatchersInv, OpenWatch, OpenKey
    PROVE  WatchersInv'
<1> DEFINE new == watch + 1
<1>1. /\ UNCHANGED <<originVars, held, closed, failures, hand, excused>>
      /\ UNCHANGED <<box, exits, marked, events>>
      /\ pc = "watch" /\ pc' = "next" /\ kind = "key"
      /\ watch' = new /\ live' = live \cup {new}
      /\ wire' = [wire EXCEPT ![new] = Replay]
  BY DEF OpenWatch, OpenKey
<1>2. /\ watch \in Nat /\ watch <= failures /\ failures <= MaxFailures /\ new \in Watch
      /\ exits \subseteq 1 .. watch /\ live \subseteq 1 .. watch /\ version \in Nat
      /\ MaxFailures \in Nat
  BY <1>1, BoundsHold DEF WatchersInv, LoopOK, VersionOK, Watch, Bounds
<1>3. VersionOK' /\ FlagsOK' /\ EventsOK'
  BY <1>1 DEF WatchersInv, VersionOK, FlagsOK, EventsOK, originVars
<1>4. LoopOK'
  <2>1. new \notin exits /\ exits \subseteq 1 .. new /\ live' \subseteq 1 .. new
    BY <1>1, <1>2
  <2>2. new \in 0 .. MaxFailures + 1 /\ new >= 1 /\ new <= failures + 1
    BY <1>2, BoundsHold DEF Bounds, WatchersInv, LoopOK
  <2> HIDE DEF new
  <2> QED
    BY <1>1, <2>1, <2>2 DEF WatchersInv, LoopOK, originVars
<1>5. Replay \in Seq(0 .. version) /\ version' = version
  BY <1>1, <1>2, Replayed DEF Replay, originVars
<1>6. WireOK'
  BY <1>1, <1>2, <1>5 DEF WatchersInv, WireOK, originVars
<1>7. box[new] = 0 /\ wire'[new] = Replay
  BY <1>1, <1>2 DEF WatchersInv, WireOK
<1>8. ASSUME NEW i \in DOMAIN Replay, Replay[i] # 0
      PROVE  Replay[i] = version /\ \A j \in DOMAIN Replay : i < j => Replay[j] = 0
  BY <1>8, <1>2, Replayed DEF Replay
<1>9. \A n \in Watch \ {new} : wire'[n] = wire[n]
  BY <1>1, <1>2 DEF WatchersInv, WireOK
<1>10. ASSUME NEW n \in Watch, NEW i \in DOMAIN wire'[n], wire'[n][i] # 0
       PROVE  /\ box'[n] <= wire'[n][i]
              /\ n = watch' => held' <= wire'[n][i]
              /\ \A j \in DOMAIN wire'[n] :
                   i < j /\ wire'[n][j] # 0 => wire'[n][i] <= wire'[n][j]
  <2>1. CASE n = new
    <3>1. held <= version /\ box'[n] = 0 /\ held' = held /\ 0 <= version
      BY <2>1, <1>1, <1>2, <1>7 DEF WatchersInv, VersionOK
    <3> QED
      BY <2>1, <3>1, <1>7, <1>8, <1>10
  <2>2. CASE n # new
    BY <2>2, <1>1, <1>9, <1>10 DEF WatchersInv, InOrder
  <2> QED
    BY <2>1, <2>2
<1>11. \A n \in Watch : n = watch' /\ box'[n] # 0 => held' <= box'[n]
  BY <1>1, <1>7
<1>12. InOrder'
  BY <1>1, <1>10, <1>11 DEF InOrder
<1> QED
  BY <1>3, <1>4, <1>6, <1>12 DEF WatchersInv

\* Opening any other watcher, and adding its path.
LEMMA OpenOtherHolds ==
    ASSUME WatchersInv, (OpenWatch /\ (OpenFile \/ OpenStatic)) \/ FirstAdd
    PROVE  WatchersInv'
<1>1. /\ UNCHANGED <<originVars, keyVars, held, closed, failures, hand, excused>>
      /\ kind # "key" /\ watch' \in {watch, 1}
      /\ \/ /\ pc = "watch" /\ pc' \in {"add", "next"} /\ watch' = 1 /\ exits' = {}
            /\ pc' = "add" => kind = "file"
         \/ pc = "add" /\ pc' = "next" /\ UNCHANGED <<watch, exits>>
  BY DEF OpenWatch, OpenFile, OpenStatic, FirstAdd, WatchersInv, LoopOK
<1>2. VersionOK'
  BY <1>1 DEF WatchersInv, VersionOK, originVars
<1>3. FlagsOK'
  <2>1. marked' \in BOOLEAN
    BY DEF OpenWatch, OpenFile, OpenStatic, FirstAdd, AddPath, WatchersInv, FlagsOK
  <2> QED
    BY <1>1, <2>1 DEF WatchersInv, FlagsOK, originVars
<1>4. EventsOK'
  <2>1. CASE events' = <<>>
    BY <2>1 DEF EventsOK
  <2>2. CASE events' = events
    BY <2>2 DEF WatchersInv, EventsOK
  <2> QED
    BY <2>1, <2>2 DEF OpenWatch, OpenFile, OpenStatic, FirstAdd
<1>5. LoopOK'
  <2>1. 1 \in 0 .. MaxFailures + 1
    BY BoundsHold DEF Bounds
  <2>2. kind' # "key" /\ live' = {} /\ failures' \in 0 .. MaxFailures
    BY <1>1 DEF WatchersInv, LoopOK, originVars, keyVars
  <2>3. /\ watch' \in 0 .. MaxFailures + 1
        /\ watch' <= 1 /\ watch' >= 1 /\ exits' \subseteq 1 .. watch'
    <3>1. CASE watch' = 1 /\ exits' = {}
      BY <3>1, <2>1
    <3>2. CASE pc = "add" /\ UNCHANGED <<watch, exits>>
      BY <3>2, <1>1 DEF WatchersInv, LoopOK
    <3> QED
      BY <1>1, <3>1, <3>2
  <2> QED
    BY <1>1, <2>2, <2>3 DEF LoopOK, originVars
<1>6. WireOK'
  BY <1>1, WiresRest DEF originVars
<1>7. InOrder'
  <2>1. \A n \in Watch : wire'[n] = <<>> /\ box'[n] = 0
    BY <1>1 DEF WatchersInv, LoopOK, WireOK, keyVars
  <2> QED
    BY <1>1, <2>1 DEF InOrder
<1> QED
  BY <1>2, <1>3, <1>4, <1>5, <1>6, <1>7 DEF WatchersInv

\* What Next of the key watcher received is at least as new as what is held.
LEMMA NextUpdateHolds ==
    ASSUME WatchersInv, NextUpdate
    PROVE  WatchersInv'
<1>1. /\ UNCHANGED <<originVars, wire, live, marked, events, hand, watch, closed, exits>>
      /\ kind = "key" /\ pc = "next" /\ box[watch] # 0
      /\ box' = [box EXCEPT ![watch] = 0] /\ held' = box[watch]
      /\ \/ pc' = "next" /\ UNCHANGED <<failures, excused>>
         \/ /\ pc' = "retry" /\ excused' = TRUE
            /\ failures < MaxFailures /\ failures' = failures + 1
  BY DEF NextUpdate, Save, Fail
<1>2. watch \in Watch /\ box[watch] \in 0 .. version /\ 0 \in 0 .. version
  BY <1>1, BoundsHold DEF WatchersInv, LoopOK, WireOK, VersionOK, Watch, Bounds
<1>3. VersionOK'
  BY <1>1, <1>2 DEF WatchersInv, VersionOK, originVars
<1>4. FlagsOK' /\ EventsOK'
  BY <1>1 DEF WatchersInv, FlagsOK, EventsOK, originVars
<1>5. LoopOK'
  <2>1. failures' \in 0 .. MaxFailures /\ watch <= failures' + 1
        /\ (pc' = "retry" => watch <= failures')
    BY <1>1, BoundsHold DEF WatchersInv, LoopOK, Bounds
  <2> QED
    BY <1>1, <2>1 DEF WatchersInv, LoopOK, originVars
<1>6. /\ box' \in [Watch -> 0 .. version] /\ box'[watch] = 0
      /\ \A n \in Watch : box'[n] = box[n] \/ box'[n] = 0
  BY <1>1, <1>2 DEF WatchersInv, WireOK
<1>7. WireOK'
  BY <1>1, <1>6 DEF WatchersInv, WireOK, originVars
<1>8. ASSUME NEW n \in Watch, NEW i \in DOMAIN wire[n], wire[n][i] # 0
      PROVE  /\ box'[n] <= wire[n][i]
             /\ n = watch => box[watch] <= wire[n][i]
             /\ \A j \in DOMAIN wire[n] :
                  i < j /\ wire[n][j] # 0 => wire[n][i] <= wire[n][j]
  <2>1. wire[n][i] \in Nat
    BY <1>8 DEF WatchersInv, WireOK, VersionOK
  <2>2. 0 <= wire[n][i]
    BY <2>1
  <2> QED
    BY <2>2, <1>6, <1>8 DEF WatchersInv, InOrder
<1>9. InOrder'
  BY <1>1, <1>6, <1>8 DEF InOrder
<1> QED
  BY <1>3, <1>4, <1>5, <1>7, <1>9 DEF WatchersInv

\* The steps of Next of the other watchers, and the retry after a failure.
LEMMA EventRead ==
    ASSUME EventsOK, events # <<>>
    PROVE  Tail(events) \in Seq({"other", "rename", "overflow"})
BY DEF EventsOK

LEMMA NextEventHolds ==
    ASSUME WatchersInv, NextEvent
    PROVE  WatchersInv'
<1>1. /\ UNCHANGED <<originVars, keyVars, hand, held, watch, closed, exits, failures>>
      /\ kind = "file" /\ pc = "next" /\ pc' \in {"retry", "read"}
      /\ excused' \in {excused, TRUE}
      /\ events' = Tail(events) /\ events # <<>>
  BY DEF NextEvent, Fail
<1>2. marked' \in BOOLEAN
  BY DEF NextEvent, WatchersInv, FlagsOK
<1>3. VersionOK' /\ FlagsOK'
  <2>1. VersionOK'
    BY <1>1 DEF WatchersInv, VersionOK, originVars
  <2>2. FlagsOK'
    BY <1>1, <1>2 DEF WatchersInv, FlagsOK, originVars
  <2> QED
    BY <2>1, <2>2
<1>4. EventsOK'
  BY <1>1, EventRead DEF WatchersInv, EventsOK
<1>5. LoopOK'
  BY <1>1 DEF WatchersInv, LoopOK, originVars, keyVars
<1>6. WireOK' /\ InOrder'
  BY <1>1, WiresRest, OrderRests DEF originVars
<1> QED
  BY <1>3, <1>4, <1>5, <1>6 DEF WatchersInv

LEMMA ReadFileHolds ==
    ASSUME WatchersInv, ReadFile
    PROVE  WatchersInv'
<1>1. /\ UNCHANGED <<originVars, keyVars, marked, events, held, watch, closed, exits, failures>>
      /\ pc = "read" /\ kind = "file"
      /\ \/ pc' = "readd" /\ hand' = version /\ excused' = FALSE
         \/ pc' = "retry" /\ hand' = hand /\ excused' = TRUE
  BY DEF ReadFile, Fail, WatchersInv, LoopOK
<1>2. VersionOK'
  BY <1>1 DEF WatchersInv, VersionOK, originVars
<1>3. FlagsOK' /\ EventsOK'
  BY <1>1 DEF WatchersInv, FlagsOK, EventsOK, originVars
<1>4. LoopOK'
  BY <1>1 DEF WatchersInv, LoopOK, originVars, keyVars
<1>5. pc' = "readd" => held <= hand'
  BY <1>1 DEF WatchersInv, VersionOK
<1>6. WireOK' /\ InOrder'
  BY <1>1, <1>5, WiresRest, OrderRests DEF originVars
<1> QED
  BY <1>2, <1>3, <1>4, <1>6 DEF WatchersInv

LEMMA AddAgainHolds ==
    ASSUME WatchersInv, AddAgain
    PROVE  WatchersInv'
<1>1. /\ UNCHANGED <<originVars, keyVars, events, hand, watch, closed, exits>>
      /\ pc = "readd" /\ kind = "file" /\ held' = hand /\ marked' = exists
      /\ \/ pc' = "next" /\ UNCHANGED <<failures, excused>>
         \/ /\ pc' = "retry" /\ excused' = TRUE
            /\ failures < MaxFailures /\ failures' = failures + 1
  BY DEF AddAgain, AddPath, Save, Fail, WatchersInv, LoopOK
<1>2. VersionOK'
  BY <1>1 DEF WatchersInv, VersionOK, originVars
<1>3. FlagsOK' /\ EventsOK'
  BY <1>1 DEF WatchersInv, FlagsOK, EventsOK, originVars
<1>4. LoopOK'
  <2>1. failures' \in 0 .. MaxFailures
    BY <1>1, BoundsHold DEF WatchersInv, LoopOK, Bounds
  <2> QED
    BY <1>1, <2>1 DEF WatchersInv, LoopOK, originVars, keyVars
<1>5. WireOK'
  BY <1>1, WiresRest DEF originVars
<1>6. InOrder'
  <2>1. \A n \in Watch : wire'[n] = <<>> /\ box'[n] = 0
    BY <1>1 DEF WatchersInv, LoopOK, WireOK, keyVars
  <2> QED
    BY <1>1, <2>1 DEF InOrder
<1> QED
  BY <1>2, <1>3, <1>4, <1>5, <1>6 DEF WatchersInv

LEMMA StopAndRetryHold ==
    ASSUME WatchersInv, NextStopped \/ Retry
    PROVE  WatchersInv'
<1>1. /\ UNCHANGED <<originVars, keyVars, marked, events, hand, held, watch, closed, exits,
                     failures>>
      /\ \/ pc = "next" /\ watch \in exits /\ pc' = "retry" /\ excused' = TRUE
         \/ /\ pc = "retry" /\ excused' = excused
            /\ pc' = IF closed THEN "ended" ELSE "watch"
  BY DEF NextStopped, Retry, Fail, fileVars
<1>2. VersionOK'
  BY <1>1 DEF WatchersInv, VersionOK, originVars
<1>3. FlagsOK' /\ EventsOK'
  BY <1>1 DEF WatchersInv, FlagsOK, EventsOK, originVars
<1>4. LoopOK'
  BY <1>1 DEF WatchersInv, LoopOK, originVars, keyVars
<1>5. WireOK' /\ InOrder'
  BY <1>1, WiresRest, OrderRests DEF originVars
<1> QED
  BY <1>2, <1>3, <1>4, <1>5 DEF WatchersInv

-----------------------------------------------------------------------------
(* The other goroutines *)

\* The head of a wire is the oldest of its entries.
LEMMA HeadIsOldest ==
    ASSUME NEW S, NEW s \in Seq(S), s # <<>>
    PROVE  /\ Head(s) = s[1] /\ Head(s) \in S /\ 1 \in DOMAIN s
           /\ Tail(s) \in Seq(S)
           /\ \A i \in DOMAIN Tail(s) :
                i + 1 \in DOMAIN s /\ Tail(s)[i] = s[i + 1] /\ 1 < i + 1 /\ i \in Nat
OBVIOUS

LEMMA CallbackTakeHolds ==
    ASSUME WatchersInv, NEW n \in Watch, CallbackTake(n)
    PROVE  WatchersInv'
<1>1. /\ UNCHANGED <<originVars, fileVars, loopVars, live>>
      /\ n \in live /\ box[n] = 0 /\ wire[n] # <<>>
      /\ box' = [box EXCEPT ![n] = Head(wire[n])]
      /\ wire' = [wire EXCEPT ![n] = Tail(wire[n])]
  BY DEF CallbackTake
<1>2. VersionOK' /\ FlagsOK' /\ EventsOK'
  BY <1>1 DEF WatchersInv, VersionOK, FlagsOK, EventsOK, originVars, fileVars, loopVars
<1>3. LoopOK'
  BY <1>1 DEF WatchersInv, LoopOK, originVars, loopVars
<1>4. wire[n] \in Seq(0 .. version) /\ kind = "key"
  BY <1>1 DEF WatchersInv, WireOK, LoopOK
<1>5. /\ Head(wire[n]) = wire[n][1] /\ Head(wire[n]) \in 0 .. version
      /\ 1 \in DOMAIN wire[n] /\ Tail(wire[n]) \in Seq(0 .. version)
      /\ \A i \in DOMAIN Tail(wire[n]) :
           /\ i + 1 \in DOMAIN wire[n] /\ Tail(wire[n])[i] = wire[n][i + 1]
           /\ 1 < i + 1 /\ i \in Nat
  BY <1>1, <1>4, HeadIsOldest
<1>6. /\ box'[n] = wire[n][1] /\ wire'[n] = Tail(wire[n])
      /\ \A m \in Watch \ {n} : box'[m] = box[m] /\ wire'[m] = wire[m]
  BY <1>1, <1>5 DEF WatchersInv, WireOK
<1>7. WireOK'
  BY <1>1, <1>4, <1>5 DEF WatchersInv, WireOK, originVars
<1>8. ASSUME NEW m \in Watch, NEW i \in DOMAIN wire'[m], wire'[m][i] # 0
      PROVE  /\ box'[m] <= wire'[m][i]
             /\ m = watch => held <= wire'[m][i]
             /\ \A j \in DOMAIN wire'[m] :
                  i < j /\ wire'[m][j] # 0 => wire'[m][i] <= wire'[m][j]
  <2>1. CASE m # n
    BY <2>1, <1>6, <1>8 DEF WatchersInv, InOrder
  <2>2. CASE m = n
    <3>1. i + 1 \in DOMAIN wire[n] /\ wire'[n][i] = wire[n][i + 1] /\ 1 < i + 1 /\ i \in Nat
      BY <2>2, <1>5, <1>6, <1>8
    <3>2. wire[n][i + 1] # 0 /\ wire[n][i + 1] \in 0 .. version /\ version \in Nat
      BY <2>2, <3>1, <1>4, <1>8 DEF WatchersInv, VersionOK
    <3>3. wire[n][1] = 0 \/ wire[n][1] <= wire[n][i + 1]
      BY <1>5, <3>1, <3>2 DEF WatchersInv, InOrder
    <3>4. box'[n] <= wire'[n][i]
      BY <1>6, <3>1, <3>2, <3>3
    <3>5. n = watch => held <= wire'[n][i]
      BY <3>1, <3>2 DEF WatchersInv, InOrder
    <3>6. ASSUME NEW j \in DOMAIN wire'[n], i < j, wire'[n][j] # 0
          PROVE  wire'[n][i] <= wire'[n][j]
      <4>1. j + 1 \in DOMAIN wire[n] /\ wire'[n][j] = wire[n][j + 1] /\ j \in Nat
        BY <1>5, <1>6, <3>6
      <4>2. i + 1 < j + 1
        BY <3>1, <3>6, <4>1
      <4> QED
        BY <3>1, <3>2, <3>6, <4>1, <4>2 DEF WatchersInv, InOrder
    <3> QED
      BY <2>2, <3>4, <3>5, <3>6
  <2> QED
    BY <2>1, <2>2
<1>9. ASSUME NEW m \in Watch, m = watch, box'[m] # 0 PROVE held <= box'[m]
  <2>1. CASE m # n
    BY <2>1, <1>6, <1>9 DEF WatchersInv, InOrder
  <2>2. CASE m = n
    BY <2>2, <1>5, <1>6, <1>9 DEF WatchersInv, InOrder
  <2> QED
    BY <2>1, <2>2
<1>10. held' = held /\ watch' = watch /\ pc' = pc /\ hand' = hand
  BY <1>1 DEF loopVars, fileVars
<1>11. InOrder'
  <2>1. pc' = "readd" => held' <= hand'
    BY <1>10 DEF WatchersInv, InOrder
  <2> QED
    BY <1>8, <1>9, <1>10, <2>1 DEF InOrder
<1> QED
  BY <1>2, <1>3, <1>7, <1>11 DEF WatchersInv

LEMMA CallbackExitHolds ==
    ASSUME WatchersInv, NEW n \in Watch, CallbackExit(n)
    PROVE  WatchersInv'
<1>1. /\ UNCHANGED <<originVars, fileVars, loopVars, wire, box>>
      /\ box[n] = 0 /\ live' = live \ {n}
  BY DEF CallbackExit
<1>2. VersionOK' /\ FlagsOK' /\ EventsOK'
  BY <1>1 DEF WatchersInv, VersionOK, FlagsOK, EventsOK, originVars, fileVars, loopVars
<1>3. LoopOK'
  BY <1>1 DEF WatchersInv, LoopOK, originVars, loopVars
<1>4. WireOK'
  BY <1>1 DEF WatchersInv, WireOK, originVars
<1>5. InOrder'
  BY <1>1 DEF WatchersInv, InOrder, loopVars, fileVars
<1> QED
  BY <1>2, <1>3, <1>4, <1>5 DEF WatchersInv

LEMMA StopsHold ==
    ASSUME WatchersInv, Close \/ \E n \in Watch : StopWatcher(n)
    PROVE  WatchersInv'
<1>1. UNCHANGED <<originVars, keyVars, fileVars, held, pc, watch, failures>>
  BY DEF Close, StopWatcher
<1>2. exits' \subseteq 1 .. watch /\ closed' \in {closed, TRUE}
  BY DEF Close, StopWatcher, WatchersInv, LoopOK
<1>3. ASSUME kind = "key", pc = "next", watch \in exits' PROVE closed'
  <2>1. CASE Close
    BY <2>1 DEF Close
  <2>2. ASSUME NEW n \in Watch, StopWatcher(n) PROVE closed'
    <3>1. closed' = closed /\ exits' = exits \cup {n} /\ n \in 1 .. watch /\ watch \in Nat
          /\ (closed \/ n < watch)
      BY <2>2, <1>3 DEF StopWatcher, Abandoned, WatchersInv, LoopOK
    <3>2. watch \in exits => closed
      BY <1>3 DEF WatchersInv, LoopOK
    <3> QED
      BY <3>1, <3>2, <1>3
  <2> QED
    BY <2>1, <2>2
<1>4. VersionOK' /\ EventsOK'
  BY <1>1 DEF WatchersInv, VersionOK, EventsOK, originVars, fileVars
<1>5. FlagsOK'
  BY <1>1, <1>2 DEF WatchersInv, FlagsOK, originVars, fileVars
<1>6. LoopOK'
  <2>1. kind' = kind /\ pc' = pc /\ watch' = watch /\ failures' = failures /\ live' = live
    BY <1>1 DEF originVars, keyVars
  <2>2. closed => closed'
    BY <1>2, Zenon
  <2>3. kind = "key" /\ pc = "retry" => closed' \/ watch <= failures
    BY <2>2 DEF WatchersInv, LoopOK
  <2>4. kind = "key" /\ pc = "next" => closed' \/ watch \notin exits'
    BY <1>3
  <2> QED
    BY <1>2, <2>1, <2>3, <2>4 DEF WatchersInv, LoopOK
<1>7. WireOK' /\ InOrder'
  <2>1. pc' = "readd" => held <= hand'
    BY <1>1 DEF WatchersInv, InOrder, fileVars
  <2> QED
    BY <1>1, <2>1, WiresRest, OrderRests DEF originVars
<1> QED
  BY <1>4, <1>5, <1>6, <1>7 DEF WatchersInv

LEMMA StutterHolds == WatchersInv /\ UNCHANGED vars => WatchersInv'
<1> SUFFICES ASSUME WatchersInv, UNCHANGED vars PROVE WatchersInv'
  OBVIOUS
<1>1. UNCHANGED <<originVars, keyVars, fileVars, loopVars>>
  BY DEF vars
<1>2. VersionOK' /\ FlagsOK' /\ EventsOK'
  BY <1>1 DEF WatchersInv, VersionOK, FlagsOK, EventsOK, originVars, fileVars, loopVars
<1>3. LoopOK'
  BY <1>1 DEF WatchersInv, LoopOK, originVars, loopVars, keyVars
<1>4. WireOK' /\ InOrder'
  BY <1>1 DEF WatchersInv, WireOK, InOrder, originVars, loopVars, keyVars, fileVars
<1> QED
  BY <1>2, <1>3, <1>4 DEF WatchersInv

-----------------------------------------------------------------------------
(* The theorems *)

LEMMA InvariantStep == WatchersInv /\ [Next]_vars => WatchersInv'
<1> SUFFICES ASSUME WatchersInv, [Next]_vars PROVE WatchersInv'
  OBVIOUS
<1>1. CASE PutKey \/ ChangeFile
  BY <1>1, PutKeyHolds, ChangeFileHolds
<1>2. CASE Load
  BY <1>2, LoadHolds
<1>3. CASE OpenWatch \/ FirstAdd
  BY <1>3, OpenKeyHolds, OpenOtherHolds DEF OpenWatch
<1>4. CASE NextStopped \/ Retry
  BY <1>4, StopAndRetryHold
<1>5. CASE NextUpdate
  BY <1>5, NextUpdateHolds
<1>6. CASE NextEvent \/ ReadFile \/ AddAgain
  BY <1>6, NextEventHolds, ReadFileHolds, AddAgainHolds
<1>7. CASE Close \/ \E n \in Watch : StopWatcher(n)
  BY <1>7, StopsHold
<1>8. CASE \E n \in Watch : CallbackTake(n) \/ CallbackExit(n)
  BY <1>8, CallbackTakeHolds, CallbackExitHolds
<1>9. CASE UNCHANGED vars \/ OpenFails
  BY <1>9, StutterHolds DEF OpenFails
<1> QED
  BY <1>1, <1>2, <1>3, <1>4, <1>5, <1>6, <1>7, <1>8, <1>9 DEF Next, Goroutine

\* The types of the variables; in particular the loop opens no more watchers of a key
\* than merges fail, and every callback that sends is alive (memory.go memory.watch).
THEOREM WatchersAreTyped == Spec => []TypeOK
<1>1. Spec => []WatchersInv
  BY InitHolds, InvariantStep, PTL DEF Spec
<1> QED
  BY <1>1, TypesFollow, PTL

LEMMA OriginStep ==
    ASSUME WatchersInv, [Next]_vars
    PROVE  [Origin!Next]_(Origin!sourceVars)
<1> DEFINE rests == UNCHANGED <<version, held>>
           changes == version' = version + 1 /\ held' = held
           adopts == version' = version /\ held' \in held .. version
<1>1. /\ rests => UNCHANGED Origin!sourceVars
      /\ changes => Origin!Next
      /\ adopts => Origin!Next \/ UNCHANGED Origin!sourceVars
  BY DEF Origin!Next, Origin!Change, Origin!Adopt, Origin!sourceVars, WatchersInv, VersionOK
<1>2. CASE PutKey \/ ChangeFile
  <2>1. changes
    BY <1>2 DEF PutKey, ChangeFile, Changes, loopVars
  <2> QED
    BY <1>1, <2>1
<1>3. CASE Load
  <2>1. adopts
    <3>1. version' = version /\ held' \in {held, version}
      BY <1>3 DEF Load, originVars
    <3> QED
      BY <3>1 DEF WatchersInv, VersionOK
  <2> QED
    BY <1>1, <2>1
<1>4. CASE NextUpdate
  <2>1. watch \in Watch /\ box[watch] # 0 /\ held' = box[watch] /\ version' = version
    BY <1>4, BoundsHold DEF NextUpdate, Save, originVars, WatchersInv, LoopOK, Watch, Bounds
  <2>2. held <= box[watch] /\ box[watch] \in 0 .. version
    BY <2>1 DEF WatchersInv, InOrder, WireOK
  <2>3. adopts
    BY <2>1, <2>2 DEF WatchersInv, VersionOK
  <2> QED
    BY <1>1, <2>3
<1>5. CASE AddAgain
  <2>1. adopts
    BY <1>5 DEF AddAgain, Save, originVars, WatchersInv, InOrder, VersionOK
  <2> QED
    BY <1>1, <2>1
<1>6. CASE OpenWatch \/ FirstAdd \/ NextStopped \/ NextEvent \/ ReadFile \/ Retry
  BY <1>1, <1>6 DEF OpenWatch, FirstAdd, NextStopped, NextEvent, ReadFile, Retry, originVars
<1>7. CASE Close \/ \E n \in Watch : StopWatcher(n)
  BY <1>1, <1>7 DEF Close, StopWatcher, originVars
<1>8. CASE \E n \in Watch : CallbackTake(n) \/ CallbackExit(n)
  BY <1>1, <1>8 DEF CallbackTake, CallbackExit, originVars, loopVars
<1>9. CASE UNCHANGED vars \/ OpenFails
  BY <1>1, <1>9 DEF OpenFails, vars, originVars, loopVars
<1> QED
  BY <1>2, <1>3, <1>4, <1>5, <1>6, <1>7, <1>8, <1>9 DEF Next, Goroutine

\* Whatever kind of source it watches, the loader receives contents the source had, and
\* never an older one after a newer one: the watchers implement WatchedSource
\* (config/source/source.go; nats/watcher.go, file/watcher_linux.go, memory.go).
THEOREM WatchersImplementSource == Spec => HeldNeverGoesBack
<1>1. Spec => []WatchersInv
  BY InitHolds, InvariantStep, PTL DEF Spec
<1>2. Init => Origin!Init
  BY DEF Init, Origin!Init
<1>3. WatchersInv /\ [Next]_vars => [Origin!Next]_(Origin!sourceVars)
  BY OriginStep
<1> QED
  BY <1>1, <1>2, <1>3, PTL DEF Spec, HeldNeverGoesBack, Origin!Spec

-----------------------------------------------------------------------------
(* Nothing is lost while the loop waits *)

\* The newest entry of a key is held, or sent to Next, or on the wire.
OnItsWay ==
    \/ held = version \/ box[watch] = version
    \/ \E i \in DOMAIN wire[watch] : wire[watch][i] = version

KeyArrives ==
    kind = "key" /\ pc = "next" /\ watch \notin exits => watch \in live /\ OnItsWay

\* A file is read and marked as it is, and only a change while the loop waits may be
\* neither: then there is an event.
FileArrives ==
    kind = "file" =>
      /\ marked => exists
      /\ pc = "retry" => excused
      /\ pc \in {"watch", "add"} /\ ~excused => held = version /\ exists
      /\ pc = "readd" /\ ~excused => hand = version /\ exists
      /\ pc = "next" /\ ~excused => events # <<>> \/ (held = version /\ marked)

StaticRests == kind = "static" => version = 0

Arrives == KeyArrives /\ FileArrives /\ StaticRests

LEMMA ArrivesSuffices == WatchersInv /\ Arrives => NothingLostInNext
<1> SUFFICES ASSUME WatchersInv, Arrives, Idle PROVE
      (held = version /\ (kind = "file" => marked)) \/ (kind = "file" /\ excused)
  BY DEF NothingLostInNext
<1>1. pc = "next" /\ watch \notin exits
  BY DEF Idle
<1>2. CASE kind = "key"
  <2>1. wire[watch] = <<>> /\ box[watch] = 0 /\ OnItsWay
    BY <1>1, <1>2 DEF Idle, Arrives, KeyArrives
  <2>2. ~ \E i \in DOMAIN wire[watch] : wire[watch][i] = version
    BY <2>1
  <2>3. held = version
    BY <2>1, <2>2 DEF OnItsWay, WatchersInv, VersionOK
  <2> QED
    BY <1>2, <2>3
<1>3. CASE kind = "file"
  BY <1>1, <1>3 DEF Idle, Arrives, FileArrives
<1>4. CASE kind = "static"
  BY <1>4 DEF Arrives, StaticRests, WatchersInv, VersionOK
<1> QED
  BY <1>2, <1>3, <1>4, WatchersAssumption DEF WatchersInv, FlagsOK

LEMMA ArrivesInit == Init => Arrives
BY DEF Init, Arrives, KeyArrives, FileArrives, StaticRests

\* Steps that leave the key watcher in use as it is, or move the loop out of Next.
LEMMA KeyRests ==
    ASSUME KeyArrives, UNCHANGED <<kind, version, held, wire, box, watch>>,
           kind = "key" /\ pc' = "next" => pc = "next",
           watch \notin exits' => watch \notin exits,
           watch \in live => watch \in live' \/ watch \in exits'
    PROVE  KeyArrives'
BY DEF KeyArrives, OnItsWay

LEMMA FileRests ==
    ASSUME FileArrives,
           UNCHANGED <<kind, version, exists, held, pc, marked, events, hand, excused>>
    PROVE  FileArrives'
BY DEF FileArrives

LEMMA PutKeyArrives ==
    ASSUME WatchersInv, Arrives, PutKey
    PROVE  Arrives'
<1>1. /\ kind = "key" /\ version' = version + 1
      /\ UNCHANGED <<kind, pc, watch, exits, live>>
      /\ wire' = [n \in Watch |-> IF n \in live THEN Append(wire[n], version')
                                  ELSE wire[n]]
  BY DEF PutKey, Changes, loopVars
<1>2. ASSUME pc = "next", watch \notin exits PROVE watch \in live /\ OnItsWay'
  <2>1. watch \in live
    BY <1>1, <1>2 DEF Arrives, KeyArrives
  <2>2. watch \in Watch /\ wire[watch] \in Seq(0 .. version) /\ version \in Nat
    BY <2>1, BoundsHold DEF WatchersInv, LoopOK, WireOK, VersionOK, Watch, Bounds
  <2>3. wire'[watch] = Append(wire[watch], version + 1)
    BY <1>1, <2>1, <2>2
  <2>4. \E i \in DOMAIN wire'[watch] : wire'[watch][i] = version'
    BY <1>1, <2>2, <2>3, Appended
  <2> QED
    BY <2>1, <2>4, <1>1 DEF OnItsWay
<1> QED
  BY <1>1, <1>2 DEF Arrives, KeyArrives, FileArrives, StaticRests

LEMMA Reported ==
    ASSUME EventsOK, NEW reports \in Seq({"other", "rename"}), reports # <<>>,
           Report(reports)
    PROVE  (marked \/ events # <<>>) => events' # <<>>
<1>1. CASE ~marked
  BY <1>1 DEF Report
<1>2. CASE marked /\ events' = events \o reports
  <2>1. Len(events') = Len(events) + Len(reports) /\ Len(reports) # 0
        /\ Len(events) \in Nat /\ Len(reports) \in Nat
    BY <1>2 DEF EventsOK
  <2>2. Len(events') # 0
    BY <2>1
  <2> QED
    BY <2>2
<1>3. CASE marked /\ events' = Append(events, "overflow")
  <2>1. Len(events') = Len(events) + 1 /\ Len(events) \in Nat
    BY <1>3 DEF EventsOK
  <2>2. Len(events') # 0
    BY <2>1
  <2> QED
    BY <2>2
<1> QED
  BY <1>1, <1>2, <1>3 DEF Report

LEMMA ChangeFileArrives ==
    ASSUME WatchersInv, Arrives, ChangeFile
    PROVE  Arrives'
<1>1. /\ kind = "file" /\ excused' = (excused \/ pc # "next")
      /\ UNCHANGED <<kind, pc>>
      /\ WriteFile \/ ReplaceFile \/ RemoveFile \/ MoveFile \/ CreateFile
  BY DEF ChangeFile, Changes, loopVars
<1>2. /\ <<"other">> \in Seq({"other", "rename"}) /\ <<"other">> # <<>>
      /\ <<"other", "other">> \in Seq({"other", "rename"}) /\ <<"other", "other">> # <<>>
      /\ <<"rename">> \in Seq({"other", "rename"}) /\ <<"rename">> # <<>>
  OBVIOUS
<1>3. (marked => exists) /\ EventsOK
  BY <1>1 DEF Arrives, FileArrives, WatchersInv
<1>4. /\ marked' => exists'
      /\ marked \/ events # <<>> => events' # <<>>
  <2>1. CASE WriteFile
    BY <1>2, <1>3, <2>1, Reported DEF WriteFile
  <2>2. CASE ReplaceFile \/ RemoveFile
    BY <1>2, <1>3, <2>2, Reported DEF ReplaceFile, RemoveFile, Unlink
  <2>3. CASE MoveFile
    BY <1>2, <1>3, <2>3, Reported DEF MoveFile
  <2>4. CASE CreateFile
    BY <1>3, <2>4 DEF CreateFile
  <2> QED
    BY <1>1, <2>1, <2>2, <2>3, <2>4
<1>5. pc = "next" /\ ~excused => events' # <<>>
  BY <1>1, <1>4 DEF Arrives, FileArrives
<1> QED
  BY <1>1, <1>4, <1>5 DEF Arrives, KeyArrives, FileArrives, StaticRests

LEMMA OpenArrives ==
    ASSUME WatchersInv, Arrives, OpenWatch
    PROVE  Arrives'
<1>1. pc = "watch" /\ UNCHANGED <<originVars, held, hand, excused>>
  BY DEF OpenWatch
<1>2. CASE OpenKey
  <2> DEFINE new == watch + 1
  <2>1. /\ kind = "key" /\ watch' = new /\ live' = live \cup {new} /\ exits' = exits
        /\ wire' = [wire EXCEPT ![new] = Replay] /\ UNCHANGED box
    BY <1>2 DEF OpenKey
  <2>2. new \in Watch /\ new \notin exits
    BY <1>1, <2>1, BoundsHold DEF WatchersInv, LoopOK, Watch, Bounds
  <2>3. wire'[new] = Replay
    BY <2>1, <2>2 DEF WatchersInv, WireOK
  <2>4. CASE version = 0
    <3>1. held = 0
      BY <2>4 DEF WatchersInv, VersionOK
    <3> QED
      BY <1>1, <2>1, <2>4, <3>1
         DEF Arrives, KeyArrives, FileArrives, StaticRests, OnItsWay, originVars
  <2>5. CASE version # 0
    <3>1. wire'[new] = <<version, 0>>
      BY <2>3, <2>5 DEF Replay
    <3>2. 1 \in DOMAIN wire'[new] /\ wire'[new][1] = version
      BY <3>1
    <3>3. OnItsWay'
      BY <1>1, <2>1, <3>2 DEF OnItsWay, originVars
    <3> QED
      BY <1>1, <2>1, <3>3 DEF Arrives, KeyArrives, FileArrives, StaticRests, originVars
  <2> QED
    BY <2>4, <2>5
<1>3. CASE OpenFile
  BY <1>1, <1>3 DEF OpenFile, Arrives, KeyArrives, FileArrives, StaticRests, originVars
<1>4. CASE OpenStatic
  BY <1>1, <1>4 DEF OpenStatic, Arrives, KeyArrives, FileArrives, StaticRests, originVars
<1> QED
  BY <1>2, <1>3, <1>4 DEF OpenWatch

LEMMA NextUpdateArrives ==
    ASSUME WatchersInv, Arrives, NextUpdate
    PROVE  Arrives'
<1>1. /\ kind = "key" /\ pc = "next" /\ box[watch] # 0 /\ held' = box[watch]
      /\ UNCHANGED <<originVars, wire, live, watch, exits>>
  BY DEF NextUpdate, Save
<1>2. watch \in Watch
  BY <1>1, BoundsHold DEF WatchersInv, LoopOK, Watch, Bounds
<1>3. held <= box[watch] /\ box[watch] \in 0 .. version /\ held \in 0 .. version
      /\ version \in Nat
  BY <1>1, <1>2, BoundsHold DEF WatchersInv, InOrder, WireOK, VersionOK, Bounds
<1>4. OnItsWay => OnItsWay'
  BY <1>1, <1>3 DEF OnItsWay, originVars
<1> QED
  BY <1>1, <1>4 DEF Arrives, KeyArrives, FileArrives, StaticRests, originVars

LEMMA TakeArrives ==
    ASSUME WatchersInv, Arrives, NEW n \in Watch, CallbackTake(n)
    PROVE  Arrives'
<1>1. /\ box[n] = 0 /\ wire[n] # <<>>
      /\ box' = [box EXCEPT ![n] = Head(wire[n])]
      /\ wire' = [wire EXCEPT ![n] = Tail(wire[n])]
      /\ UNCHANGED <<originVars, fileVars, loopVars, live>>
  BY DEF CallbackTake
<1>2. wire[n] \in Seq(0 .. version) /\ box'[n] = Head(wire[n]) /\ wire'[n] = Tail(wire[n])
  BY <1>1 DEF WatchersInv, WireOK
<1>3. CASE watch = n
  <2>1. box[watch] = version => held = version
    BY <1>1, <1>3 DEF WatchersInv, VersionOK
  <2>2. ASSUME NEW i \in DOMAIN wire[n], wire[n][i] = version
        PROVE  OnItsWay'
    <3>1. CASE i = 1
      <4>1. box'[n] = version
        BY <1>1, <1>2, <2>2, <3>1
      <4> QED
        BY <1>1, <1>3, <4>1 DEF OnItsWay, originVars, loopVars
    <3>2. CASE i # 1
      <4>1. /\ i - 1 \in DOMAIN Tail(wire[n])
            /\ Tail(wire[n])[i - 1] = wire[n][i]
        BY <1>1, <1>2, <3>2
      <4> QED
        BY <1>1, <1>2, <1>3, <2>2, <4>1 DEF OnItsWay, originVars, loopVars
    <3> QED
      BY <3>1, <3>2
  <2>3. held = version => OnItsWay'
    BY <1>1 DEF OnItsWay, originVars, loopVars
  <2>4. OnItsWay => OnItsWay'
    BY <2>1, <2>2, <2>3, <1>3 DEF OnItsWay
  <2> QED
    BY <1>1, <2>4 DEF Arrives, KeyArrives, FileArrives, StaticRests, originVars, loopVars,
                      fileVars
<1>4. CASE watch # n
  <2>1. box'[watch] = box[watch] /\ wire'[watch] = wire[watch]
    BY <1>1, <1>4 DEF WatchersInv, WireOK
  <2>2. OnItsWay => OnItsWay'
    BY <1>1, <2>1 DEF OnItsWay, originVars, loopVars
  <2> QED
    BY <1>1, <2>2 DEF Arrives, KeyArrives, FileArrives, StaticRests, originVars, loopVars,
                      fileVars
<1> QED
  BY <1>3, <1>4

LEMMA ArrivesStep ==
    ASSUME WatchersInv, Arrives, [Next]_vars
    PROVE  Arrives'
<1>1. CASE PutKey \/ ChangeFile
  BY <1>1, PutKeyArrives, ChangeFileArrives
<1>2. CASE Load
  <2>1. /\ UNCHANGED <<originVars, marked>> /\ pc' \in {"watch", "ended"}
        /\ pc' = "watch" => held' = version /\ exists
    BY <1>2 DEF Load, Readable
  <2> QED
    BY <2>1 DEF Arrives, KeyArrives, FileArrives, StaticRests, originVars
<1>3. CASE OpenWatch
  BY <1>3, OpenArrives
<1>4. CASE FirstAdd \/ NextEvent \/ ReadFile \/ AddAgain
  <2>1. kind = "file" /\ UNCHANGED originVars
    BY <1>4 DEF FirstAdd, NextEvent, ReadFile, AddAgain, WatchersInv, LoopOK
  <2>2. FileArrives'
    <3>1. CASE FirstAdd
      BY <2>1, <3>1 DEF FirstAdd, AddPath, Arrives, FileArrives, originVars
    <3>2. CASE NextEvent
      <4>1. marked' => marked \/ exists
        BY <3>2, Zenon DEF NextEvent
      <4>2. pc' \in {"retry", "read"} /\ (pc' = "retry" => excused')
        BY <3>2 DEF NextEvent, Fail
      <4> QED
        BY <2>1, <4>1, <4>2 DEF Arrives, FileArrives, originVars
    <3>3. CASE ReadFile
      BY <2>1, <3>3 DEF ReadFile, Readable, Fail, Arrives, FileArrives, originVars
    <3>4. CASE AddAgain
      BY <2>1, <3>4 DEF AddAgain, AddPath, Save, Fail, Arrives, FileArrives, originVars
    <3> QED
      BY <1>4, <3>1, <3>2, <3>3, <3>4
  <2> QED
    BY <2>1, <2>2 DEF Arrives, KeyArrives, StaticRests, originVars
<1>5. CASE NextStopped \/ Retry
  <2>1. /\ UNCHANGED <<originVars, marked, held>> /\ pc' \in {"retry", "watch", "ended"}
        /\ pc' = "retry" => excused'
        /\ pc' = "watch" => pc = "retry" /\ excused' = excused
    BY <1>5 DEF NextStopped, Retry, Fail, fileVars
  <2> QED
    BY <2>1 DEF Arrives, KeyArrives, FileArrives, StaticRests, originVars
<1>6. CASE NextUpdate
  BY <1>6, NextUpdateArrives
<1>7. CASE Close \/ \E n \in Watch : StopWatcher(n)
  <2>1. /\ UNCHANGED <<originVars, keyVars, fileVars, held, pc, watch>>
        /\ exits \subseteq exits'
    BY <1>7 DEF Close, StopWatcher
  <2> QED
    BY <2>1, KeyRests, FileRests DEF Arrives, StaticRests, originVars, keyVars, fileVars
<1>8. ASSUME NEW n \in Watch, CallbackTake(n) PROVE Arrives'
  BY <1>8, TakeArrives
<1>9. ASSUME NEW n \in Watch, CallbackExit(n) PROVE Arrives'
  <2>1. /\ UNCHANGED <<originVars, fileVars, loopVars, wire, box>>
        /\ n \in exits /\ live' = live \ {n}
    BY <1>9 DEF CallbackExit
  <2> QED
    BY <2>1, KeyRests, FileRests DEF Arrives, StaticRests, originVars, loopVars, fileVars
<1>10. CASE UNCHANGED vars \/ OpenFails
  BY <1>10, KeyRests, FileRests
     DEF OpenFails, vars, Arrives, StaticRests, originVars, loopVars, fileVars, keyVars
<1> QED
  BY <1>1, <1>2, <1>3, <1>4, <1>5, <1>6, <1>7, <1>8, <1>9, <1>10 DEF Next, Goroutine

\* A loop that waits in Next, with nothing on its way to it, holds what the source
\* contains and will hear of the next change; the excuse of a file is named in the
\* property (nats/watcher.go, file/watcher_linux.go, memory.go memory.watch).
THEOREM WaitingLosesNothing == Spec => []NothingLostInNext
<1>1. Spec => []WatchersInv
  BY InitHolds, InvariantStep, PTL DEF Spec
<1>2. WatchersInv /\ Arrives /\ [Next]_vars => Arrives'
  BY ArrivesStep
<1> QED
  BY <1>1, <1>2, ArrivesInit, ArrivesSuffices, PTL DEF Spec
-----------------------------------------------------------------------------
(* The goroutine of a closed loader runs down *)

Rank(label) ==
    CASE label = "load"             -> 6
      [] label = "watch"            -> 5
      [] label = "read"             -> 4
      [] label \in {"add", "readd"} -> 3
      [] label = "next"             -> 2
      [] label = "retry"            -> 1
      [] label = "ended"            -> 0

\* What is on its way to the loop; a watcher that is opened finds two entries at most.
Coming ==
    CASE pc \in {"load", "watch"} -> 4
      [] pc = "ended"             -> 0
      [] pc \notin {"load", "watch", "ended"} ->
           IF kind = "key" THEN 2 * Len(wire[watch]) + (IF box[watch] = 0 THEN 0 ELSE 1)
           ELSE IF kind = "file" THEN Len(events) ELSE 0

\* How many steps the loop has left at most; a change adds two events or one entry.
StepsLeft == 4 * (2 * (MaxChanges - version) + Coming) + Rank(pc)

RunsDown ==
    closed => /\ StepsLeft \in Nat
              /\ IF Goroutine THEN StepsLeft' < StepsLeft ELSE StepsLeft' <= StepsLeft

LEMMA RankType ==
    ASSUME WatchersInv PROVE Rank(pc) \in 0 .. 6
BY DEF WatchersInv, LoopOK, Rank

ComingTyped == Coming \in Nat

LEMMA ComingType == WatchersInv => ComingTyped
<1> SUFFICES ASSUME WatchersInv PROVE Coming \in Nat
  BY DEF ComingTyped
<1>1. pc \in {"load", "watch", "add", "next", "read", "readd", "retry", "ended"}
  BY DEF WatchersInv, LoopOK
<1>2. Len(events) \in Nat
  BY DEF WatchersInv, EventsOK
<1>3. CASE pc \notin {"load", "watch", "ended"} /\ kind = "key"
  <2>1. watch \in Watch
    BY <1>1, <1>3, BoundsHold DEF WatchersInv, LoopOK, Watch, Bounds
  <2>2. wire[watch] \in Seq(0 .. version)
    BY <2>1 DEF WatchersInv, WireOK
  <2>3. Len(wire[watch]) \in Nat
    BY <2>2
  <2>4. \/ Coming = 2 * Len(wire[watch]) + 0
        \/ Coming = 2 * Len(wire[watch]) + 1
    BY <1>3 DEF Coming
  <2>5. \A n \in Nat : 2 * n + 0 \in Nat /\ 2 * n + 1 \in Nat
    OBVIOUS
  <2> QED
    BY <2>3, <2>4, <2>5
<1>4. CASE pc \notin {"load", "watch", "ended"} /\ kind # "key"
  <2>1. Coming = Len(events) \/ Coming = 0
    BY <1>4 DEF Coming
  <2> QED
    BY <1>2, <2>1
<1>5. CASE pc \in {"load", "watch", "ended"}
  <2>1. Coming = 4 \/ Coming = 0
    BY <1>5 DEF Coming
  <2> QED
    BY <2>1
<1> QED
  BY <1>3, <1>4, <1>5

\* The numbers StepsLeft is made of, before and after a step.
LEMMA Numbers ==
    ASSUME WatchersInv
    PROVE  /\ MaxChanges - version \in Nat /\ Coming \in Nat /\ Rank(pc) \in 0 .. 6
           /\ StepsLeft \in Nat
<1>1. MaxChanges - version \in Nat
  BY BoundsHold DEF Bounds, WatchersInv, VersionOK
<1>2. \A m, c \in Nat : \A r \in 0 .. 6 : 4 * (2 * m + c) + r \in Nat
  OBVIOUS
<1> QED
  BY <1>1, <1>2, ComingType, RankType DEF StepsLeft, ComingTyped

LEMMA NumbersAfter ==
    ASSUME WatchersInv'
    PROVE  Coming' \in Nat /\ Rank(pc') \in 0 .. 6
           /\ StepsLeft' = 4 * (2 * (MaxChanges - version') + Coming') + Rank(pc')
<1>1. WatchersInv' => ComingTyped'
  BY ComingType, PTL
<1>2. Coming' \in Nat
  BY <1>1 DEF ComingTyped
<1>3. Rank(pc') \in 0 .. 6
  BY DEF WatchersInv, LoopOK, Rank
<1>4. StepsLeft' = 4 * (2 * (MaxChanges - version') + Coming') + Rank(pc')
  BY DEF StepsLeft, Rank
<1> QED
  BY <1>2, <1>3, <1>4

\* A loop that goes down in rank while no more comes, or takes what has come.
LEMMA Falls ==
    ASSUME WatchersInv, WatchersInv', version' = version,
           \/ Coming' <= Coming /\ Rank(pc') < Rank(pc)
           \/ Coming' < Coming /\ Rank(pc') <= Rank(pc) + 3
    PROVE  StepsLeft' < StepsLeft
<1>1. \A m, a, b \in Nat : \A p, q \in 0 .. 6 :
        (b <= a /\ q < p) \/ (b < a /\ q <= p + 3)
          => 4 * (2 * m + b) + q < 4 * (2 * m + a) + p
  OBVIOUS
<1>2. StepsLeft = 4 * (2 * (MaxChanges - version) + Coming) + Rank(pc)
  BY DEF StepsLeft
<1>3. StepsLeft' = 4 * (2 * (MaxChanges - version) + Coming') + Rank(pc')
  BY NumbersAfter
<1> QED
  BY <1>1, <1>2, <1>3, Numbers, NumbersAfter

LEMMA Differences ==
    /\ \A v \in 0 .. MaxChanges : MaxChanges - v \in Nat
    /\ \A v, u \in 0 .. MaxChanges :
         u = v + 1 => MaxChanges - u = (MaxChanges - v) - 1
BY BoundsHold DEF Bounds

LEMMA Rests ==
    ASSUME WatchersInv, WatchersInv', pc' = pc,
           \/ version' = version /\ Coming' <= Coming
           \/ version' = version + 1 /\ Coming' <= Coming + 2
    PROVE  StepsLeft' <= StepsLeft
<1>1. \A m, n, a, b \in Nat : \A p \in 0 .. 6 :
        (n = m /\ b <= a) \/ (n = m - 1 /\ b <= a + 2)
          => 4 * (2 * n + b) + p <= 4 * (2 * m + a) + p
  OBVIOUS
<1>2. StepsLeft = 4 * (2 * (MaxChanges - version) + Coming) + Rank(pc)
  BY DEF StepsLeft
<1>3. StepsLeft' = 4 * (2 * (MaxChanges - version') + Coming') + Rank(pc)
  BY NumbersAfter
<1>4. /\ MaxChanges \in Nat /\ version \in 0 .. MaxChanges
      /\ version' \in 0 .. MaxChanges
  BY BoundsHold DEF Bounds, WatchersInv, VersionOK
<1>5. MaxChanges - version \in Nat /\ MaxChanges - version' \in Nat
  BY <1>4, Differences
<1>6. version' = version + 1 => MaxChanges - version' = (MaxChanges - version) - 1
  BY <1>4, Differences
<1>7. \/ MaxChanges - version' = MaxChanges - version /\ Coming' <= Coming
      \/ MaxChanges - version' = (MaxChanges - version) - 1 /\ Coming' <= Coming + 2
  <2>1. CASE version' = version /\ Coming' <= Coming
    BY <2>1
  <2>2. CASE version' = version + 1 /\ Coming' <= Coming + 2
    BY <1>6, <2>2
  <2> QED
    BY <2>1, <2>2
<1> QED
  BY <1>1, <1>2, <1>3, <1>5, <1>7, Numbers, NumbersAfter

\* The subscription in use, as long as there is one.
LEMMA InUse ==
    ASSUME WatchersInv, pc \in {"add", "next", "read", "readd", "retry"}
    PROVE  /\ watch \in Watch /\ wire[watch] \in Seq(0 .. version)
           /\ box[watch] \in 0 .. version /\ version \in Nat
           /\ Coming = IF kind = "key"
                       THEN 2 * Len(wire[watch]) + (IF box[watch] = 0 THEN 0 ELSE 1)
                       ELSE IF kind = "file" THEN Len(events) ELSE 0
<1>1. watch \in Watch
  BY BoundsHold DEF WatchersInv, LoopOK, Watch, Bounds
<1>2. wire[watch] \in Seq(0 .. version) /\ box[watch] \in 0 .. version
  BY <1>1 DEF WatchersInv, WireOK
<1>3. version \in Nat
  BY DEF WatchersInv, VersionOK
<1> QED
  BY <1>1, <1>2, <1>3 DEF Coming

LEMMA OpenCounts ==
    ASSUME WatchersInv, WatchersInv', OpenWatch
    PROVE  StepsLeft' < StepsLeft
<1>1. pc = "watch" /\ Coming = 4 /\ version' = version
  BY DEF OpenWatch, Coming, originVars
<1>2. CASE OpenKey
  <2>1. watch' = watch + 1 /\ pc' = "next" /\ kind' = "key" /\ box' = box
    BY <1>1, <1>2 DEF OpenWatch, OpenKey, originVars
  <2>2. watch + 1 \in Watch /\ watch + 1 \notin live
    BY <1>1, <1>2, BoundsHold DEF OpenKey, WatchersInv, LoopOK, Watch, Bounds
  <2>3. box[watch + 1] = 0 /\ wire'[watch + 1] = Replay
    BY <1>2, <2>1, <2>2 DEF OpenKey, WatchersInv, WireOK
  <2>4. Len(Replay) \in {1, 2}
    BY DEF Replay
  <2>5. Coming' = 2 * Len(Replay)
    <3>1. box'[watch'] = 0 /\ wire'[watch'] = Replay
      BY <2>1, <2>3
    <3> QED
      BY <2>1, <3>1 DEF Coming
  <2>6. Coming' = 2 \/ Coming' = 4
    <3>1. PICK n \in {1, 2} : n = Len(Replay)
      BY <2>4
    <3>2. Coming' = 2 * n
      BY <2>5, <3>1
    <3> QED
      BY <3>2
  <2>7. Rank(pc') < Rank(pc)
    BY <1>1, <2>1 DEF Rank
  <2> QED
    BY <1>1, <2>6, <2>7, Falls
<1>3. CASE OpenFile \/ OpenStatic
  <2>1. kind' # "key" /\ pc' \in {"add", "next"}
    BY <1>3 DEF OpenWatch, OpenFile, OpenStatic, originVars
  <2>2. Rank(pc') < Rank(pc)
    BY <1>1, <2>1 DEF Rank
  <2>3. kind' = "file" => events' = <<>>
    BY <1>3 DEF OpenWatch, OpenFile, OpenStatic, originVars
  <2>4. Coming' = 0
    BY <2>1, <2>3 DEF Coming
  <2> QED
    BY <1>1, <2>2, <2>4, Falls
<1> QED
  BY <1>2, <1>3 DEF OpenWatch

\* Steps of the loop that leave what is on its way to it.
LEMMA SameComing ==
    ASSUME UNCHANGED <<kind, watch, wire, box, events>>,
           pc \in {"add", "next", "read", "readd", "retry"},
           pc' \in {"add", "next", "read", "readd", "retry", "ended"},
           Coming \in Nat
    PROVE  Coming' <= Coming
<1>1. CASE pc' = "ended"
  <2>1. Coming' = 0
    BY <1>1 DEF Coming
  <2> QED
    BY <2>1
<1>2. CASE pc' # "ended"
  <2>1. Coming' = Coming
    BY <1>2 DEF Coming
  <2> QED
    BY <2>1
<1> QED
  BY <1>1, <1>2

LEMMA GoroutineCounts ==
    ASSUME WatchersInv, WatchersInv', closed, Goroutine
    PROVE  StepsLeft' < StepsLeft
<1> USE DEF originVars, keyVars
<1>c. Coming \in Nat
  BY Numbers
<1>1. CASE Load
  <2>1. pc = "load" /\ pc' \in {"watch", "ended"} /\ version' = version
    BY <1>1 DEF Load
  <2>2. Coming = 4 /\ Coming' \in {4, 0}
    BY <2>1 DEF Coming
  <2>3. Rank(pc') < Rank(pc)
    BY <2>1 DEF Rank
  <2> QED
    BY <2>1, <2>2, <2>3, Falls
<1>2. CASE OpenWatch
  BY <1>2, OpenCounts
<1>3. CASE FirstAdd \/ NextStopped \/ ReadFile \/ AddAgain \/ Retry
  <2>1. UNCHANGED <<version, kind, watch, wire, box, events>>
    BY <1>3 DEF FirstAdd, NextStopped, ReadFile, AddAgain, Retry, Fail, fileVars
  <2>2. \/ pc = "add" /\ pc' = "next"
        \/ pc = "next" /\ pc' = "retry"
        \/ pc = "read" /\ pc' \in {"readd", "retry"}
        \/ pc = "readd" /\ pc' \in {"next", "retry"}
        \/ pc = "retry" /\ pc' = "ended"
    BY <1>3 DEF FirstAdd, NextStopped, ReadFile, AddAgain, Retry, Fail, Save
  <2>3. Rank(pc') < Rank(pc)
    BY <2>2 DEF Rank
  <2>4. Coming' <= Coming
    BY <1>c, <2>1, <2>2, SameComing
  <2> QED
    BY <2>1, <2>3, <2>4, Falls
<1>4. CASE NextUpdate
  <2>1. /\ pc = "next" /\ pc' \in {"next", "retry"} /\ kind = "key" /\ box[watch] # 0
        /\ UNCHANGED <<version, kind, watch, wire>> /\ box' = [box EXCEPT ![watch] = 0]
    BY <1>4 DEF NextUpdate, Save, Fail
  <2>2. watch \in Watch /\ Len(wire[watch]) \in Nat
    BY <2>1, InUse
  <2>3. box'[watch'] = 0 /\ wire'[watch'] = wire[watch]
    BY <2>1, <2>2 DEF WatchersInv, WireOK
  <2>4. Coming = 2 * Len(wire[watch]) + 1
    BY <2>1 DEF Coming
  <2>5. Coming' = 2 * Len(wire[watch])
    BY <2>1, <2>2, <2>3 DEF Coming
  <2>6. Coming' < Coming
    BY <2>2, <2>4, <2>5
  <2>7. Rank(pc') <= Rank(pc) + 3
    BY <2>1 DEF Rank
  <2> QED
    BY <2>1, <2>6, <2>7, Falls
<1>5. CASE NextEvent
  <2>1. /\ pc = "next" /\ pc' \in {"read", "retry"} /\ kind = "file"
        /\ UNCHANGED <<version, kind>> /\ events # <<>> /\ events' = Tail(events)
    BY <1>5 DEF NextEvent, Fail
  <2>2. Len(events) \in Nat /\ Len(events') = Len(events) - 1
    BY <2>1 DEF WatchersInv, EventsOK
  <2>3. Coming = Len(events) /\ Coming' = Len(events')
    BY <2>1 DEF Coming
  <2>4. Coming' < Coming
    BY <2>2, <2>3
  <2>5. Rank(pc') <= Rank(pc) + 3
    BY <2>1 DEF Rank
  <2> QED
    BY <2>1, <2>4, <2>5, Falls
<1> QED
  BY <1>1, <1>2, <1>3, <1>4, <1>5 DEF Goroutine

\* A change of the source is one fewer to come, and two of what is on its way at most.
LEMMA PutKeyCounts ==
    ASSUME WatchersInv, WatchersInv', PutKey
    PROVE  StepsLeft' <= StepsLeft
<1>1. /\ version' = version + 1 /\ UNCHANGED <<kind, pc, watch, box>> /\ kind = "key"
      /\ wire' = [n \in Watch |-> IF n \in live THEN Append(wire[n], version + 1)
                                  ELSE wire[n]]
  BY DEF PutKey, Changes, loopVars
<1>2. Coming \in Nat
  BY Numbers
<1>3. Coming' <= Coming + 2
  <2>1. CASE pc \in {"load", "watch", "ended"}
    <3>1. Coming' = Coming
      BY <1>1, <2>1 DEF Coming
    <3> QED
      BY <1>2, <3>1
  <2>2. CASE pc \notin {"load", "watch", "ended"}
    <3>1. pc \in {"add", "next", "read", "readd", "retry"}
      BY <2>2 DEF WatchersInv, LoopOK
    <3>2. watch \in Watch /\ wire[watch] \in Seq(0 .. version) /\ version \in Nat
      BY <3>1, InUse
    <3>3. wire'[watch] = wire[watch] \/ wire'[watch] = Append(wire[watch], version + 1)
      BY <1>1, <3>2
    <3>4. /\ Len(wire[watch]) \in Nat
          /\ Len(Append(wire[watch], version + 1)) = Len(wire[watch]) + 1
      BY <3>2
    <3>5. Len(wire'[watch]) \in {Len(wire[watch]), Len(wire[watch]) + 1}
      BY <3>3, <3>4
    <3>6. PICK b \in {0, 1} : b = (IF box[watch] = 0 THEN 0 ELSE 1)
      OBVIOUS
    <3>7. Coming = 2 * Len(wire[watch]) + b
      BY <1>1, <2>2, <3>6 DEF Coming
    <3>8. Coming' = 2 * Len(wire'[watch]) + b
      BY <1>1, <2>2, <3>6 DEF Coming
    <3> QED
      BY <3>4, <3>5, <3>7, <3>8
  <2> QED
    BY <2>1, <2>2
<1> QED
  BY <1>1, <1>3, Rests

LEMMA ReportCounts ==
    ASSUME EventsOK, NEW reports \in Seq({"other", "rename"}), Len(reports) <= 2,
           Report(reports)
    PROVE  Len(events') <= Len(events) + 2
<1>1. Len(events) \in Nat
  BY DEF EventsOK
<1>2. CASE events' = events
  BY <1>1, <1>2
<1>3. CASE events' = events \o reports
  BY <1>3 DEF EventsOK
<1>4. CASE events' = Append(events, "overflow")
  BY <1>4 DEF EventsOK
<1> QED
  BY <1>2, <1>3, <1>4 DEF Report

LEMMA ChangeFileCounts ==
    ASSUME WatchersInv, WatchersInv', ChangeFile
    PROVE  StepsLeft' <= StepsLeft
<1>1. version' = version + 1 /\ UNCHANGED <<kind, pc>> /\ kind = "file"
  BY DEF ChangeFile, Changes, loopVars
<1>2. Coming \in Nat /\ Len(events) \in Nat
  BY Numbers DEF WatchersInv, EventsOK
<1>3. Len(events') <= Len(events) + 2
  <2>1. /\ <<"other">> \in Seq({"other", "rename"}) /\ Len(<<"other">>) <= 2
        /\ <<"rename">> \in Seq({"other", "rename"}) /\ Len(<<"rename">>) <= 2
        /\ <<"other", "other">> \in Seq({"other", "rename"})
        /\ Len(<<"other", "other">>) <= 2
    OBVIOUS
  <2>2. \/ Report(<<"other">>) \/ Report(<<"rename">>) \/ Report(<<"other", "other">>)
        \/ UNCHANGED events
    BY DEF ChangeFile, WriteFile, ReplaceFile, RemoveFile, MoveFile, CreateFile, Unlink
  <2>3. CASE UNCHANGED events
    BY <1>2, <2>3
  <2> QED
    BY <2>1, <2>2, <2>3, ReportCounts DEF WatchersInv
<1>4. Coming' <= Coming + 2
  <2>1. CASE pc \in {"load", "watch", "ended"}
    <3>1. Coming' = Coming
      BY <1>1, <2>1 DEF Coming
    <3> QED
      BY <1>2, <3>1
  <2>2. CASE pc \notin {"load", "watch", "ended"}
    <3>1. Coming = Len(events) /\ Coming' = Len(events')
      BY <1>1, <2>2 DEF Coming
    <3> QED
      BY <1>3, <3>1
  <2> QED
    BY <2>1, <2>2
<1> QED
  BY <1>1, <1>4, Rests

LEMMA TailIsShorter ==
    ASSUME NEW S, NEW s \in Seq(S), s # <<>>
    PROVE  Len(Tail(s)) = Len(s) - 1 /\ Len(s) \in Nat
OBVIOUS

\* A callback takes an entry, which counts two, and sends it, which counts one.
LEMMA TakeCounts ==
    ASSUME WatchersInv, WatchersInv', NEW n \in Watch, CallbackTake(n)
    PROVE  StepsLeft' <= StepsLeft
<1>1. /\ UNCHANGED <<version, kind, pc, watch, events>> /\ box[n] = 0 /\ wire[n] # <<>>
      /\ box' = [box EXCEPT ![n] = Head(wire[n])]
      /\ wire' = [wire EXCEPT ![n] = Tail(wire[n])]
  BY DEF CallbackTake, originVars, fileVars, loopVars
<1>2. Coming \in Nat
  BY Numbers
<1>3. wire \in [Watch -> Seq(0 .. version)] /\ box \in [Watch -> 0 .. version]
  BY DEF WatchersInv, WireOK
<1>4. Coming' <= Coming
  <2>1. CASE pc \in {"load", "watch", "ended"} \/ kind # "key"
    <3>1. Coming' = Coming
      BY <1>1, <2>1 DEF Coming
    <3> QED
      BY <1>2, <3>1
  <2>2. CASE pc \notin {"load", "watch", "ended"} /\ kind = "key" /\ n # watch
    <3>1. pc \in {"add", "next", "read", "readd", "retry"}
      BY <2>2 DEF WatchersInv, LoopOK
    <3>2. watch \in Watch
      BY <3>1, InUse
    <3>3. wire'[watch'] = wire[watch] /\ box'[watch'] = box[watch]
      BY <1>1, <1>3, <2>2, <3>2
    <3>4. Coming' = Coming
      BY <1>1, <2>2, <3>3 DEF Coming
    <3> QED
      BY <1>2, <3>4
  <2>3. CASE pc \notin {"load", "watch", "ended"} /\ kind = "key" /\ n = watch
    <3>1. wire'[watch'] = Tail(wire[n]) /\ wire[n] \in Seq(0 .. version)
      BY <1>1, <1>3, <2>3
    <3>2. Len(wire'[watch']) = Len(wire[n]) - 1 /\ Len(wire[n]) \in Nat
      BY <1>1, <3>1, TailIsShorter
    <3>3. Coming = 2 * Len(wire[n])
      BY <1>1, <2>3, <3>2 DEF Coming
    <3>4. PICK b \in {0, 1} : b = (IF box'[watch'] = 0 THEN 0 ELSE 1)
      OBVIOUS
    <3>5. Coming' = 2 * Len(wire'[watch']) + b
      BY <1>1, <2>3, <3>4 DEF Coming
    <3> QED
      BY <3>2, <3>3, <3>5
  <2> QED
    BY <2>1, <2>2, <2>3
<1> QED
  BY <1>1, <1>4, Rests

LEMMA RunsDownStep ==
    ASSUME WatchersInv, WatchersInv', [Next]_vars
    PROVE  RunsDown
<1> SUFFICES ASSUME closed, ~Goroutine PROVE StepsLeft' <= StepsLeft
  BY GoroutineCounts, Numbers DEF RunsDown
<1>k. ASSUME UNCHANGED <<version, kind, pc, watch, wire, box, events>>
      PROVE  StepsLeft' <= StepsLeft
  <2>1. Coming' = Coming /\ Coming \in Nat
    BY <1>k, Numbers DEF Coming
  <2> QED
    BY <1>k, <2>1, Rests
<1> USE DEF originVars, keyVars, fileVars, loopVars
<1>1. CASE PutKey \/ ChangeFile
  BY <1>1, PutKeyCounts, ChangeFileCounts
<1>2. CASE Close
  BY <1>2, <1>k DEF Close
<1>3. ASSUME NEW n \in Watch, CallbackTake(n) PROVE StepsLeft' <= StepsLeft
  BY <1>3, TakeCounts
<1>4. ASSUME NEW n \in Watch, CallbackExit(n) \/ StopWatcher(n)
      PROVE  StepsLeft' <= StepsLeft
  BY <1>4, <1>k DEF CallbackExit, StopWatcher
<1>5. CASE UNCHANGED vars \/ OpenFails
  BY <1>5, <1>k DEF OpenFails, vars
<1> QED
  BY <1>1, <1>2, <1>3, <1>4, <1>5 DEF Next

\* Once the loader is closed, every step of the loop takes it closer to its end, but for
\* a Watch of a file that fails, which leaves it where it is; and no change, callback or
\* Stop takes it farther away (memory.go:57-127, the Next of each watcher).  It is the
\* part of CloseEndsWatch that needs no fairness.
THEOREM ClosedWatchRunsDown == Spec => [][RunsDown]_vars
<1>1. WatchersInv /\ WatchersInv' /\ [Next]_vars => [RunsDown]_vars
  BY RunsDownStep
<1> QED
  BY <1>1, InitHolds, InvariantStep, PTL DEF Spec
====================================================================================
