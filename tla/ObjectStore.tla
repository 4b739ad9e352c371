------------------------------- MODULE ObjectStore -------------------------------
(***************************************************************************)
(* The object storage client (storage/client.go) and a bucket other        *)
(* programs use too.  A request to the server is one step; a call that     *)
(* makes several, or that looks at a local file first, is several steps.   *)
(*                                                                         *)
(* Keys are numbers in the order in which the server lists them; objects   *)
(* are the sizes of their content.  Calls name the configured bucket, and  *)
(* every key has the prefix that is listed.                                *)
(***************************************************************************)
EXTENDS Naturals, FiniteSets, SequencesExt

CONSTANTS
    Client,         \* the Storage clients, one per process
    Key,            \* the keys, numbers from 1 on; 0 is the empty page token
    Limit,          \* Config.MaxObjectSize
    MaxSize,        \* the largest object there is
    ListPageSize,   \* listPageSize (1000)
    BatchSize,      \* keys in one DeleteObjects request of the library (1000)
    Buckets,        \* what the bucket may hold at first
    MaxForeign,     \* bound on what other programs do
    MaxFaults,      \* bound on requests that fail
    MaxOps          \* bound on the calls of a client

Size == 0 .. MaxSize
Objects == UNION {[K -> Size] : K \in SUBSET Key}

ASSUME StoreAssumption ==
    /\ Key \subseteq Nat \ {0} /\ IsFiniteSet(Key)
    /\ Limit \in Nat \ {0} /\ MaxSize \in Nat
    /\ ListPageSize \in Nat \ {0} /\ BatchSize \in Nat \ {0}
    /\ Buckets \subseteq Objects
    /\ MaxForeign \in Nat /\ MaxFaults \in Nat /\ MaxOps \in Nat

VARIABLES
    bucket,     \* the configured bucket exists
    objects,    \* what it holds, a function from the keys present to sizes
    file,       \* size of the local file that is uploaded or downloaded to
    foreign, faults, ops,   \* counters of the three bounds
    pc,         \* where each client is
    page,       \* the keys its List has collected
    token,      \* the page token its next List starts after
    todo,       \* the keys its Remove has not asked for yet
    failed,     \* firstErr of its Remove is set
    got,        \* what its Read or its Upload learnt about the size
    \* history variables
    listed,     \* the keys of the pages a walk through the bucket returned
    stable,     \* the keys that were present all the time since the walk began
    asked,      \* the keys of the Remove call
    erased,     \* those the server deleted for it
    ours,       \* the keys whose object a client put
    grown       \* those put from a file that changed after it was measured

storeVars == <<bucket, objects, file>>
walkVars  == <<page, token, listed>>
removeVars == <<todo, failed, asked, erased>>
counters  == <<foreign, faults, ops>>
vars == <<storeVars, counters, pc, walkVars, stable, removeVars, got, ours, grown>>

Init ==
    /\ bucket \in BOOLEAN
    /\ objects \in IF bucket THEN Buckets ELSE {<<>>}
    /\ file \in Size
    /\ foreign = 0 /\ faults = 0 /\ ops = [c \in Client |-> 0]
    /\ pc = [c \in Client |-> "down"]
    /\ page = [c \in Client |-> <<>>] /\ token = [c \in Client |-> 0]
    /\ todo = [c \in Client |-> {}] /\ failed = [c \in Client |-> FALSE]
    /\ got = [c \in Client |-> 0]
    /\ listed = [c \in Client |-> <<>>] /\ stable = [c \in Client |-> {}]
    /\ asked = [c \in Client |-> {}] /\ erased = [c \in Client |-> {}]
    /\ ours = {} /\ grown = {}

Present == DOMAIN objects

Goto(c, where) == pc' = [pc EXCEPT ![c] = where]

Fault == faults < MaxFaults /\ faults' = faults + 1 /\ UNCHANGED <<foreign, ops>>

\* A client begins a call of the Storage interface.
Begin(c) ==
    /\ pc[c] \in {"ready", "listed", "removed", "read"}
    /\ ops[c] < MaxOps
    /\ ops' = [ops EXCEPT ![c] = @ + 1] /\ UNCHANGED <<foreign, faults>>

\* The server stores an object under k.
Put(k, size) ==
    /\ objects' = [j \in Present \cup {k} |-> IF j = k THEN size ELSE objects[j]]
    /\ UNCHANGED stable

\* The server deletes objects.
Erase(K) ==
    /\ objects' = [j \in Present \ K |-> objects[j]]
    /\ stable' = [c \in Client |-> stable[c] \ K]
    /\ ours' = ours \ K /\ grown' = grown \ K

(***************************************************************************)
(* Other programs.                                                         *)
(***************************************************************************)

Foreign == foreign < MaxForeign /\ foreign' = foreign + 1 /\ UNCHANGED <<faults, ops>>

ForeignPut ==
    /\ bucket /\ Foreign
    /\ \E k \in Key, size \in Size :
         Put(k, size) /\ ours' = ours \ {k} /\ grown' = grown \ {k}
    /\ UNCHANGED <<bucket, file, pc, walkVars, removeVars, got>>

ForeignDelete ==
    /\ bucket /\ Foreign
    /\ \E k \in Present : Erase({k})
    /\ UNCHANGED <<bucket, file, pc, walkVars, removeVars, got>>

FileChanges ==
    /\ Foreign
    /\ file' \in Size \ {file}
    /\ UNCHANGED <<bucket, objects, pc, walkVars, stable, removeVars, got, ours, grown>>

(***************************************************************************)
(* newClient, ensureBucket.                                                *)
(***************************************************************************)

CheckBucket(c) ==
    /\ pc[c] \in {"down", "failed"}
    /\ \/ Goto(c, IF bucket THEN "ready" ELSE "absent") /\ UNCHANGED counters
       \/ Fault /\ Goto(c, "failed")
    /\ UNCHANGED <<storeVars, walkVars, stable, removeVars, got, ours, grown>>

\* The server refuses a bucket that exists by now, and newClient fails.
MakeBucket(c) ==
    /\ pc[c] = "absent"
    /\ \/ /\ bucket' = TRUE
          /\ Goto(c, IF bucket THEN "failed" ELSE "ready")
          /\ UNCHANGED counters
       \/ Fault /\ bucket' \in {bucket, TRUE} /\ Goto(c, "failed")
    /\ UNCHANGED <<objects, file, walkVars, stable, removeVars, got, ours, grown>>

(***************************************************************************)
(* List, collectListPage: a caller walks through the bucket page by page.  *)
(***************************************************************************)

\* The numbers of S in ascending order.
Ascending(S) ==
    CHOOSE s \in [1 .. Cardinality(S) -> S] :
      \A i, j \in DOMAIN s : i < j => s[i] < s[j]

\* Where the next request starts: after the page token, or after what the library
\* received last.
After(c) == IF page[c] = <<>> THEN token[c] ELSE Last(page[c])

Following(c) == Ascending({k \in Present : k > After(c)})

BeginWalk(c) ==
    /\ Begin(c)
    /\ Goto(c, "listing")
    /\ page' = [page EXCEPT ![c] = <<>>] /\ token' = [token EXCEPT ![c] = 0]
    /\ listed' = [listed EXCEPT ![c] = <<>>]
    /\ stable' = [stable EXCEPT ![c] = Present]
    /\ UNCHANGED <<storeVars, removeVars, got, ours, grown>>

\* Mutated form of NextPageToken: the token names the first key of the next page.
FirstKeyOfNextPage(c, n, full) ==
    IF full /\ n < Len(Following(c)) THEN Following(c)[n + 1] ELSE 0

\* The token of a full page is its last key; a page that is not full is the last.
NextPageToken(c, n, full) == IF full THEN Following(c)[n] ELSE 0

\* A request returns the first n keys after After(c), all or as many as it likes.  The
\* page ends when it is full; what else the library received is thrown away.
ListRequest(c) ==
    /\ pc[c] = "listing" /\ bucket
    /\ \E n \in 0 .. Min({Len(Following(c)), ListPageSize - Len(page[c])}) :
         LET collected == page[c] \o SubSeq(Following(c), 1, n)
             full == Len(collected) = ListPageSize
             next == NextPageToken(c, n, full)
         IN  /\ n = 0 => Following(c) = <<>>
             /\ IF full \/ n = Len(Following(c))
                THEN /\ page' = [page EXCEPT ![c] = <<>>]
                     /\ token' = [token EXCEPT ![c] = next]
                     /\ listed' = [listed EXCEPT ![c] = @ \o collected]
                     /\ Goto(c, IF next = 0 THEN "listed" ELSE "listing")
                ELSE /\ page' = [page EXCEPT ![c] = collected]
                     /\ UNCHANGED <<pc, token, listed>>
    /\ UNCHANGED <<storeVars, counters, stable, removeVars, got, ours, grown>>

\* A request fails: List returns the error and no page, and the caller asks again with
\* the token it has.
ListFails(c) ==
    /\ pc[c] = "listing" /\ Fault
    /\ page' = [page EXCEPT ![c] = <<>>]
    /\ UNCHANGED <<storeVars, pc, token, listed, stable, removeVars, got, ours, grown>>

(***************************************************************************)
(* Remove.                                                                 *)
(***************************************************************************)

\* Without keys Remove returns at once.
RemoveKeys(c) ==
    /\ Begin(c)
    /\ \E K \in SUBSET Key :
         /\ todo' = [todo EXCEPT ![c] = K] /\ asked' = [asked EXCEPT ![c] = K]
         /\ Goto(c, IF K = {} THEN "removed" ELSE "removing")
    /\ failed' = [failed EXCEPT ![c] = FALSE] /\ erased' = [erased EXCEPT ![c] = {}]
    /\ UNCHANGED <<storeVars, walkVars, stable, got, ours, grown>>

\* Mutated form of FirstErr: the error of the last batch counts.
LastErr(c, reported) == reported # {}

\* The first error is kept while the results are read to the end.
FirstErr(c, reported) == failed[c] \/ reported # {}

\* The library deletes the keys in batches.  Of each batch the server may leave some,
\* which it reports; when the answer is lost the library reports them all.
RemoveBatch(c) ==
    /\ pc[c] = "removing" /\ bucket
    /\ \E batch \in SUBSET todo[c], kept \in SUBSET todo[c], reported \in SUBSET todo[c] :
         /\ Cardinality(batch) = Min({BatchSize, Cardinality(todo[c])})
         /\ kept \subseteq reported /\ reported \in {kept, batch} /\ kept \subseteq batch
         /\ IF reported = {} THEN UNCHANGED counters ELSE Fault
         /\ Erase(batch \ kept)
         /\ erased' = [erased EXCEPT ![c] = @ \cup (batch \ kept)]
         /\ failed' = [failed EXCEPT ![c] = FirstErr(c, reported)]
         /\ todo' = [todo EXCEPT ![c] = @ \ batch]
         /\ Goto(c, IF todo[c] = batch THEN "removed" ELSE "removing")
    /\ UNCHANGED <<bucket, file, walkVars, asked, got>>

(***************************************************************************)
(* Read, Write, Upload, Download.                                          *)
(***************************************************************************)

\* GetObject and Stat: an object that is absent or too large is an error.
StatObject(c) ==
    /\ Begin(c) /\ bucket
    /\ \E k \in Present :
         /\ objects[k] <= Limit
         /\ Goto(c, "reading")
    /\ UNCHANGED <<storeVars, walkVars, stable, removeVars, got, ours, grown>>

\* What arrives is cut off above the limit, and refused then: it need not be as long
\* as Stat said.
ReadObject(c) ==
    /\ pc[c] = "reading"
    /\ \E size \in Size :
         LET content == Min({size, Limit + 1})
         IN  IF content > Limit
             THEN Goto(c, "ready") /\ UNCHANGED got
             ELSE Goto(c, "read") /\ got' = [got EXCEPT ![c] = content]
    /\ UNCHANGED <<storeVars, counters, walkVars, stable, removeVars, ours, grown>>

\* Mutated form of Acceptable: the declared size is trusted.
AcceptableAsDeclared(content, declared) ==
    LET size == IF declared = 0 THEN content ELSE declared
    IN  size <= Limit

\* validateWriteObject; a declared size of 0 stands for the length of the content.
Acceptable(content, declared) ==
    LET size == IF declared = 0 THEN content ELSE declared
    IN  size = content /\ size <= Limit

Write(c) ==
    /\ Begin(c) /\ bucket
    /\ \E k \in Key, content \in Size, declared \in Size :
         /\ Acceptable(content, declared)
         /\ Put(k, content)
         /\ ours' = ours \cup {k} /\ grown' = grown \ {k}
    /\ Goto(c, "ready")
    /\ UNCHANGED <<bucket, file, walkVars, removeVars, got>>

\* Upload measures the file ...
StatFile(c) ==
    /\ Begin(c)
    /\ file <= Limit
    /\ Goto(c, "uploading") /\ got' = [got EXCEPT ![c] = file]
    /\ UNCHANGED <<storeVars, walkVars, stable, removeVars, ours, grown>>

\* ... and then opens it.
PutFile(c) ==
    /\ pc[c] = "uploading" /\ bucket
    /\ \E k \in Key :
         /\ Put(k, file)
         /\ ours' = ours \cup {k}
         /\ grown' = IF file > got[c] THEN grown \cup {k} ELSE grown \ {k}
    /\ Goto(c, "ready")
    /\ UNCHANGED <<bucket, file, counters, walkVars, removeVars, got>>

\* Download has no limit.
Download(c) ==
    /\ Begin(c) /\ bucket
    /\ \E k \in Present : file' = objects[k]
    /\ Goto(c, "ready")
    /\ UNCHANGED <<bucket, objects, walkVars, stable, removeVars, got, ours, grown>>

Next ==
    \/ ForeignPut \/ ForeignDelete \/ FileChanges
    \/ \E c \in Client :
         \/ CheckBucket(c) \/ MakeBucket(c)
         \/ BeginWalk(c) \/ ListRequest(c) \/ ListFails(c)
         \/ RemoveKeys(c) \/ RemoveBatch(c)
         \/ StatObject(c) \/ ReadObject(c) \/ Write(c)
         \/ StatFile(c) \/ PutFile(c) \/ Download(c)

Spec == Init /\ [][Next]_vars

(***************************************************************************)
(* Properties.                                                             *)
(***************************************************************************)

\* A walk returns every object that was there all the time, and none twice, in the
\* order of the keys, whatever is put and deleted meanwhile (client.go List,
\* collectListPage).
WalkListsOnce ==
    \A c \in Client :
      /\ \A i, j \in DOMAIN listed[c] : i < j => listed[c][i] < listed[c][j]
      /\ pc[c] = "listed" => stable[c] \subseteq ToSet(listed[c])

\* No content above the limit is returned by Read, or stored by Write or Upload,
\* unless the file grew after Upload had measured it.
LimitHolds ==
    /\ \A c \in Client : got[c] <= Limit
    /\ \A k \in ours : objects[k] <= Limit \/ k \in grown

\* Remove reports success only if the server deleted every key for it (client.go
\* Remove), although the failures of several batches arrive one by one.
RemoveTellsTheTruth ==
    \A c \in Client : pc[c] = "removed" /\ ~failed[c] => asked[c] = erased[c]
==================================================================================
