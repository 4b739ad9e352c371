------------------------------ MODULE Libraries_proofs ------------------------------
(***************************************************************************)
(* Proofs about the libraries that MC_Libraries brings together:           *)
(* ObjectStore, Pagination, ErrorCodes, ProviderConfig and FileSearch, for *)
(* any values of their constants.                                          *)
(***************************************************************************)
EXTENDS MC_Libraries, Induction, FiniteSetTheorems, SequenceTheorems, TLAPS

-----------------------------------------------------------------------------
(* ObjectStore: Remove *)

Places == {"down", "absent", "failed", "ready", "listing", "listed", "removing", "removed",
           "reading", "read", "uploading"}

\* As long as no error was seen, what was asked for is what the server deleted and what
\* the library still has to ask for.
RemoveInv ==
    /\ pc \in [Client -> Places]
    /\ todo \in [Client -> SUBSET Key] /\ failed \in [Client -> BOOLEAN]
    /\ asked \in [Client -> SUBSET Key] /\ erased \in [Client -> SUBSET Key]
    /\ \A c \in Client :
         /\ pc[c] \in {"removing", "removed"} /\ ~failed[c] => asked[c] = erased[c] \cup todo[c]
         /\ pc[c] = "removed" => todo[c] = {}

\* Clients that are not in Remove come from elsewhere and go elsewhere.
LEMMA OtherCalls ==
    ASSUME RemoveInv, UNCHANGED removeVars, pc' \in [Client -> Places],
           \A c \in Client : pc'[c] \in {"removing", "removed"} => pc'[c] = pc[c]
    PROVE  RemoveInv'
BY DEF RemoveInv, removeVars

LEMMA MovesOn ==
    ASSUME RemoveInv, NEW c \in Client, NEW where \in Places, Goto(c, where),
           where \notin {"removing", "removed"}, UNCHANGED removeVars
    PROVE  RemoveInv'
<1>1. /\ pc' \in [Client -> Places]
      /\ \A d \in Client : pc'[d] \in {"removing", "removed"} => pc'[d] = pc[d]
  BY DEF Goto, RemoveInv
<1> QED
  BY <1>1, OtherCalls

LEMMA StaysInPlace ==
    ASSUME RemoveInv, UNCHANGED <<pc, removeVars>>
    PROVE  RemoveInv'
BY OtherCalls DEF RemoveInv

LEMMA RemoveKeysHolds ==
    ASSUME RemoveInv, NEW c \in Client, RemoveKeys(c)
    PROVE  RemoveInv'
<1>1. PICK K \in SUBSET Key :
        /\ todo' = [todo EXCEPT ![c] = K] /\ asked' = [asked EXCEPT ![c] = K]
        /\ Goto(c, IF K = {} THEN "removed" ELSE "removing")
  BY DEF RemoveKeys
<1>2. failed' = [failed EXCEPT ![c] = FALSE] /\ erased' = [erased EXCEPT ![c] = {}]
  BY DEF RemoveKeys
<1>3. pc' = [pc EXCEPT ![c] = IF K = {} THEN "removed" ELSE "removing"]
  BY <1>1 DEF Goto
<1>4. /\ pc' \in [Client -> Places]
      /\ todo' \in [Client -> SUBSET Key] /\ failed' \in [Client -> BOOLEAN]
      /\ asked' \in [Client -> SUBSET Key] /\ erased' \in [Client -> SUBSET Key]
  BY <1>1, <1>2, <1>3 DEF RemoveInv, Places
<1>5. asked'[c] = erased'[c] \cup todo'[c] /\ (pc'[c] = "removed" => todo'[c] = {})
  BY <1>1, <1>2, <1>3 DEF RemoveInv
<1>6. \A d \in Client \ {c} :
        /\ pc'[d] = pc[d] /\ todo'[d] = todo[d] /\ failed'[d] = failed[d]
        /\ asked'[d] = asked[d] /\ erased'[d] = erased[d]
  BY <1>1, <1>2, <1>3 DEF RemoveInv
<1> QED
  BY <1>4, <1>5, <1>6 DEF RemoveInv

LEMMA RemoveBatchHolds ==
    ASSUME RemoveInv, NEW c \in Client, RemoveBatch(c)
    PROVE  RemoveInv'
<1>1. PICK batch \in SUBSET todo[c], left \in SUBSET todo[c], reported \in SUBSET todo[c] :
        /\ left \subseteq reported /\ left \subseteq batch
        /\ erased' = [erased EXCEPT ![c] = @ \cup (batch \ left)]
        /\ failed' = [failed EXCEPT ![c] = FirstErr(c, reported)]
        /\ todo' = [todo EXCEPT ![c] = @ \ batch]
        /\ Goto(c, IF todo[c] = batch THEN "removed" ELSE "removing")
  BY DEF RemoveBatch
<1>2. asked' = asked /\ pc[c] = "removing" /\ todo[c] \subseteq Key
  BY DEF RemoveBatch, RemoveInv
<1>3. pc' = [pc EXCEPT ![c] = IF todo[c] = batch THEN "removed" ELSE "removing"]
  BY <1>1 DEF Goto
<1>4. failed' = [failed EXCEPT ![c] = failed[c] \/ reported # {}]
  BY <1>1 DEF FirstErr
<1>5. /\ pc' \in [Client -> Places]
      /\ todo' \in [Client -> SUBSET Key]
      /\ asked' \in [Client -> SUBSET Key] /\ erased' \in [Client -> SUBSET Key]
  BY <1>1, <1>2, <1>3 DEF RemoveInv, Places
<1>6. failed' \in [Client -> BOOLEAN]
  BY <1>4 DEF RemoveInv
<1>7. ASSUME ~failed'[c] PROVE asked'[c] = erased'[c] \cup todo'[c]
  <2>1. ~failed[c] /\ reported = {}
    BY <1>4, <1>7 DEF RemoveInv
  <2>2. asked[c] = erased[c] \cup todo[c]
    BY <1>2, <2>1 DEF RemoveInv
  <2>3. erased'[c] = erased[c] \cup batch /\ todo'[c] = todo[c] \ batch
    BY <1>1, <2>1 DEF RemoveInv
  <2> QED
    BY <1>1, <1>2, <2>2, <2>3
<1>8. pc'[c] = "removed" => todo'[c] = {}
  BY <1>1, <1>3 DEF RemoveInv
<1>9. \A d \in Client \ {c} :
        /\ pc'[d] = pc[d] /\ todo'[d] = todo[d] /\ failed'[d] = failed[d]
        /\ asked'[d] = asked[d] /\ erased'[d] = erased[d]
  BY <1>1, <1>2, <1>3, <1>4 DEF RemoveInv
<1> QED
  BY <1>5, <1>6, <1>7, <1>8, <1>9 DEF RemoveInv

LEMMA RemoveInvStep ==
    ASSUME RemoveInv, [Next]_vars
    PROVE  RemoveInv'
<1>1. CASE ForeignPut \/ ForeignDelete \/ FileChanges
  BY <1>1, StaysInPlace DEF ForeignPut, ForeignDelete, FileChanges
<1>2. ASSUME NEW c \in Client, CheckBucket(c) \/ MakeBucket(c) PROVE RemoveInv'
  <2>1. UNCHANGED removeVars
    BY <1>2 DEF CheckBucket, MakeBucket
  <2>2. Goto(c, "ready") \/ Goto(c, "absent") \/ Goto(c, "failed")
    BY <1>2 DEF CheckBucket, MakeBucket
  <2> QED
    BY <2>1, <2>2, MovesOn DEF Places
<1>3. ASSUME NEW c \in Client, BeginWalk(c) \/ ListRequest(c) \/ ListFails(c)
      PROVE RemoveInv'
  <2>1. UNCHANGED removeVars
    BY <1>3 DEF BeginWalk, ListRequest, ListFails
  <2>2. Goto(c, "listing") \/ Goto(c, "listed") \/ UNCHANGED pc
    <3>1. CASE BeginWalk(c)
      BY <3>1 DEF BeginWalk
    <3>2. CASE ListRequest(c)
      BY <3>2 DEF ListRequest
    <3>3. CASE ListFails(c)
      BY <3>3 DEF ListFails
    <3> QED
      BY <1>3, <3>1, <3>2, <3>3
  <2> QED
    BY <2>1, <2>2, MovesOn, StaysInPlace DEF Places
<1>4. ASSUME NEW c \in Client, RemoveKeys(c) PROVE RemoveInv'
  BY <1>4, RemoveKeysHolds
<1>5. ASSUME NEW c \in Client, RemoveBatch(c) PROVE RemoveInv'
  BY <1>5, RemoveBatchHolds
<1>6. ASSUME NEW c \in Client, StatObject(c) \/ ReadObject(c) PROVE RemoveInv'
  <2>1. UNCHANGED removeVars
    BY <1>6 DEF StatObject, ReadObject
  <2>2. Goto(c, "reading") \/ Goto(c, "ready") \/ Goto(c, "read")
    BY <1>6 DEF StatObject, ReadObject
  <2> QED
    BY <2>1, <2>2, MovesOn DEF Places
<1>7. ASSUME NEW c \in Client, Write(c) \/ StatFile(c) \/ PutFile(c) \/ Download(c)
      PROVE RemoveInv'
  <2>1. UNCHANGED removeVars
    BY <1>7 DEF Write, StatFile, PutFile, Download
  <2>2. Goto(c, "ready") \/ Goto(c, "uploading")
    BY <1>7 DEF Write, StatFile, PutFile, Download
  <2> QED
    BY <2>1, <2>2, MovesOn DEF Places
<1>8. CASE UNCHANGED vars
  BY <1>8, StaysInPlace DEF vars
<1> QED
  BY <1>1, <1>2, <1>3, <1>4, <1>5, <1>6, <1>7, <1>8 DEF Next

\* Remove reports success only if the server deleted every key for it, in any number of
\* batches and whatever fails (client.go Remove).
THEOREM RemoveNeverLies == Spec => []RemoveTellsTheTruth
<1>1. Init => RemoveInv
  BY DEF Init, RemoveInv, Places
<1>2. RemoveInv /\ [Next]_vars => RemoveInv'
  BY RemoveInvStep
<1>3. RemoveInv => RemoveTellsTheTruth
  BY DEF RemoveInv, RemoveTellsTheTruth
<1> QED
  BY <1>1, <1>2, <1>3, PTL DEF Spec

-----------------------------------------------------------------------------
(* ObjectStore: the limit *)

StoreTypes ==
    /\ objects \in [Present -> Nat] /\ file \in Nat
    /\ got \in [Client -> Nat] /\ ours \subseteq Present

\* LimitHolds, with the types it needs.
LimitInv == StoreTypes /\ LimitHolds

LEMMA SizesAreNumbers == Size \subseteq Nat /\ Limit \in Nat
BY StoreAssumption DEF Size

LEMMA LimitInit == Init => LimitInv
<1> SUFFICES ASSUME Init PROVE LimitInv
  OBVIOUS
<1>1. objects \in Buckets \/ objects = <<>>
  BY DEF Init
<1>2. objects \in [Present -> Nat]
  <2>1. CASE objects \in Buckets
    BY <2>1, SizesAreNumbers, StoreAssumption DEF Objects, Present
  <2>2. CASE objects = <<>>
    BY <2>2 DEF Present
  <2> QED
    BY <1>1, <2>1, <2>2
<1>3. /\ file \in Nat /\ got = [c \in Client |-> 0] /\ ours = {} /\ Limit \in Nat
  BY SizesAreNumbers DEF Init
<1> QED
  BY <1>2, <1>3 DEF LimitInv, LimitHolds, StoreTypes

\* An object is put under k; it is one of ours only if it keeps the limit or grew.
LEMMA PutKeepsLimit ==
    ASSUME LimitInv, NEW k \in Key, NEW size \in Nat, Put(k, size),
           UNCHANGED <<file, got>>, NEW more \in SUBSET {k},
           ours' = (ours \ {k}) \cup more,
           k \in more => size <= Limit \/ k \in grown',
           \A j \in grown \ {k} : j \in grown'
    PROVE  LimitInv'
<1>1. objects' = [j \in Present \cup {k} |-> IF j = k THEN size ELSE objects[j]]
  BY DEF Put
<1>2. /\ Present' = Present \cup {k} /\ objects' \in [Present \cup {k} -> Nat]
      /\ objects'[k] = size /\ \A j \in Present \ {k} : objects'[j] = objects[j]
  BY <1>1 DEF LimitInv, StoreTypes, Present
<1>3. ASSUME NEW j \in ours' PROVE objects'[j] <= Limit \/ j \in grown'
  <2>1. CASE j = k
    BY <2>1, <1>2, <1>3
  <2>2. CASE j # k
    <3>1. j \in ours /\ j \in Present
      BY <2>2, <1>3 DEF LimitInv, StoreTypes
    <3> QED
      BY <2>2, <3>1, <1>2 DEF LimitInv, LimitHolds
  <2> QED
    BY <2>1, <2>2
<1>4. StoreTypes'
  BY <1>2 DEF LimitInv, StoreTypes
<1> QED
  BY <1>3, <1>4 DEF LimitInv, LimitHolds

LEMMA EraseKeepsLimit ==
    ASSUME LimitInv, NEW K, Erase(K), UNCHANGED <<file, got>>
    PROVE  LimitInv'
<1>1. /\ objects' = [j \in Present \ K |-> objects[j]]
      /\ ours' = ours \ K /\ grown' = grown \ K
  BY DEF Erase
<1>2. /\ Present' = Present \ K /\ objects' \in [Present \ K -> Nat]
      /\ \A j \in Present \ K : objects'[j] = objects[j]
  BY <1>1 DEF LimitInv, StoreTypes, Present
<1>3. StoreTypes'
  BY <1>1, <1>2 DEF LimitInv, StoreTypes
<1> QED
  BY <1>1, <1>2, <1>3 DEF LimitInv, LimitHolds, StoreTypes

LEMMA NothingPut ==
    ASSUME LimitInv, UNCHANGED <<objects, ours, grown>>, file' \in Nat,
           got' \in [Client -> Nat], \A c \in Client : got'[c] <= Limit
    PROVE  LimitInv'
BY DEF LimitInv, LimitHolds, StoreTypes, Present

\* ReadObject cuts what arrives off above the limit.
LEMMA MinOfTwo ==
    ASSUME NEW a \in Nat, NEW b \in Nat
    PROVE  Min({a, b}) \in {a, b} /\ Min({a, b}) <= a /\ Min({a, b}) <= b
<1>1. CASE a <= b
  <2>1. \A y \in {a, b} : a <= y
    BY <1>1
  <2> QED
    BY <2>1 DEF Min
<1>2. CASE b <= a
  <2>1. \A y \in {a, b} : b <= y
    BY <1>2
  <2> QED
    BY <2>1 DEF Min
<1> QED
  BY <1>1, <1>2

LEMMA ReadKeepsLimit ==
    ASSUME LimitInv, NEW c \in Client, ReadObject(c)
    PROVE  LimitInv'
<1>1. PICK size \in Size :
        LET content == Min({size, Limit + 1})
        IN  IF content > Limit
            THEN UNCHANGED got
            ELSE got' = [got EXCEPT ![c] = content]
  BY DEF ReadObject
<1>2. Min({size, Limit + 1}) \in Nat /\ Limit \in Nat
  BY SizesAreNumbers, MinOfTwo
<1>3. \/ got' = got
      \/ \E content \in Nat : content <= Limit /\ got' = [got EXCEPT ![c] = content]
  BY <1>1, <1>2
<1>4. got' \in [Client -> Nat] /\ \A d \in Client : got'[d] <= Limit
  BY <1>3 DEF LimitInv, LimitHolds, StoreTypes
<1>5. UNCHANGED <<objects, ours, grown, file>>
  BY DEF ReadObject, storeVars
<1> QED
  BY <1>4, <1>5, NothingPut DEF LimitInv, StoreTypes

LEMMA WriteKeepsLimit ==
    ASSUME LimitInv, NEW c \in Client, Write(c)
    PROVE  LimitInv'
<1>1. PICK k \in Key, content \in Size, declared \in Size :
        /\ Acceptable(content, declared) /\ Put(k, content)
        /\ ours' = ours \cup {k} /\ grown' = grown \ {k}
  BY DEF Write
<1>2. content <= Limit /\ content \in Nat
  BY <1>1, SizesAreNumbers DEF Acceptable
<1>3. UNCHANGED <<file, got>> /\ ours' = (ours \ {k}) \cup {k}
  BY <1>1 DEF Write
<1> QED
  BY <1>1, <1>2, <1>3, PutKeepsLimit

LEMMA PutFileKeepsLimit ==
    ASSUME LimitInv, NEW c \in Client, PutFile(c)
    PROVE  LimitInv'
<1>1. PICK k \in Key :
        /\ Put(k, file) /\ ours' = ours \cup {k}
        /\ grown' = IF file > got[c] THEN grown \cup {k} ELSE grown \ {k}
  BY DEF PutFile
<1>2. UNCHANGED <<file, got>> /\ ours' = (ours \ {k}) \cup {k} /\ file \in Nat
  BY <1>1 DEF PutFile, LimitInv, StoreTypes
<1>3. file <= Limit \/ k \in grown'
  <2>1. file \in Nat /\ got[c] \in Nat /\ Limit \in Nat /\ got[c] <= Limit
    BY SizesAreNumbers DEF LimitInv, LimitHolds, StoreTypes
  <2> QED
    BY <1>1, <2>1
<1>4. \A j \in grown \ {k} : j \in grown'
  BY <1>1
<1> QED
  BY <1>1, <1>2, <1>3, <1>4, PutKeepsLimit

LEMMA ForeignKeepsLimit ==
    ASSUME LimitInv, ForeignPut \/ ForeignDelete \/ FileChanges
    PROVE  LimitInv'
<1>1. CASE ForeignPut
  <2>1. PICK k \in Key, size \in Size :
          Put(k, size) /\ ours' = ours \ {k} /\ grown' = grown \ {k}
    BY <1>1 DEF ForeignPut
  <2>2. PICK none \in SUBSET {k} : none = {}
    OBVIOUS
  <2>3. /\ UNCHANGED <<file, got>> /\ size \in Nat
        /\ ours' = (ours \ {k}) \cup none
    BY <1>1, <2>1, <2>2, SizesAreNumbers DEF ForeignPut
  <2>4. /\ k \in none => size <= Limit \/ k \in grown'
        /\ \A j \in grown \ {k} : j \in grown'
    BY <2>1, <2>2
  <2> QED
    BY <2>1, <2>3, <2>4, PutKeepsLimit
<1>2. CASE ForeignDelete
  BY <1>2, EraseKeepsLimit DEF ForeignDelete
<1>3. CASE FileChanges
  <2>1. UNCHANGED <<objects, ours, grown, got>> /\ file' \in Nat
    BY <1>3, SizesAreNumbers DEF FileChanges
  <2> QED
    BY <2>1, NothingPut DEF LimitInv, LimitHolds, StoreTypes
<1> QED
  BY <1>1, <1>2, <1>3

LEMMA LimitInvStep ==
    ASSUME LimitInv, [Next]_vars
    PROVE  LimitInv'
<1> DEFINE same == UNCHANGED <<objects, ours, grown, got, file>>
<1>0. same => LimitInv'
  BY NothingPut DEF LimitInv, LimitHolds, StoreTypes
<1>1. CASE ForeignPut \/ ForeignDelete \/ FileChanges
  BY <1>1, ForeignKeepsLimit
<1>2. ASSUME NEW c \in Client, CheckBucket(c) \/ MakeBucket(c) PROVE LimitInv'
  <2>1. same
    BY <1>2 DEF CheckBucket, MakeBucket, storeVars
  <2> QED
    BY <2>1, <1>0
<1>3. ASSUME NEW c \in Client, BeginWalk(c) \/ ListRequest(c) \/ ListFails(c)
      PROVE LimitInv'
  <2>1. same
    BY <1>3 DEF BeginWalk, ListRequest, ListFails, storeVars
  <2> QED
    BY <2>1, <1>0
<1>4. ASSUME NEW c \in Client, RemoveKeys(c) PROVE LimitInv'
  <2>1. same
    BY <1>4 DEF RemoveKeys, storeVars
  <2> QED
    BY <2>1, <1>0
<1>5. ASSUME NEW c \in Client, RemoveBatch(c) PROVE LimitInv'
  <2>1. UNCHANGED <<file, got>> /\ \E K \in SUBSET todo[c] : Erase(K)
    BY <1>5 DEF RemoveBatch
  <2> QED
    BY <2>1, EraseKeepsLimit
<1>6. ASSUME NEW c \in Client, StatObject(c) PROVE LimitInv'
  <2>1. same
    BY <1>6 DEF StatObject, storeVars
  <2> QED
    BY <2>1, <1>0
<1>7. ASSUME NEW c \in Client, StatFile(c) PROVE LimitInv'
  <2>1. /\ UNCHANGED <<objects, ours, grown, file>> /\ file <= Limit
        /\ got' = [got EXCEPT ![c] = file]
    BY <1>7 DEF StatFile, storeVars
  <2>2. file' \in Nat /\ got' \in [Client -> Nat] /\ \A d \in Client : got'[d] <= Limit
    BY <2>1 DEF LimitInv, LimitHolds, StoreTypes
  <2> QED
    BY <2>1, <2>2, NothingPut
<1>8. ASSUME NEW c \in Client, Download(c) PROVE LimitInv'
  <2>1. UNCHANGED <<objects, ours, grown, got>> /\ file' \in Nat
    BY <1>8 DEF Download, LimitInv, StoreTypes
  <2> QED
    BY <2>1, NothingPut DEF LimitInv, LimitHolds, StoreTypes
<1>9. CASE UNCHANGED vars
  BY <1>9, <1>0 DEF vars, storeVars
<1> QED
  BY <1>1, <1>2, <1>3, <1>4, <1>5, <1>6, <1>7, <1>8, <1>9,
     ReadKeepsLimit, WriteKeepsLimit, PutFileKeepsLimit DEF Next

\* No client returns or stores more than the limit, unless a file grew between the two
\* looks Upload takes at it (client.go Read, Write, Upload).
THEOREM LimitIsKept == Spec => []LimitHolds
<1>1. Init => LimitInv
  BY LimitInit
<1>2. LimitInv /\ [Next]_vars => LimitInv'
  BY LimitInvStep
<1>3. LimitInv => LimitHolds
  BY DEF LimitInv
<1> QED
  BY <1>1, <1>2, <1>3, PTL DEF Spec

-----------------------------------------------------------------------------
(* ObjectStore: a walk through the bucket *)

WalkTyped ==
    /\ pc \in [Client -> Places] /\ token \in [Client -> Key \cup {0}]
    /\ page \in [Client -> Seq(Key)] /\ listed \in [Client -> Seq(Key)]
    /\ stable \in [Client -> SUBSET Key] /\ Present \subseteq Key

\* The pages returned are in order and end at the token, the keys collected since then
\* begin behind it, and what was passed over has not been there all the time.
WalkOf(c) ==
    /\ stable[c] \subseteq Present
    /\ Ascends(listed[c])
    /\ pc[c] = "listed" => stable[c] \subseteq ToSet(listed[c])
    /\ pc[c] = "listing" =>
         /\ Ascends(page[c]) /\ Len(page[c]) < ListPageSize
         /\ \A i \in DOMAIN listed[c] : listed[c][i] <= token[c]
         /\ \A i \in DOMAIN page[c] : token[c] < page[c][i]
         /\ \A k \in stable[c] : k <= After(c) => k \in ToSet(listed[c]) \cup ToSet(page[c])

WalkInv == WalkTyped /\ \A c \in Client : WalkOf(c)

LEMMA KeysAreNumbers ==
    /\ Key \subseteq Nat \ {0} /\ Key \cup {0} \subseteq Nat
    /\ ListPageSize \in Nat \ {0}
BY StoreAssumption

LEMMA PrefixOf ==
    ASSUME NEW S, NEW s \in Seq(S), NEW n \in 0 .. Len(s)
    PROVE  LET r == SubSeq(s, 1, n)
           IN  /\ r \in Seq(S) /\ Len(r) = n
               /\ \A i \in 1 .. n : r[i] = s[i]
OBVIOUS

\* One ascending sequence behind another.
LEMMA Between == \A a, b, d \in Nat : a <= d /\ b > d => a < b
OBVIOUS

LEMMA OneBehindTheOther ==
    ASSUME NEW s \in Seq(Nat), NEW r \in Seq(Nat), Ascends(s), Ascends(r),
           \A i \in DOMAIN s, j \in DOMAIN r : s[i] < r[j]
    PROVE  Ascends(s \o r)
<1> DEFINE both == s \o r
<1>1. /\ DOMAIN both = 1 .. (Len(s) + Len(r)) /\ Len(s) \in Nat /\ Len(r) \in Nat
      /\ \A i \in 1 .. Len(s) : both[i] = s[i]
      /\ \A i \in (Len(s) + 1) .. (Len(s) + Len(r)) : both[i] = r[i - Len(s)]
      /\ DOMAIN s = 1 .. Len(s) /\ DOMAIN r = 1 .. Len(r)
  OBVIOUS
<1> HIDE DEF both
<1>2. ASSUME NEW i \in 1 .. (Len(s) + Len(r)), NEW j \in 1 .. (Len(s) + Len(r)), i < j
      PROVE  both[i] < both[j]
  <2>1. CASE j <= Len(s)
    <3>1. i \in 1 .. Len(s) /\ j \in 1 .. Len(s)
      BY <1>1, <1>2, <2>1
    <3> QED
      BY <1>1, <1>2, <3>1 DEF Ascends
  <2>2. CASE i > Len(s)
    <3>1. /\ i \in (Len(s) + 1) .. (Len(s) + Len(r)) /\ j \in (Len(s) + 1) .. (Len(s) + Len(r))
          /\ i - Len(s) \in 1 .. Len(r) /\ j - Len(s) \in 1 .. Len(r)
          /\ i - Len(s) < j - Len(s)
      BY <1>1, <1>2, <2>2
    <3> QED
      BY <1>1, <3>1 DEF Ascends
  <2>3. CASE i <= Len(s) /\ j > Len(s)
    <3>1. /\ i \in 1 .. Len(s) /\ j \in (Len(s) + 1) .. (Len(s) + Len(r))
          /\ j - Len(s) \in 1 .. Len(r)
      BY <1>1, <1>2, <2>3
    <3> QED
      BY <1>1, <3>1
  <2> QED
    BY <1>1, <2>1, <2>2, <2>3
<1>3. Ascends(both)
  BY <1>1, <1>2 DEF Ascends
<1> QED
  BY <1>3 DEF both

LEMMA BothHaveIt ==
    ASSUME NEW s \in Seq(Nat), NEW r \in Seq(Nat)
    PROVE  ToSet(s \o r) = ToSet(s) \cup ToSet(r)
<1>1. /\ Len(s \o r) = Len(s) + Len(r) /\ s \o r \in Seq(Nat)
      /\ \A i \in 1 .. Len(s) : (s \o r)[i] = s[i]
      /\ \A i \in (Len(s) + 1) .. (Len(s) + Len(r)) : (s \o r)[i] = r[i - Len(s)]
  OBVIOUS
<1>2. ASSUME NEW k \in ToSet(s \o r) PROVE k \in ToSet(s) \cup ToSet(r)
  <2>1. PICK i \in 1 .. Len(s \o r) : (s \o r)[i] = k
    BY <1>1 DEF ToSet
  <2>2. CASE i <= Len(s)
    BY <1>1, <2>1, <2>2 DEF ToSet
  <2>3. CASE i > Len(s)
    <3>1. i - Len(s) \in DOMAIN r /\ r[i - Len(s)] = k
      BY <1>1, <2>1, <2>3
    <3> QED
      BY <3>1 DEF ToSet
  <2> QED
    BY <2>2, <2>3
<1>3. ASSUME NEW k \in ToSet(s) PROVE k \in ToSet(s \o r)
  <2>1. PICK i \in DOMAIN s : s[i] = k
    BY DEF ToSet
  <2>2. i \in DOMAIN (s \o r) /\ (s \o r)[i] = k
    BY <1>1, <2>1
  <2> QED
    BY <2>2 DEF ToSet
<1>4. ASSUME NEW k \in ToSet(r) PROVE k \in ToSet(s \o r)
  <2>1. PICK i \in DOMAIN r : r[i] = k
    BY DEF ToSet
  <2>2. /\ i + Len(s) \in (Len(s) + 1) .. (Len(s) + Len(r)) /\ (i + Len(s)) - Len(s) = i
        /\ i + Len(s) \in DOMAIN (s \o r)
    BY <1>1
  <2>3. (s \o r)[i + Len(s)] = k
    BY <1>1, <2>1, <2>2
  <2> QED
    BY <2>2, <2>3 DEF ToSet
<1> QED
  BY <1>2, <1>3, <1>4

\* What a request of a walk may return: all that is behind After(c), in order.
LEMMA FollowingIsTheRest ==
    ASSUME WalkTyped, NEW c \in Client
    PROVE  LET F == Following(c)
           IN  /\ F \in Seq(Key) /\ Ascends(F)
               /\ \A i \in DOMAIN F : F[i] \in Present /\ F[i] > After(c)
               /\ \A k \in Present : k > After(c) => \E i \in DOMAIN F : F[i] = k
<1> DEFINE S == {k \in Present : k > After(c)}
           F == Following(c)
<1>1. S \in SUBSET Key /\ S \in SUBSET Nat /\ IsFiniteSet(S)
  <2>1. S \in SUBSET Key
    BY DEF WalkTyped
  <2> HIDE DEF S
  <2>2. IsFiniteSet(S)
    BY <2>1, StoreAssumption, FS_Subset
  <2> QED
    BY <2>1, <2>2, KeysAreNumbers
<1>2. F = Ascending(S)
  BY DEF Following
<1> DEFINE N == Cardinality(S)
<1> HIDE DEF S, F
<1>3. F \in [1 .. N -> S] /\ Ascends(F)
  BY <1>1, <1>2, AscendingExists DEF Ascending, Ascends
<1>4. N \in Nat
  BY <1>1, FS_CardinalityType
<1>5. \A k \in S : \E i \in 1 .. N : F[i] = k
  BY <1>1, <1>3, AscendingIsAll
<1> HIDE DEF N
<1>6. F \in Seq(Key) /\ DOMAIN F = 1 .. N /\ \A i \in 1 .. N : F[i] \in S
  <2>1. F \in [1 .. N -> Key] /\ \A i \in 1 .. N : F[i] \in S
    BY <1>1, <1>3
  <2> QED
    BY <1>4, <2>1
<1> QED
  BY <1>3, <1>5, <1>6 DEF S, F

\* After(c) is the end of what was collected.
LEMMA AfterIsTheEnd ==
    ASSUME WalkInv, NEW c \in Client, pc[c] = "listing"
    PROVE  /\ After(c) \in Nat /\ token[c] <= After(c)
           /\ \A i \in DOMAIN page[c] : page[c][i] <= After(c)
<1>1. page[c] \in Seq(Key) /\ token[c] \in Nat
  <2>1. page[c] \in Seq(Key) /\ token[c] \in Key \cup {0}
    BY DEF WalkInv, WalkTyped
  <2>2. \A k \in Key \cup {0} : k \in Nat
    BY KeysAreNumbers
  <2> QED
    BY <2>1, <2>2
<1>2. Ascends(page[c]) /\ \A i \in DOMAIN page[c] : token[c] < page[c][i]
  BY DEF WalkInv, WalkOf
<1>3. CASE page[c] = <<>>
  BY <1>1, <1>3 DEF After
<1>4. CASE page[c] # <<>>
  <2>1. /\ Len(page[c]) \in Nat \ {0} /\ DOMAIN page[c] = 1 .. Len(page[c])
        /\ \A i \in DOMAIN page[c] : page[c][i] \in Nat
    <3>1. \A s \in Seq(Key) : s # <<>> =>
            Len(s) \in Nat \ {0} /\ DOMAIN s = 1 .. Len(s) /\ \A i \in DOMAIN s : s[i] \in Key
      OBVIOUS
    <3> QED
      BY <1>1, <1>4, <3>1, KeysAreNumbers
  <2>2. After(c) = page[c][Len(page[c])]
    BY <1>4 DEF After, Last
  <2>3. ASSUME NEW i \in DOMAIN page[c] PROVE page[c][i] <= After(c)
    BY <1>2, <2>1, <2>2 DEF Ascends
  <2> QED
    BY <1>1, <1>2, <2>1, <2>2, <2>3
<1> QED
  BY <1>3, <1>4

LEMMA KeySequences ==
    ASSUME NEW s \in Seq(Key)
    PROVE  s \in Seq(Nat) /\ Len(s) \in Nat /\ DOMAIN s = 1 .. Len(s)
<1>1. Key \subseteq Nat
  BY KeysAreNumbers
<1>2. s \in Seq(Nat)
  BY <1>1, SeqMonotonic, Zenon
<1> QED
  BY <1>2

LEMMA SequencesOfNumbers ==
    ASSUME NEW s \in Seq(Nat)
    PROVE  /\ Len(s) \in Nat /\ DOMAIN s = 1 .. Len(s) /\ \A i \in DOMAIN s : s[i] \in Nat
           /\ \A k : k \in ToSet(s) <=> \E i \in DOMAIN s : s[i] = k
<1>1. Len(s) \in Nat /\ DOMAIN s = 1 .. Len(s) /\ \A i \in DOMAIN s : s[i] \in Nat
  OBVIOUS
<1> QED
  BY <1>1 DEF ToSet

\* What was listed, L, what was collected for the page, P, and the first n of what
\* follows, F, one behind the other.
InOneLine(L, P, F, n, from, C) ==
    /\ C \in Seq(Nat) /\ L \o C \in Seq(Nat) /\ Ascends(C) /\ Ascends(L \o C)
    /\ \A i \in DOMAIN C : from < C[i]
    /\ \A k : k \in ToSet(C) <=> k \in ToSet(P) \/ \E i \in 1 .. n : F[i] = k
    /\ ToSet(L \o C) = ToSet(L) \cup ToSet(C)
    /\ n \in DOMAIN F => \A k \in ToSet(L \o C) : k <= F[n]

LEMMA ChunkBehindPage ==
    ASSUME NEW L \in Seq(Nat), NEW P \in Seq(Nat), NEW F \in Seq(Nat), NEW n \in 0 .. Len(F),
           NEW from \in Nat, NEW after \in Nat, from <= after,
           Ascends(L), Ascends(P), Ascends(F),
           \A i \in DOMAIN L : L[i] <= from,
           \A i \in DOMAIN P : from < P[i] /\ P[i] <= after,
           \A i \in DOMAIN F : F[i] > after,
           NEW C, C = P \o SubSeq(F, 1, n)
    PROVE  InOneLine(L, P, F, n, from, C)
<1> DEFINE chunk == SubSeq(F, 1, n)
<1>0. n \in Nat /\ n <= Len(F) /\ DOMAIN F = 1 .. Len(F) /\ Len(F) \in Nat
  BY SequencesOfNumbers
<1>1. /\ chunk \in Seq(Nat) /\ DOMAIN chunk = 1 .. n
      /\ \A i \in 1 .. n : chunk[i] = F[i]
  BY PrefixOf
<1> HIDE DEF chunk
<1>2. C = P \o chunk
  BY DEF chunk
<1>3. C \in Seq(Nat) /\ L \o C \in Seq(Nat)
  <2>1. P \o chunk \in Seq(Nat)
    BY <1>1
  <2>2. C \in Seq(Nat)
    BY <1>2, <2>1
  <2> QED
    BY <2>2
<1>4. ASSUME NEW i \in 1 .. n PROVE F[i] \in Nat /\ F[i] > after /\ i \in DOMAIN F
  <2>1. i \in DOMAIN F
    BY <1>0
  <2> QED
    BY <2>1, SequencesOfNumbers
<1>5. Ascends(chunk)
  BY <1>1, <1>4 DEF Ascends
<1>6. \A i \in DOMAIN P : P[i] \in Nat /\ from < P[i] /\ P[i] <= after
  BY SequencesOfNumbers
<1>7. Ascends(C)
  <2>1. ASSUME NEW i \in DOMAIN P, NEW j \in DOMAIN chunk PROVE P[i] < chunk[j]
    <3>1. j \in 1 .. n /\ chunk[j] = F[j]
      BY <1>1
    <3>2. P[i] \in Nat /\ P[i] <= after
      BY <1>6
    <3>3. F[j] \in Nat /\ F[j] > after
      BY <1>4, <3>1
    <3> QED
      BY <3>1, <3>2, <3>3, Between, Zenon
  <2> QED
    BY <1>1, <1>2, <2>1, <1>5, OneBehindTheOther
<1>8. \A k : k \in ToSet(C) <=> k \in ToSet(P) \/ \E i \in 1 .. n : F[i] = k
  <2>1. \A k : k \in ToSet(chunk) <=> \E i \in 1 .. n : F[i] = k
    BY <1>1 DEF ToSet
  <2>2. ToSet(C) = ToSet(P) \cup ToSet(chunk)
    BY <1>1, <1>2, BothHaveIt
  <2> QED
    BY <2>1, <2>2
<1>9. \A k \in ToSet(P) : k \in Nat /\ from < k /\ k <= after
  BY <1>6, SequencesOfNumbers
<1>10. \A k \in ToSet(C) : k \in Nat /\ from < k
  BY <1>4, <1>8, <1>9
<1>11. \A i \in DOMAIN C : from < C[i] /\ C[i] \in Nat
  BY <1>3, <1>10, SequencesOfNumbers
<1>12. Ascends(L \o C)
  <2>1. \A i \in DOMAIN L : L[i] \in Nat /\ L[i] <= from
    BY SequencesOfNumbers
  <2>2. ASSUME NEW i \in DOMAIN L, NEW j \in DOMAIN C PROVE L[i] < C[j]
    <3>1. L[i] \in Nat /\ L[i] <= from /\ from < C[j] /\ C[j] \in Nat
      BY <1>11, <2>1
    <3>2. \A l, m, k \in Nat : l <= k /\ k < m => l < m
      OBVIOUS
    <3> QED
      BY <3>1, <3>2, Zenon
  <2> QED
    BY <1>3, <1>7, <2>2, OneBehindTheOther
<1>13. ToSet(L \o C) = ToSet(L) \cup ToSet(C)
  BY <1>3, BothHaveIt
<1>14. ASSUME n \in DOMAIN F, NEW k \in ToSet(L \o C) PROVE k <= F[n]
  <2>1. F[n] \in Nat /\ F[n] > after
    BY <1>14, SequencesOfNumbers
  <2>2. CASE k \in ToSet(L)
    <3>1. k \in Nat /\ k <= from
      BY <2>2, SequencesOfNumbers
    <3> QED
      BY <2>1, <3>1
  <2>3. CASE k \in ToSet(P)
    BY <1>9, <2>1, <2>3
  <2>4. CASE \E i \in 1 .. n : F[i] = k
    <3>1. PICK i \in 1 .. n : k = F[i]
      BY <2>4
    <3>2. i < n => F[i] < F[n]
      BY <1>0, <1>4, <1>14 DEF Ascends
    <3> QED
      BY <1>0, <1>4, <2>1, <3>1, <3>2
  <2> QED
    BY <1>8, <1>13, <2>2, <2>3, <2>4
<1> QED
  BY <1>3, <1>7, <1>8, <1>11, <1>12, <1>13, <1>14 DEF InOneLine

\* A client whose walk does not go on.
LEMMA WalkStays ==
    ASSUME WalkInv, NEW c \in Client,
           pc'[c] = pc[c] \/ pc'[c] \notin {"listing", "listed"},
           page'[c] = page[c], token'[c] = token[c], listed'[c] = listed[c],
           stable'[c] \subseteq stable[c], stable'[c] \subseteq Present'
    PROVE  WalkOf(c)'
<1>1. After(c)' = After(c)
  BY DEF After
<1>2. WalkOf(c)
  BY DEF WalkInv
<1> QED
  BY <1>1, <1>2 DEF WalkOf

LEMMA ListRequestHolds ==
    ASSUME WalkInv, NEW c \in Client, ListRequest(c)
    PROVE  WalkInv'
<1> DEFINE L == listed[c]
           P == page[c]
           F == Following(c)
           after == After(c)
           from == token[c]
<1>1. /\ UNCHANGED <<stable, objects>> /\ pc[c] = "listing"
      /\ Present' = Present
  BY DEF ListRequest, storeVars, Present
<1>2. /\ L \in Seq(Key) /\ P \in Seq(Key) /\ Key \subseteq Nat \ {0} /\ from \in Nat
      /\ Present \subseteq Key /\ ListPageSize \in Nat \ {0}
  <2>1. from \in Key \cup {0} /\ L \in Seq(Key) /\ P \in Seq(Key) /\ Present \subseteq Key
    BY DEF WalkInv, WalkTyped
  <2>2. \A k \in Key \cup {0} : k \in Nat
    BY KeysAreNumbers
  <2> QED
    BY <2>1, <2>2, KeysAreNumbers
<1>3. /\ F \in Seq(Key) /\ Ascends(F)
      /\ \A i \in DOMAIN F : F[i] \in Present /\ F[i] > after
      /\ \A k \in Present : k > after => \E i \in DOMAIN F : F[i] = k
  BY FollowingIsTheRest DEF WalkInv
<1>4. /\ Ascends(L) /\ Ascends(P) /\ Len(P) < ListPageSize /\ stable[c] \subseteq Present
      /\ \A i \in DOMAIN L : L[i] <= from
      /\ \A i \in DOMAIN P : from < P[i]
      /\ \A k \in stable[c] : k <= after => k \in ToSet(L) \cup ToSet(P)
  BY <1>1 DEF WalkInv, WalkOf
<1>5. after \in Nat /\ from <= after /\ \A i \in DOMAIN P : P[i] <= after
  BY <1>1, AfterIsTheEnd
<1>6. PICK n \in 0 .. Min({Len(F), ListPageSize - Len(P)}) :
        LET collected == P \o SubSeq(F, 1, n)
            full == Len(collected) = ListPageSize
            next == NextPageToken(c, n, full)
        IN  /\ n = 0 => F = <<>>
            /\ IF full \/ n = Len(F)
               THEN /\ page' = [page EXCEPT ![c] = <<>>]
                    /\ token' = [token EXCEPT ![c] = next]
                    /\ listed' = [listed EXCEPT ![c] = @ \o collected]
                    /\ Goto(c, IF next = 0 THEN "listed" ELSE "listing")
               ELSE /\ page' = [page EXCEPT ![c] = collected]
                    /\ UNCHANGED <<pc, token, listed>>
  BY DEF ListRequest
<1> DEFINE C == P \o SubSeq(F, 1, n)
           full == Len(C) = ListPageSize
           next == IF full THEN F[n] ELSE 0
<1>7. /\ n = 0 => F = <<>>
      /\ full \/ n = Len(F) =>
           /\ page' = [page EXCEPT ![c] = <<>>]
           /\ token' = [token EXCEPT ![c] = next]
           /\ listed' = [listed EXCEPT ![c] = L \o C]
           /\ pc' = [pc EXCEPT ![c] = IF next = 0 THEN "listed" ELSE "listing"]
      /\ ~full /\ n # Len(F) =>
           page' = [page EXCEPT ![c] = C] /\ UNCHANGED <<pc, token, listed>>
  BY <1>6 DEF NextPageToken, Goto
<1> HIDE DEF L, P, F, after, from
<1>8. /\ Len(P) \in Nat /\ Len(F) \in Nat /\ n \in 0 .. Len(F) /\ DOMAIN F = 1 .. Len(F)
      /\ L \in Seq(Nat) /\ P \in Seq(Nat) /\ F \in Seq(Nat) /\ n <= ListPageSize - Len(P)
  <2>1. \A s \in Seq(Key) : s \in Seq(Nat) /\ Len(s) \in Nat /\ DOMAIN s = 1 .. Len(s)
    BY KeySequences
  <2>2. ListPageSize - Len(P) \in Nat /\ Len(F) \in Nat
    BY <2>1, <1>2, <1>3, <1>4
  <2>3. /\ Min({Len(F), ListPageSize - Len(P)}) \in Nat
        /\ Min({Len(F), ListPageSize - Len(P)}) <= Len(F)
        /\ Min({Len(F), ListPageSize - Len(P)}) <= ListPageSize - Len(P)
    BY <2>2, MinOfTwo
  <2>4. n <= Len(F) /\ n <= ListPageSize - Len(P) /\ n \in Nat
    BY <2>2, <2>3
  <2> QED
    BY <2>1, <2>2, <2>4, <1>2, <1>3
<1>9. /\ C \in Seq(Nat) /\ L \o C \in Seq(Nat) /\ Ascends(C) /\ Ascends(L \o C)
      /\ \A i \in DOMAIN C : from < C[i]
      /\ \A k : k \in ToSet(C) <=> k \in ToSet(P) \/ \E i \in 1 .. n : F[i] = k
      /\ ToSet(L \o C) = ToSet(L) \cup ToSet(C)
      /\ n \in DOMAIN F => \A k \in ToSet(L \o C) : k <= F[n]
  <2>1. C = P \o SubSeq(F, 1, n)
    OBVIOUS
  <2>2. \A i \in DOMAIN P : from < P[i] /\ P[i] <= after
    BY <1>4, <1>5
  <2>3. \A i \in DOMAIN F : F[i] > after
    BY <1>3
  <2>4. L \in Seq(Nat) /\ P \in Seq(Nat) /\ F \in Seq(Nat) /\ n \in 0 .. Len(F)
    BY <1>8
  <2>5. Ascends(L) /\ Ascends(P) /\ Ascends(F) /\ \A i \in DOMAIN L : L[i] <= from
    BY <1>3, <1>4
  <2> HIDE DEF C
  <2>6. InOneLine(L, P, F, n, from, C)
    BY <2>1, <2>2, <2>3, <2>4, <2>5, <1>2, <1>5, ChunkBehindPage
  <2> QED
    BY <2>6 DEF InOneLine
<1>10. /\ C \in Seq(Key) /\ L \o C \in Seq(Key) /\ Len(C) = Len(P) + n
  <2>1. SubSeq(F, 1, n) \in Seq(Key) /\ Len(SubSeq(F, 1, n)) = n
    BY <1>3, <1>8, PrefixOf
  <2> QED
    BY <1>2, <2>1
<1>11. full => n \in DOMAIN F /\ next \in Key /\ next # 0
  <2>1. ASSUME full PROVE n \in DOMAIN F
    BY <1>2, <1>4, <1>8, <1>10, <2>1
  <2> HIDE DEF C
  <2> QED
    BY <1>2, <1>3, <2>1
\* What was there all the time and does not follow the chunk is listed or collected.
<1>12. ASSUME NEW k \in stable[c], k <= after \/ n = Len(F) \/ (n \in DOMAIN F /\ k <= F[n])
       PROVE  k \in ToSet(L) \cup ToSet(C)
  <2>1. k \in Present /\ k \in Nat
    BY <1>2, <1>4
  <2>2. CASE k <= after
    BY <1>4, <1>9, <2>2
  <2>3. CASE k > after
    <3>1. PICK i \in DOMAIN F : F[i] = k
      BY <1>3, <2>1, <2>3
    <3>2. i \in 1 .. n
      <4>1. CASE n = Len(F)
        BY <1>8, <4>1
      <4>2. CASE n \in DOMAIN F /\ k <= F[n]
        <5>1. F[n] \in Nat /\ n \in DOMAIN F
          BY <1>8, <4>2
        <5>2. n < i => F[n] < F[i]
          BY <1>3, <5>1 DEF Ascends
        <5> QED
          BY <1>8, <2>1, <3>1, <4>2, <5>1, <5>2
      <4> QED
        BY <1>5, <1>12, <2>1, <2>3, <4>1, <4>2
    <3> QED
      BY <1>9, <3>1, <3>2
  <2> QED
    BY <1>5, <2>1, <2>2, <2>3
<1>13. \A d \in Client \ {c} :
         pc'[d] = pc[d] /\ page'[d] = page[d] /\ token'[d] = token[d] /\ listed'[d] = listed[d]
  <2> HIDE DEF C
  <2> QED
    BY <1>7 DEF WalkInv, WalkTyped
<1> HIDE DEF C, full
<1>14. WalkTyped'
  <2>1. <<>> \in Seq(Key) /\ next \in Key \cup {0}
    BY <1>11
  <2> DEFINE where == IF next = 0 THEN "listed" ELSE "listing"
  <2>2. where \in Places
    BY DEF Places
  <2>3. /\ page \in [Client -> Seq(Key)] /\ listed \in [Client -> Seq(Key)]
        /\ token \in [Client -> Key \cup {0}] /\ pc \in [Client -> Places]
        /\ stable \in [Client -> SUBSET Key] /\ Present \subseteq Key
    BY DEF WalkInv, WalkTyped
  <2>4. ASSUME full \/ n = Len(F)
        PROVE  /\ page' \in [Client -> Seq(Key)] /\ listed' \in [Client -> Seq(Key)]
               /\ token' \in [Client -> Key \cup {0}] /\ pc' \in [Client -> Places]
    <3>1. /\ page' = [page EXCEPT ![c] = <<>>] /\ token' = [token EXCEPT ![c] = next]
          /\ listed' = [listed EXCEPT ![c] = L \o C] /\ pc' = [pc EXCEPT ![c] = where]
      BY <1>7, <2>4
    <3> HIDE DEF next, where
    <3>2. page' \in [Client -> Seq(Key)]
      BY <2>1, <2>3, <3>1
    <3>3. listed' \in [Client -> Seq(Key)]
      BY <1>10, <2>3, <3>1
    <3>4. token' \in [Client -> Key \cup {0}]
      BY <2>1, <2>3, <3>1
    <3>5. pc' \in [Client -> Places]
      BY <2>2, <2>3, <3>1
    <3> QED
      BY <3>2, <3>3, <3>4, <3>5
  <2>5. ASSUME ~(full \/ n = Len(F))
        PROVE  /\ page' \in [Client -> Seq(Key)] /\ listed' \in [Client -> Seq(Key)]
               /\ token' \in [Client -> Key \cup {0}] /\ pc' \in [Client -> Places]
    <3>1. page' = [page EXCEPT ![c] = C] /\ token' = token /\ listed' = listed /\ pc' = pc
      BY <1>7, <2>5
    <3>2. page' \in [Client -> Seq(Key)]
      BY <1>10, <2>3, <3>1
    <3> QED
      BY <2>3, <3>1, <3>2
  <2>6. stable' \in [Client -> SUBSET Key] /\ Present' \subseteq Key
    BY <1>1, <2>3
  <2> HIDE DEF next
  <2> QED
    BY <2>4, <2>5, <2>6 DEF WalkTyped
<1>15. ASSUME full PROVE WalkOf(c)'
  <2>1. /\ page'[c] = <<>> /\ token'[c] = next /\ listed'[c] = L \o C /\ pc'[c] = "listing"
        /\ next = F[n] /\ n \in DOMAIN F
    BY <1>7, <1>11, <1>15 DEF WalkInv, WalkTyped
  <2>2. After(c)' = next
    BY <2>1 DEF After
  <2>3. Ascends(<<>>) /\ Len(<<>>) = 0 /\ 0 < ListPageSize /\ DOMAIN <<>> = {}
    BY <1>2 DEF Ascends
  <2>4. \A i \in DOMAIN (L \o C) : (L \o C)[i] <= next
    BY <1>9, <2>1 DEF ToSet
  <2>5. \A k \in stable[c] : k <= next => k \in ToSet(L \o C)
    BY <1>9, <1>12, <2>1
  <2> HIDE DEF next
  <2> QED
    BY <1>1, <1>4, <1>9, <2>1, <2>2, <2>3, <2>4, <2>5 DEF WalkOf
<1>16. ASSUME ~full, n = Len(F) PROVE WalkOf(c)'
  <2>1. listed'[c] = L \o C /\ pc'[c] = "listed"
    BY <1>7, <1>16 DEF WalkInv, WalkTyped
  <2>2. stable[c] \subseteq ToSet(L \o C)
    BY <1>9, <1>12, <1>16
  <2> QED
    BY <1>1, <1>4, <1>9, <2>1, <2>2 DEF WalkOf
<1>17. ASSUME ~full, n # Len(F) PROVE WalkOf(c)'
  <2>1. page'[c] = C /\ pc'[c] = "listing" /\ token'[c] = from /\ listed'[c] = L
    BY <1>1, <1>7, <1>17 DEF WalkInv, WalkTyped, L, from
  <2>2. n \in DOMAIN F
    <3>1. n # 0
      BY <1>7, <1>17
    <3> QED
      BY <1>8, <3>1
  <2>3. Len(C) < ListPageSize /\ C # <<>>
    BY <1>2, <1>8, <1>10, <1>17, <2>2 DEF full
  <2>4. After(c)' = F[n]
    <3>1. Last(C) = F[n]
      <4>1. SubSeq(F, 1, n) \in Seq(Nat) /\ Len(SubSeq(F, 1, n)) = n /\ SubSeq(F, 1, n)[n] = F[n]
        BY <1>8, <2>2, PrefixOf
      <4>2. C[Len(P) + n] = SubSeq(F, 1, n)[n]
        <5>1. Len(P) + n \in (Len(P) + 1) .. (Len(P) + n) /\ (Len(P) + n) - Len(P) = n
          BY <1>8, <2>2
        <5>2. \A s, r \in Seq(Nat) : \A i \in (Len(s) + 1) .. (Len(s) + Len(r)) :
                (s \o r)[i] = r[i - Len(s)]
          OBVIOUS
        <5> QED
          BY <1>8, <4>1, <5>1, <5>2 DEF C
      <4> QED
        BY <1>10, <4>1, <4>2 DEF Last
    <3> QED
      BY <2>1, <2>3, <3>1 DEF After
  <2>5. \A k \in stable[c] : k <= F[n] => k \in ToSet(L) \cup ToSet(C)
    BY <1>12, <2>2
  <2> QED
    BY <1>1, <1>4, <1>9, <2>1, <2>3, <2>4, <2>5 DEF WalkOf
<1>18. ASSUME NEW d \in Client \ {c} PROVE WalkOf(d)'
  <2>1. stable'[d] \subseteq Present'
    BY <1>1 DEF WalkInv, WalkOf
  <2> QED
    BY <1>1, <1>13, <2>1, WalkStays
<1> QED
  BY <1>14, <1>15, <1>16, <1>17, <1>18 DEF WalkInv

LEMMA BeginWalkHolds ==
    ASSUME WalkInv, NEW c \in Client, BeginWalk(c)
    PROVE  WalkInv'
<1>1. /\ pc' = [pc EXCEPT ![c] = "listing"]
      /\ page' = [page EXCEPT ![c] = <<>>] /\ token' = [token EXCEPT ![c] = 0]
      /\ listed' = [listed EXCEPT ![c] = <<>>] /\ stable' = [stable EXCEPT ![c] = Present]
      /\ Present' = Present
  BY DEF BeginWalk, Goto, storeVars, Present
<1>2. WalkTyped'
  <2>1. Present \in SUBSET Key /\ <<>> \in Seq(Key)
    BY DEF WalkInv, WalkTyped
  <2>2. /\ pc' \in [Client -> Places] /\ token' \in [Client -> Key \cup {0}]
        /\ stable' \in [Client -> SUBSET Key]
    BY <1>1, <2>1 DEF WalkInv, WalkTyped, Places
  <2>3. page' \in [Client -> Seq(Key)] /\ listed' \in [Client -> Seq(Key)]
    BY <1>1, <2>1 DEF WalkInv, WalkTyped
  <2> QED
    BY <1>1, <2>1, <2>2, <2>3 DEF WalkTyped
<1>3. WalkOf(c)'
  <2>1. /\ pc'[c] = "listing" /\ page'[c] = <<>> /\ listed'[c] = <<>> /\ token'[c] = 0
        /\ stable'[c] = Present'
    BY <1>1 DEF WalkInv, WalkTyped
  <2>2. Ascends(<<>>) /\ Len(<<>>) = 0 /\ 0 < ListPageSize /\ DOMAIN <<>> = {}
    BY KeysAreNumbers DEF Ascends
  <2>3. After(c)' = 0
    BY <2>1 DEF After
  <2>4. \A k \in stable'[c] : ~(k <= 0)
    <3>1. \A k \in Key : ~(k <= 0)
      BY KeysAreNumbers
    <3> QED
      BY <1>1, <2>1, <3>1 DEF WalkInv, WalkTyped
  <2> QED
    BY <2>1, <2>2, <2>3, <2>4 DEF WalkOf
<1>4. ASSUME NEW d \in Client \ {c} PROVE WalkOf(d)'
  <2>1. /\ pc'[d] = pc[d] /\ page'[d] = page[d] /\ token'[d] = token[d]
        /\ listed'[d] = listed[d] /\ stable'[d] = stable[d] /\ stable[d] \subseteq Present
    BY <1>1 DEF WalkInv, WalkTyped, WalkOf
  <2> QED
    BY <1>1, <2>1, WalkStays
<1> QED
  BY <1>2, <1>3, <1>4 DEF WalkInv

\* The request failed: what was collected for the page is thrown away.
LEMMA ListFailsHolds ==
    ASSUME WalkInv, NEW c \in Client, ListFails(c)
    PROVE  WalkInv'
<1>1. /\ page' = [page EXCEPT ![c] = <<>>] /\ pc[c] = "listing"
      /\ UNCHANGED <<pc, token, listed, stable>> /\ Present' = Present
  BY DEF ListFails, storeVars, Present
<1>2. WalkTyped'
  <2>1. <<>> \in Seq(Key)
    OBVIOUS
  <2> QED
    BY <1>1, <2>1 DEF WalkInv, WalkTyped
<1>3. WalkOf(c)'
  <2>1. page'[c] = <<>>
    BY <1>1 DEF WalkInv, WalkTyped
  <2>2. After(c)' = token[c]
    BY <1>1, <2>1 DEF After
  <2>3. Ascends(<<>>) /\ Len(<<>>) = 0 /\ 0 < ListPageSize /\ DOMAIN <<>> = {}
    BY KeysAreNumbers DEF Ascends
  <2>4. WalkOf(c) /\ page[c] \in Seq(Key)
    BY DEF WalkInv, WalkTyped
  <2>5. ASSUME NEW k \in stable[c], k <= token[c] PROVE k \in ToSet(listed[c])
    <3>1. k \in Nat /\ token[c] \in Nat /\ token[c] <= After(c) /\ After(c) \in Nat
      <4>1. token[c] \in Key \cup {0} /\ k \in Key
        BY DEF WalkInv, WalkTyped
      <4>2. token[c] \in Nat /\ k \in Nat
        BY <4>1, KeysAreNumbers
      <4> QED
        BY <1>1, <4>2, AfterIsTheEnd
    <3>2. k <= After(c)
      BY <2>5, <3>1
    <3>3. k \in ToSet(listed[c]) \cup ToSet(page[c])
      BY <1>1, <2>4, <3>2 DEF WalkOf
    <3>4. \A i \in DOMAIN page[c] : page[c][i] # k
      <4>1. \A i \in DOMAIN page[c] : token[c] < page[c][i]
        BY <1>1, <2>4 DEF WalkOf
      <4> QED
        BY <2>5, <3>1, <4>1
    <3> QED
      BY <3>3, <3>4 DEF ToSet
  <2> QED
    BY <1>1, <2>1, <2>2, <2>3, <2>4, <2>5 DEF WalkOf
<1>4. ASSUME NEW d \in Client \ {c} PROVE WalkOf(d)'
  <2>1. page'[d] = page[d] /\ stable[d] \subseteq Present
    BY <1>1 DEF WalkInv, WalkTyped, WalkOf
  <2> QED
    BY <1>1, <2>1, WalkStays
<1> QED
  BY <1>2, <1>3, <1>4 DEF WalkInv

\* The steps of the other calls and of other programs.
LEMMA WalksRest ==
    ASSUME WalkInv, UNCHANGED walkVars,
           UNCHANGED pc \/ \E c \in Client, where \in Places \ {"listing", "listed"} : Goto(c, where),
           \/ UNCHANGED <<objects, stable>>
           \/ \E K : Erase(K)
           \/ \E k \in Key : \E size : Put(k, size)
    PROVE  WalkInv'
<1>1. /\ \/ UNCHANGED stable /\ Present' = Present
         \/ \E K : Present' = Present \ K /\ stable' = [c \in Client |-> stable[c] \ K]
         \/ UNCHANGED stable /\ \E k \in Key : Present' = Present \cup {k}
  BY DEF Erase, Put, Present
<1>2. \A c \in Client : stable'[c] \subseteq stable[c] /\ stable'[c] \subseteq Present'
  BY <1>1 DEF WalkInv, WalkOf
<1>3. Present' \subseteq Key /\ stable' \in [Client -> SUBSET Key]
  <2>1. Present \subseteq Key /\ stable \in [Client -> SUBSET Key]
    BY DEF WalkInv, WalkTyped
  <2> QED
    BY <1>1, <2>1
<1>4. /\ pc' \in [Client -> Places]
      /\ \A c \in Client : pc'[c] = pc[c] \/ pc'[c] \notin {"listing", "listed"}
  BY DEF Goto, WalkInv, WalkTyped
<1>5. WalkTyped'
  BY <1>3, <1>4 DEF WalkInv, WalkTyped, walkVars
<1>6. ASSUME NEW c \in Client PROVE WalkOf(c)'
  BY <1>2, <1>4, WalkStays DEF walkVars
<1> QED
  BY <1>5, <1>6 DEF WalkInv

LEMMA WalkInit == Init => WalkInv
<1> SUFFICES ASSUME Init PROVE WalkInv
  OBVIOUS
<1>1. Present \subseteq Key
  <2>1. objects \in Buckets \/ objects = <<>>
    BY DEF Init
  <2>2. \A b \in Buckets : DOMAIN b \subseteq Key
    BY StoreAssumption DEF Objects
  <2> QED
    BY <2>1, <2>2 DEF Present
<1>2. WalkTyped
  <2>1. <<>> \in Seq(Key)
    OBVIOUS
  <2> QED
    BY <1>1, <2>1 DEF Init, WalkTyped, Places
<1>3. Ascends(<<>>)
  BY DEF Ascends
<1> QED
  BY <1>2, <1>3 DEF Init, WalkInv, WalkOf

LEMMA WalkStep == WalkInv /\ [Next]_vars => WalkInv'
<1> SUFFICES ASSUME WalkInv, [Next]_vars PROVE WalkInv'
  OBVIOUS
<1> DEFINE placed == UNCHANGED pc \/ \E c \in Client, where \in Places \ {"listing", "listed"} :
                                       Goto(c, where)
           sameStore == UNCHANGED <<objects, stable>>
<1>1. CASE ForeignPut \/ ForeignDelete \/ FileChanges
  <2>1. UNCHANGED walkVars /\ UNCHANGED pc
    BY <1>1 DEF ForeignPut, ForeignDelete, FileChanges
  <2>2. sameStore \/ (\E K : Erase(K)) \/ \E k \in Key : \E size : Put(k, size)
    BY <1>1 DEF ForeignPut, ForeignDelete, FileChanges
  <2> QED
    BY <2>1, <2>2, WalksRest
<1>2. ASSUME NEW c \in Client, CheckBucket(c) \/ MakeBucket(c) PROVE WalkInv'
  <2>1. UNCHANGED walkVars /\ sameStore
    BY <1>2 DEF CheckBucket, MakeBucket, storeVars
  <2>2. Goto(c, "ready") \/ Goto(c, "absent") \/ Goto(c, "failed")
    BY <1>2 DEF CheckBucket, MakeBucket
  <2>3. placed
    BY <2>2 DEF Places
  <2> QED
    BY <2>1, <2>3, WalksRest
<1>3. ASSUME NEW c \in Client, RemoveKeys(c) PROVE WalkInv'
  <2>1. UNCHANGED walkVars /\ sameStore
    BY <1>3 DEF RemoveKeys, storeVars
  <2>2. Goto(c, "removing") \/ Goto(c, "removed")
    BY <1>3 DEF RemoveKeys
  <2>3. placed
    BY <2>2 DEF Places
  <2> QED
    BY <2>1, <2>3, WalksRest
<1>4. ASSUME NEW c \in Client, RemoveBatch(c) PROVE WalkInv'
  <2>1. UNCHANGED walkVars /\ \E K : Erase(K)
    BY <1>4 DEF RemoveBatch
  <2>2. Goto(c, "removing") \/ Goto(c, "removed")
    BY <1>4 DEF RemoveBatch
  <2>3. placed
    BY <2>2 DEF Places
  <2> QED
    BY <2>1, <2>3, WalksRest
<1>5. ASSUME NEW c \in Client, StatObject(c) \/ ReadObject(c) \/ StatFile(c) \/ Download(c)
      PROVE  WalkInv'
  <2>1. UNCHANGED walkVars /\ sameStore
    BY <1>5 DEF StatObject, ReadObject, StatFile, Download, storeVars
  <2>2. Goto(c, "reading") \/ Goto(c, "ready") \/ Goto(c, "read") \/ Goto(c, "uploading")
    BY <1>5 DEF StatObject, ReadObject, StatFile, Download
  <2>3. placed
    BY <2>2 DEF Places
  <2> QED
    BY <2>1, <2>3, WalksRest
<1>6. ASSUME NEW c \in Client, Write(c) \/ PutFile(c) PROVE WalkInv'
  <2>1. UNCHANGED walkVars /\ Goto(c, "ready") /\ \E k \in Key : \E size : Put(k, size)
    BY <1>6 DEF Write, PutFile
  <2>2. placed
    BY <2>1 DEF Places
  <2> QED
    BY <2>1, <2>2, WalksRest
<1>7. CASE UNCHANGED vars
  <2>1. UNCHANGED walkVars /\ UNCHANGED pc /\ sameStore
    BY <1>7 DEF vars, storeVars
  <2> QED
    BY <2>1, WalksRest
<1> QED
  BY <1>1, <1>2, <1>3, <1>4, <1>5, <1>6, <1>7,
     BeginWalkHolds, ListRequestHolds, ListFailsHolds DEF Next

\* A walk lists what was there all the time, once and in order, however the requests cut
\* the pages, fail, or meet with what others put and delete (client.go List,
\* collectListPage).
THEOREM WalksListEverythingOnce == Spec => []WalkListsOnce
<1>1. WalkInv => WalkListsOnce
  BY DEF WalkInv, WalkOf, WalkListsOnce, Ascends
<1> QED
  BY <1>1, WalkInit, WalkStep, PTL DEF Spec

-----------------------------------------------------------------------------
(* Pagination *)

\* What a token says about the page it continues.
Truthful(i) ==
    /\ i.query = i.token.binding /\ i.key = i.token.key
    /\ i.token.position \in Nat
    /\ \/ i.kind = "offset" /\ i.token.position = 0 /\ i.from = i.token.offset
       \/ /\ i.kind = "keyset" /\ i.token.position # 0
          /\ i.token.offset = 0 /\ i.from = i.token.position

PageInv == (\A i \in issued : Truthful(i)) /\ AnswersContinueTheirList

\* A token that is accepted as an offset was given out as one, for this query.
LEMMA OffsetOfItsList ==
    ASSUME NEW query, NEW shown \in Presented, shown # NoToken,
           \A i \in issued : Truthful(i), AcceptsOffset(shown, query)
    PROVE  \E i \in issued : /\ i.token = shown /\ i.kind = "offset" /\ i.query = query
                             /\ i.from = DecodedOffset(shown) /\ i.key = codec
<1>1. PICK i \in issued : i.token = shown
  BY DEF Presented
<1>2. shown.position = 0 /\ shown.binding = query /\ shown.key = codec
  BY DEF AcceptsOffset, Opens
<1>3. Truthful(i)
  OBVIOUS
<1> QED
  BY <1>1, <1>2, <1>3 DEF Truthful, DecodedOffset

\* The same for the keys of rows.
LEMMA KeyOfItsList ==
    ASSUME NEW query, NEW shown \in Presented, shown # NoToken,
           \A i \in issued : Truthful(i), AcceptsKeyset(shown, query)
    PROVE  \E i \in issued : /\ i.token = shown /\ i.kind = "keyset" /\ i.query = query
                             /\ i.from = DecodedPosition(shown) /\ i.key = codec
<1>1. PICK i \in issued : i.token = shown
  BY DEF Presented
<1>2. shown.position # 0 /\ shown.binding = query /\ shown.key = codec
  BY DEF AcceptsKeyset, Opens
<1>3. Truthful(i)
  OBVIOUS
<1> QED
  BY <1>1, <1>2, <1>3 DEF Truthful, DecodedPosition

LEMMA OffsetTokenIsTruthful ==
    ASSUME NEW query, NEW to
    PROVE  Truthful([token |-> EncodeOffset(to, query), kind |-> "offset",
                     query |-> query, from |-> to, key |-> codec])
BY DEF Truthful, EncodeOffset, encode

LEMMA KeyTokenIsTruthful ==
    ASSUME NEW query, NEW to \in Nat, to # 0
    PROVE  Truthful([token |-> EncodeKeyset(to, query), kind |-> "keyset",
                     query |-> query, from |-> to, key |-> codec])
BY DEF Truthful, EncodeKeyset, encode

LEMMA OffsetStep ==
    ASSUME PageInv, NEW query, NEW shown \in Presented, NEW wanted,
           ListByOffset(query, shown, wanted)
    PROVE  PageInv'
<1> DEFINE to == DecodedOffset(shown) + PageSize(wanted)
           new == [token |-> EncodeOffset(to, query), kind |-> "offset",
                   query |-> query, from |-> to, key |-> codec]
<1>1. issued' = issued \/ issued' = issued \cup {new}
  BY DEF ListByOffset, Issue
<1>2. \A i \in issued' : Truthful(i)
  BY <1>1, OffsetTokenIsTruthful DEF PageInv
<1>3. answer' = [kind |-> "offset", query |-> query, token |-> shown,
                 from |-> DecodedOffset(shown), key |-> codec]
  BY DEF ListByOffset, Answer
<1>4. AcceptsOffset(shown, query)
  BY DEF ListByOffset
<1>5. shown # NoToken =>
        \E i \in issued : /\ i.token = shown /\ i.kind = "offset" /\ i.query = query
                          /\ i.from = DecodedOffset(shown) /\ i.key = codec
  BY <1>4, OffsetOfItsList DEF PageInv
<1>6. AnswersContinueTheirList'
  BY <1>1, <1>3, <1>5 DEF AnswersContinueTheirList
<1>7. (\A i \in issued : Truthful(i))'
  BY <1>2 DEF Truthful
<1> QED
  BY <1>6, <1>7 DEF PageInv

LEMMA KeyStep ==
    ASSUME PageInv, NEW query, NEW shown \in Presented, NEW wanted,
           ListByKey(query, shown, wanted)
    PROVE  PageInv'
<1> DEFINE from == DecodedPosition(shown)
           new(to) == [token |-> EncodeKeyset(to, query), kind |-> "keyset",
                       query |-> query, from |-> to, key |-> codec]
<1>1. issued' = issued
      \/ \E to \in Position : to > from /\ issued' = issued \cup {new(to)}
  BY DEF ListByKey, Issue
<1>2. from \in Nat
  <2>1. CASE shown = NoToken
    BY <2>1 DEF DecodedPosition
  <2>2. CASE shown # NoToken
    <3>1. PICK i \in issued : i.token = shown
      BY <2>2 DEF Presented
    <3> QED
      BY <2>2, <3>1 DEF DecodedPosition, PageInv, Truthful
  <2> QED
    BY <2>1, <2>2
<1>3. ASSUME NEW to \in Position, to > from
      PROVE  Truthful(new(to))
  <2>1. to \in Nat /\ to # 0
    BY <1>2, <1>3, PaginationAssumption
  <2> QED
    BY <2>1, KeyTokenIsTruthful
<1>4. \A i \in issued' : Truthful(i)
  BY <1>1, <1>3 DEF PageInv
<1>5. answer' = [kind |-> "keyset", query |-> query, token |-> shown, from |-> from,
                 key |-> codec]
  BY DEF ListByKey, Answer
<1>6. AcceptsKeyset(shown, query)
  BY DEF ListByKey
<1>7. shown # NoToken =>
        \E i \in issued : /\ i.token = shown /\ i.kind = "keyset" /\ i.query = query
                          /\ i.from = DecodedPosition(shown) /\ i.key = codec
  BY <1>6, KeyOfItsList DEF PageInv
<1>8. issued \subseteq issued'
  BY <1>1
<1>9. AnswersContinueTheirList'
  BY <1>5, <1>7, <1>8 DEF AnswersContinueTheirList
<1>10. (\A i \in issued : Truthful(i))'
  BY <1>4 DEF Truthful
<1> QED
  BY <1>9, <1>10 DEF PageInv

\* Whatever tokens callers present, and however often the service changes its key: every
\* answer continues the list its token was given out for, where that page ended, and was
\* given with the key that page was given with (cursor.go decode).
THEOREM TokensContinueTheirLists == PagesSpec => []AnswersContinueTheirList
<1>1. PagesInit => PageInv
  BY DEF PagesInit, PageInv, AnswersContinueTheirList, NoAnswer
<1>2. PageInv /\ [PagesNext]_pageVars => PageInv'
  <2> SUFFICES ASSUME PageInv, [PagesNext]_pageVars PROVE PageInv'
    OBVIOUS
  <2>1. ASSUME NEW query, NEW shown \in Presented, NEW wanted,
               ListByOffset(query, shown, wanted)
        PROVE  PageInv'
    BY <2>1, OffsetStep
  <2>2. ASSUME NEW query, NEW shown \in Presented, NEW wanted,
               ListByKey(query, shown, wanted)
        PROVE  PageInv'
    BY <2>2, KeyStep
  <2>3. ASSUME NEW query, NEW shown, NEW wanted, Refuse(query, shown, wanted)
        PROVE  PageInv'
    BY <2>3 DEF Refuse, PageInv, AnswersContinueTheirList, NoAnswer, Truthful
  <2>4. CASE ChangeKey
    BY <2>4 DEF ChangeKey, PageInv, AnswersContinueTheirList, Truthful
  <2>5. CASE UNCHANGED pageVars
    BY <2>5 DEF pageVars, PageInv, AnswersContinueTheirList, Truthful
  <2> QED
    BY <2>1, <2>2, <2>3, <2>4, <2>5 DEF PagesNext
<1>3. PageInv => AnswersContinueTheirList
  BY DEF PageInv
<1> QED
  BY <1>1, <1>2, <1>3, PTL DEF PagesSpec

-----------------------------------------------------------------------------
(* ErrorCodes: the codes *)

LEMMA CodeRanges ==
    /\ \A n \in AppCodes : n \in Int /\ 1 <= n /\ n <= 9
    /\ \A n \in FourDigits : n \in Int /\ 1 <= n /\ n <= 9999
<1>1. \A n : n \in AppCodes => n \in Int /\ 1 <= n /\ n <= 9
  BY SMT DEF AppCodes
<1>2. \A n : n \in FourDigits => n \in Int /\ 1 <= n /\ n <= 9999
  BY SMT DEF FourDigits
<1> QED
  BY <1>1, <1>2

LEMMA TooSmallToCarry ==
    ASSUME NEW k \in Int, NEW r \in Int, r = 10000 * k, r > -10000, r < 10000
    PROVE  k = 0
BY SMT

LEMMA SubCodes ==
    ASSUME NEW a \in Int, NEW b \in Int, NEW c \in Int, NEW z \in Int,
           composeErrorCode(a, b, c) = composeErrorCode(a, b, z)
    PROVE  c = z
BY SMT DEF composeErrorCode

LEMMA CodesFit ==
    ASSUME NEW a \in AppCodes, NEW b \in FourDigits, NEW c \in FourDigits
    PROVE  composeErrorCode(a, b, c) > 0 /\ composeErrorCode(a, b, c) < 2147483648
BY CodeRanges, SMT DEF composeErrorCode

LEMMA CodesDiffer ==
    ASSUME NEW a \in AppCodes, NEW b \in FourDigits, NEW c \in FourDigits,
           NEW x \in AppCodes, NEW y \in FourDigits, NEW z \in FourDigits,
           composeErrorCode(a, b, c) = composeErrorCode(x, y, z)
    PROVE  a = x /\ b = y /\ c = z
<1>0. /\ a \in Int /\ b \in Int /\ c \in Int /\ x \in Int /\ y \in Int /\ z \in Int
      /\ 1 <= b /\ b <= 9999 /\ 1 <= c /\ c <= 9999
      /\ 1 <= y /\ y <= 9999 /\ 1 <= z /\ z <= 9999
  BY CodeRanges
<1> DEFINE k == (x - a) * 10000 + (y - b)
<1>1. /\ k \in Int /\ x - a \in Int /\ y - b \in Int /\ z - c \in Int
      /\ z - c > -10000 /\ z - c < 10000 /\ c - z > -10000 /\ c - z < 10000
      /\ b - y > -10000 /\ b - y < 10000
  BY <1>0, SMT
<1>2. c - z = 10000 * k
  BY <1>0, SMT DEF composeErrorCode
<1>3. k = 0
  <2> HIDE DEF k
  <2> QED
    BY <1>1, <1>2, TooSmallToCarry, <1>0, SMT
<1>4. b - y = 10000 * (x - a)
  BY <1>3, <1>0, SMT
<1>5. x - a = 0
  BY <1>1, <1>4, TooSmallToCarry, <1>0, SMT
<1> QED
  BY <1>2, <1>3, <1>4, <1>5, <1>0, SMT

\* A full code names its application, its module and its sub-code, and fits into 32 bits
\* (generator.go composeErrorCode, within the limits validateSpec enforces).
THEOREM CodesAreUnique ==
    ASSUME NEW a \in AppCodes, NEW b \in FourDigits, NEW c \in FourDigits,
           NEW x \in AppCodes, NEW y \in FourDigits, NEW z \in FourDigits
    PROVE  /\ composeErrorCode(a, b, c) = composeErrorCode(x, y, z) =>
                a = x /\ b = y /\ c = z
           /\ composeErrorCode(a, b, c) > 0 /\ composeErrorCode(a, b, c) < 2147483648
BY CodesFit, CodesDiffer, SMT

\* The definitions of one file that passed validateSpec do not clash.
LEMMA ValidSpecIsClean ==
    ASSUME NEW spec, ValidSpec(spec),
           NEW d \in Definitions(spec), NEW e \in Definitions(spec), Clash(d, e)
    PROVE  d = e
<1> DEFINE def(i) == spec.errorCode[i]
           full(i) == composeErrorCode(spec.appCode, spec.bizCode, def(i).code)
<1>1. PICK i \in DOMAIN spec.errorCode : d = [name |-> def(i).name, code |-> full(i)]
  BY DEF Definitions, ToSet
<1>2. PICK j \in DOMAIN spec.errorCode : e = [name |-> def(j).name, code |-> full(j)]
  BY DEF Definitions, ToSet
<1>3. def(i).name = def(j).name \/ full(i) = full(j)
  BY <1>1, <1>2 DEF Clash
<1>4. /\ spec.appCode \in Int /\ spec.bizCode \in Int
      /\ def(i).code \in Int /\ def(j).code \in Int
  BY CodeRanges DEF ValidSpec
<1>5. full(i) = full(j) => def(i).code = def(j).code
  BY <1>4, SubCodes
<1>6. i = j
  BY <1>3, <1>5 DEF ValidSpec
<1> QED
  BY <1>1, <1>2, <1>6

LEMMA NamesAreIdentifiers ==
    ASSUME NEW spec, ValidSpec(spec), NEW d \in Definitions(spec)
    PROVE  d.name \in DOMAIN Functions
<1>1. PICK i \in DOMAIN spec.errorCode : d.name = spec.errorCode[i].name
  BY DEF Definitions, ToSet
<1> QED
  BY <1>1 DEF ValidSpec

-----------------------------------------------------------------------------
(* ErrorCodes: the package *)

\* What a run has written: the first Go files, as they should be.
Progress ==
    /\ IsFiniteSet(written)
    /\ written = {FileName[inputs[i]] : i \in 1 .. Cardinality(written)}
    /\ written \subseteq DOMAIN output
    /\ \A i \in 1 .. Cardinality(written) :
         output[FileName[inputs[i]]] = Definitions(specs[i])

Checked == {"validate", "write", "document", "idle"}
Writing == {"write", "document", "idle"}

Loaded == \E S : specs \in Seq(S)

SpecsInv ==
    /\ Loaded /\ \A i \in DOMAIN specs : ValidSpec(specs[i])
    /\ stage \in {"load", "validate"} => written = {}
    /\ stage \in Checked => Len(specs) = Len(inputs) /\ specs # <<>>

WriteInv ==
    /\ stage \in Writing => NoConflict /\ Progress
    /\ stage = "write" => Cardinality(written) < Len(specs)
    /\ stage \in {"document", "idle"} => Cardinality(written) = Len(specs)
    /\ stage = "idle" => document = UNION {Definitions(specs[i]) : i \in DOMAIN specs}

PackageInv == SpecsInv /\ WriteInv

LEMMA LoadedIsSequence ==
    ASSUME Loaded
    PROVE  Len(specs) \in Nat /\ DOMAIN specs = 1 .. Len(specs)
BY DEF Loaded

LEMMA CodesInitHolds == CodesInit => PackageInv
<1> SUFFICES ASSUME CodesInit PROVE PackageInv
  OBVIOUS
<1>1. Loaded /\ DOMAIN specs = {}
  <2>1. specs \in Seq({})
    BY DEF CodesInit
  <2> QED
    BY <2>1 DEF Loaded, CodesInit
<1> QED
  BY <1>1 DEF CodesInit, PackageInv, SpecsInv, WriteInv, Checked, Writing

LEMMA EditHolds == PackageInv /\ EditCatalogue => PackageInv'
BY DEF EditCatalogue, PackageInv, SpecsInv, WriteInv, Checked, Writing, NoConflict, Progress,
       Loaded

LEMMA GenerateHolds == PackageInv /\ Generate => PackageInv'
<1> SUFFICES ASSUME PackageInv, Generate PROVE PackageInv'
  OBVIOUS
<1>1. /\ specs' = <<>> /\ written' = {}
      /\ stage' \in {"failed", "load"}
  BY DEF Generate
<1>2. Loaded' /\ DOMAIN specs' = {}
  <2>1. specs' \in Seq({})
    BY <1>1
  <2> QED
    BY <1>1, <2>1 DEF Loaded
<1>3. SpecsInv'
  BY <1>1, <1>2 DEF SpecsInv, Checked
<1>4. WriteInv'
  BY <1>1 DEF WriteInv, Writing
<1> QED
  BY <1>3, <1>4 DEF PackageInv

LEMMA LoadHolds == PackageInv /\ LoadSpec => PackageInv'
<1> SUFFICES ASSUME PackageInv, LoadSpec PROVE PackageInv'
  OBVIOUS
<1> DEFINE spec == catalogue[inputs[Len(specs) + 1]]
           loads == spec # NoFile /\ ValidSpec(spec)
<1>1. WriteInv'
  BY DEF LoadSpec, WriteInv, Writing
<1>2. CASE ~loads
  <2>1. stage' = "failed" /\ specs' = specs
    BY <1>2 DEF LoadSpec
  <2> QED
    BY <2>1, <1>1 DEF PackageInv, SpecsInv, Checked, Loaded
<1>3. CASE loads
  <2>1. /\ specs' = Append(specs, spec)
        /\ stage' = IF Len(specs') = Len(inputs) THEN "validate" ELSE "load"
        /\ inputs' = inputs /\ written' = {}
    BY <1>3 DEF LoadSpec, PackageInv, SpecsInv
  <2>2. PICK S : specs \in Seq(S)
    BY DEF PackageInv, SpecsInv, Loaded
  <2> HIDE DEF spec
  <2>3. specs \in Seq(S \cup {spec})
    BY <2>2
  <2>4. /\ specs' \in Seq(S \cup {spec}) /\ specs' # <<>>
        /\ DOMAIN specs' = 1 .. Len(specs) + 1 /\ DOMAIN specs = 1 .. Len(specs)
        /\ Len(specs) \in Nat
        /\ specs'[Len(specs) + 1] = spec
        /\ \A i \in 1 .. Len(specs) : specs'[i] = specs[i]
    BY <2>1, <2>3
  <2>5. \A i \in DOMAIN specs' : ValidSpec(specs'[i])
    <3> SUFFICES ASSUME NEW i \in DOMAIN specs' PROVE ValidSpec(specs'[i])
      OBVIOUS
    <3>1. CASE i = Len(specs) + 1
      BY <3>1, <1>3, <2>4
    <3>2. CASE i \in DOMAIN specs
      BY <3>2, <2>4 DEF PackageInv, SpecsInv
    <3> QED
      BY <2>4, <3>1, <3>2
  <2>6. SpecsInv'
    BY <2>1, <2>4, <2>5 DEF SpecsInv, Checked, Loaded
  <2> QED
    BY <1>1, <2>6 DEF PackageInv
<1> QED
  BY <1>2, <1>3

LEMMA ValidateHolds == PackageInv /\ Validate => PackageInv'
<1> SUFFICES ASSUME PackageInv, Validate PROVE PackageInv'
  OBVIOUS
<1>1. /\ UNCHANGED <<specs, inputs, written, output>> /\ written = {}
      /\ stage = "validate" /\ stage' = IF NoConflict THEN "write" ELSE "failed"
      /\ Loaded /\ specs # <<>>
  BY DEF Validate, PackageInv, SpecsInv, Checked
<1>2. SpecsInv'
  BY <1>1 DEF PackageInv, SpecsInv, Checked, Loaded
<1>3. Cardinality(written) = 0 /\ IsFiniteSet(written)
  BY <1>1, FS_EmptySet
<1>4. Progress'
  BY <1>1, <1>3 DEF Progress
<1>5. NoConflict => NoConflict'
  BY <1>1 DEF NoConflict
<1>6. Len(specs) > 0
  BY <1>1 DEF Loaded
<1> QED
  BY <1>1, <1>2, <1>3, <1>4, <1>5, <1>6 DEF PackageInv, WriteInv, Writing

LEMMA WriteFileHolds == PackageInv /\ WriteFile => PackageInv'
<1> SUFFICES ASSUME PackageInv, WriteFile PROVE PackageInv'
  OBVIOUS
<1> DEFINE n == Cardinality(written) + 1
           entry == FileName[inputs[n]]
<1>1. /\ stage = "write" /\ NoConflict /\ Progress /\ Loaded
      /\ Cardinality(written) < Len(specs) /\ Len(specs) = Len(inputs)
      /\ UNCHANGED <<inputs, specs>>
  BY DEF WriteFile, PackageInv, SpecsInv, WriteInv, Checked, Writing
<1>2. SpecsInv'
  BY <1>1 DEF WriteFile, PackageInv, SpecsInv, Checked, Loaded
<1>3. NoConflict'
  BY <1>1 DEF NoConflict
<1>4. CASE stage' = "failed"
  BY <1>2, <1>4 DEF PackageInv, WriteInv, Writing
<1>5. CASE stage' # "failed"
  <2>1. /\ output' = [f \in DOMAIN output \cup {entry} |->
                        IF f = entry THEN Definitions(specs[n]) ELSE output[f]]
        /\ written' = written \cup {entry}
        /\ stage' = IF n = Len(inputs) THEN "document" ELSE "write"
    BY <1>5 DEF WriteFile
  <2>2. /\ IsFiniteSet(written) /\ Cardinality(written) \in Nat /\ n \in 1 .. Len(specs)
        /\ DOMAIN specs = 1 .. Len(specs) /\ Len(specs) \in Nat
        /\ 1 .. n = 1 .. Cardinality(written) \cup {n}
    BY <1>1, LoadedIsSequence, FS_CardinalityType DEF Progress
  <2>3. \A i \in 1 .. Cardinality(written) : FileName[inputs[i]] # entry
    BY <1>1, <2>2 DEF NoConflict
  <2>4. entry \notin written
    BY <1>1, <2>3 DEF Progress
  <2>5. IsFiniteSet(written') /\ Cardinality(written') = n
    BY <2>1, <2>2, <2>4, FS_AddElement
  <2>6. Progress'
    <3>1. written' = {FileName[inputs[i]] : i \in 1 .. n}
      BY <1>1, <2>1, <2>2 DEF Progress
    <3>2. written' \subseteq DOMAIN output'
      BY <1>1, <2>1 DEF Progress
    <3>3. \A i \in 1 .. Cardinality(written) :
            output'[FileName[inputs[i]]] = Definitions(specs[i])
      BY <1>1, <2>1, <2>3 DEF Progress
    <3>4. output'[FileName[inputs[n]]] = Definitions(specs[n])
      BY <2>1
    <3>5. \A i \in 1 .. n : output'[FileName[inputs[i]]] = Definitions(specs[i])
      BY <2>2, <3>3, <3>4
    <3> QED
      BY <1>1, <2>5, <3>1, <3>2, <3>5 DEF Progress
  <2>7. /\ stage' = "document" \/ (stage' = "write" /\ n < Len(specs'))
        /\ stage' = "document" => n = Len(specs')
    <3>1. Len(specs') = Len(specs) /\ Len(inputs) = Len(specs)
      BY <1>1
    <3>2. n = Len(specs) \/ n < Len(specs)
      BY <2>2
    <3>3. CASE n = Len(specs)
      BY <2>1, <3>1, <3>3
    <3>4. CASE n < Len(specs) /\ n # Len(specs)
      BY <2>1, <3>1, <3>4
    <3> QED
      BY <2>2, <3>2, <3>3, <3>4
  <2>8. WriteInv'
    <3> HIDE DEF n
    <3> QED
      BY <1>3, <2>5, <2>6, <2>7 DEF WriteInv
  <2> QED
    BY <1>2, <2>8 DEF PackageInv
<1> QED
  BY <1>4, <1>5

LEMMA WriteDocumentHolds == PackageInv /\ WriteDocument => PackageInv'
<1> SUFFICES ASSUME PackageInv, WriteDocument PROVE PackageInv'
  OBVIOUS
<1>1. /\ UNCHANGED <<inputs, specs, output, written>> /\ stage = "document"
      /\ \/ stage' = "failed"
         \/ /\ stage' = "idle"
            /\ document' = UNION {Definitions(specs[i]) : i \in DOMAIN specs}
  BY DEF WriteDocument
<1>2. SpecsInv'
  BY <1>1 DEF PackageInv, SpecsInv, Checked, Loaded
<1>3. /\ NoConflict' /\ Progress' /\ Cardinality(written') = Len(specs')
  BY <1>1 DEF PackageInv, WriteInv, Writing, NoConflict, Progress
<1>4. WriteInv'
  BY <1>1, <1>3 DEF WriteInv, Writing
<1> QED
  BY <1>2, <1>4 DEF PackageInv

LEMMA InvariantGivesConsistency == PackageInv => PackageIsConsistent
<1> SUFFICES ASSUME PackageInv, stage = "idle" PROVE PackageIsConsistent!2
  BY DEF PackageIsConsistent
<1>1. /\ NoConflict /\ Progress /\ Cardinality(written) = Len(specs)
      /\ document = UNION {Definitions(specs[i]) : i \in DOMAIN specs}
      /\ DOMAIN specs = 1 .. Len(specs)
  BY LoadedIsSequence DEF PackageInv, SpecsInv, WriteInv, Writing
<1>2. \A i \in DOMAIN specs : output[FileName[inputs[i]]] = Definitions(specs[i])
  BY <1>1 DEF Progress
<1>3. \A f \in written : \E i \in DOMAIN specs :
        f = FileName[inputs[i]] /\ output[f] = Definitions(specs[i])
  BY <1>1, <1>2 DEF Progress
<1>4. document = UNION {output[f] : f \in written}
  <2>1. {output[f] : f \in written} = {Definitions(specs[i]) : i \in DOMAIN specs}
    BY <1>1, <1>2, <1>3 DEF Progress
  <2> QED
    BY <1>1, <2>1
<1>5. ASSUME NEW f \in written, NEW g \in written,
             NEW d \in output[f], NEW e \in output[g], Clash(d, e)
      PROVE  f = g /\ d = e
  <2>1. PICK i \in DOMAIN specs : f = FileName[inputs[i]] /\ output[f] = Definitions(specs[i])
    BY <1>3
  <2>2. PICK j \in DOMAIN specs : g = FileName[inputs[j]] /\ output[g] = Definitions(specs[j])
    BY <1>3
  <2>3. i = j
    BY <1>1, <1>5, <2>1, <2>2 DEF NoConflict
  <2>4. ValidSpec(specs[i])
    BY DEF PackageInv, SpecsInv
  <2> QED
    BY <1>5, <2>1, <2>2, <2>3, <2>4, ValidSpecIsClean
<1>6. ASSUME NEW d \in document, NEW e \in document, d # e
      PROVE  Declared(d) \cap Declared(e) =
               ({d.name} \cap Functions[e.name]) \cup ({e.name} \cap Functions[d.name])
  <2>1. d.name \in DOMAIN Functions /\ e.name \in DOMAIN Functions
    <3>1. \A i \in DOMAIN specs : ValidSpec(specs[i])
      BY DEF PackageInv, SpecsInv
    <3> QED
      BY <1>1, <3>1, NamesAreIdentifiers
  <2>2. PICK f \in written, g \in written : d \in output[f] /\ e \in output[g]
    BY <1>4, <1>6
  <2>3. d.name # e.name
    BY <1>5, <1>6, <2>2 DEF Clash
  <2>4. Functions[d.name] \cap Functions[e.name] = {}
    BY <2>1, <2>3, CodesAssumption
  <2> QED
    BY <2>3, <2>4, Zenon DEF Declared
<1> QED
  BY <1>2, <1>4, <1>5, <1>6

\* A run that succeeds leaves a consistent package, whatever the catalogue is and however
\* it is edited while the run reads it: definitions without a common name or full code,
\* which declare the same identifier only where one is called as a function of the other
\* (generator.go Generate, validateInputFiles, writeFunctions).
THEOREM PackagesAreConsistent == CodesSpec => []PackageIsConsistent
<1>1. CodesInit => PackageInv
  BY CodesInitHolds
<1>2. PackageInv /\ [CodesNext]_codeVars => PackageInv'
  <2> SUFFICES ASSUME PackageInv, [CodesNext]_codeVars PROVE PackageInv'
    OBVIOUS
  <2>1. CASE EditCatalogue
    BY <2>1, EditHolds
  <2>2. CASE Generate
    BY <2>2, GenerateHolds
  <2>3. CASE LoadSpec
    BY <2>3, LoadHolds
  <2>4. CASE Validate
    BY <2>4, ValidateHolds
  <2>5. CASE WriteFile
    BY <2>5, WriteFileHolds
  <2>6. CASE WriteDocument
    BY <2>6, WriteDocumentHolds
  <2>7. CASE UNCHANGED codeVars
    BY <2>7 DEF codeVars, PackageInv, SpecsInv, WriteInv, Checked, Writing, NoConflict,
                Progress, Loaded
  <2> QED
    BY <2>1, <2>2, <2>3, <2>4, <2>5, <2>6, <2>7 DEF CodesNext
<1> QED
  BY <1>1, <1>2, InvariantGivesConsistency, PTL DEF CodesSpec

-----------------------------------------------------------------------------
(* ProviderConfig: a normal form is its own normal form *)

Addresses == Seq(Address \cup {Blank})

\* The configurations Go's types allow, those of db with any drivers and any DSNs.
AnyRedis ==
    [addresses : Addresses, db : Int, poolSize : Int, minIdle : Int, maxRetries : Int,
     minBackoff : Int, maxBackoff : Int, dialTimeout : Int, rwTimeout : Int]

AnyDB(D, E) == [driver : D, dsn : E, maxOpen : Int, maxIdle : Int]

OneOfEach(q) == \A i, j \in 1 .. Len(q) : q[i] = q[j] => i = j

\* What normalizeAddresses has after every address.
Normalizes(s, out) ==
    /\ out \in [0 .. Len(s) -> Seq(Address)]
    /\ out[0] = <<>>
    /\ \A i \in 1 .. Len(s) :
         out[i] = IF s[i] = Blank \/ \E k \in 1 .. Len(out[i - 1]) : out[i - 1][k] = s[i]
                  THEN out[i - 1] ELSE Append(out[i - 1], s[i])
    /\ Providers!normalizeAddresses(s) = out[Len(s)]

LEMMA AddressesNormalize ==
    ASSUME NEW s \in Addresses
    PROVE  \E out : Normalizes(s, out)
<1> DEFINE n == Len(s)
           S == Seq(Address)
           Step(q, a) == IF a = Blank \/ \E k \in 1 .. Len(q) : q[k] = a
                         THEN q ELSE Append(q, a)
           next == [i \in 1 .. n |-> [q \in S |-> Step(q, s[i])]]
           Kept(f) == [i \in 0 .. n |-> IF i = 0 THEN <<>>
                         ELSE IF s[i] = Blank \/ Providers!Contains(f[i - 1], s[i]) THEN f[i - 1]
                         ELSE Append(f[i - 1], s[i])]
           whole == CHOOSE f : f = Kept(f)
           first == <<>>
<1>1. n \in Nat /\ first \in S /\ \A i \in 1 .. n : s[i] \in Address \cup {Blank}
  BY DEF Addresses
<1>2. next \in [1 .. n -> [S -> S]]
  <2>1. \A i \in 1 .. n, q \in S : Step(q, s[i]) \in S
    BY <1>1
  <2> HIDE DEF Step
  <2> QED
    BY <2>1
<1>3. PICK f \in [0 .. n -> S] :
        f[0] = <<>> /\ \A i \in 1 .. n : f[i] = next[i][f[i - 1]]
  <2> HIDE DEF next, n, S, first
  <2>1. Recursions(n, S, first, next) # {}
    BY <1>1, <1>2, RecursionExists
  <2> QED
    BY <2>1 DEF Recursions, first
<1>4. ASSUME NEW i \in 1 .. n PROVE f[i - 1] \in S /\ f[i] = Step(f[i - 1], s[i])
  <2>1. i - 1 \in 0 .. n
    BY <1>1
  <2> HIDE DEF S, Step
  <2>2. f[i - 1] \in S
    BY <1>3, <2>1
  <2>3. f[i] = next[i][f[i - 1]]
    <3> HIDE DEF next
    <3> QED
      BY <1>3
  <2> QED
    BY <2>2, <2>3
<1>5. f = Kept(f)
  <2>1. ASSUME NEW i \in 0 .. n PROVE f[i] = Kept(f)[i]
    <3>1. CASE i = 0
      BY <1>1, <1>3, <3>1
    <3>2. CASE i # 0
      <4>1. i \in 1 .. n
        BY <1>1, <3>2
      <4> QED
        BY <1>4, <3>2, <4>1 DEF Providers!Contains
    <3> QED
      BY <3>1, <3>2
  <2> QED
    BY <2>1
<1>6. whole = Kept(whole)
  BY <1>5
<1>7. Providers!normalizeAddresses(s) = whole[n]
  BY DEF Providers!normalizeAddresses
<1> HIDE DEF whole
<1>8. whole[0] = <<>>
  BY <1>1, <1>6
<1>9. \A i \in 1 .. n : whole[i] = Step(whole[i - 1], s[i])
  <2>1. ASSUME NEW i \in 1 .. n PROVE whole[i] = Step(whole[i - 1], s[i])
    <3>1. i \in 0 .. n /\ i # 0
      BY <1>1
    <3> QED
      BY <3>1, <1>6 DEF Providers!Contains
  <2> QED
    BY <2>1
<1> DEFINE P == {i \in 0 .. n : whole[i] = f[i]}
<1>10. 0 .. n \subseteq P
  <2>1. 0 \in P
    BY <1>1, <1>3, <1>8
  <2>2. ASSUME NEW i \in 0 .. n - 1, i \in P PROVE i + 1 \in P
    <3>1. i + 1 \in 1 .. n /\ i + 1 \in 0 .. n /\ (i + 1) - 1 = i /\ whole[i] = f[i]
      BY <1>1, <2>2
    <3>2. whole[i + 1] = Step(whole[i], s[i + 1])
      BY <1>9, <3>1
    <3>3. f[i + 1] = Step(f[i], s[i + 1])
      BY <1>4, <3>1
    <3> HIDE DEF Step
    <3> QED
      BY <3>1, <3>2, <3>3
  <2> HIDE DEF P
  <2> QED
    BY <1>1, <2>1, <2>2, UpTo
<1>11. f[n] = whole[n]
  BY <1>1, <1>10
<1>12. Normalizes(s, f)
  <2>1. Providers!normalizeAddresses(s) = f[Len(s)]
    BY <1>7, <1>11
  <2> QED
    BY <1>3, <1>4, <2>1 DEF Normalizes
<1> QED
  BY <1>12

LEMMA NormalAddresses ==
    ASSUME NEW s \in Addresses
    PROVE  /\ Providers!normalizeAddresses(s) \in Seq(Address)
           /\ OneOfEach(Providers!normalizeAddresses(s))
<1>1. PICK out : Normalizes(s, out)
  BY AddressesNormalize
<1> DEFINE n == Len(s)
           P == {i \in 0 .. n : OneOfEach(out[i])}
<1>2. n \in Nat /\ \A i \in 1 .. n : s[i] \in Address \cup {Blank}
  BY DEF Addresses
<1>3. out \in [0 .. n -> Seq(Address)]
  BY <1>1 DEF Normalizes
<1>4. 0 \in P
  BY <1>1, <1>2 DEF Normalizes, OneOfEach
<1>5. ASSUME NEW i \in 0 .. n - 1, i \in P PROVE i + 1 \in P
  <2>1. i + 1 \in 1 .. n /\ i + 1 \in 0 .. n /\ (i + 1) - 1 = i /\ i \in 0 .. n
    BY <1>2
  <2>2. OneOfEach(out[i]) /\ out[i] \in Seq(Address)
    BY <1>3, <1>5, <2>1
  <2>3. out[i + 1] = IF s[i + 1] = Blank \/ \E k \in 1 .. Len(out[i]) : out[i][k] = s[i + 1]
                     THEN out[i] ELSE Append(out[i], s[i + 1])
    BY <1>1, <2>1 DEF Normalizes
  <2>4. CASE out[i + 1] = out[i]
    BY <2>1, <2>2, <2>4
  <2>5. CASE out[i + 1] # out[i]
    <3>1. /\ out[i + 1] = Append(out[i], s[i + 1]) /\ s[i + 1] \in Address
          /\ \A k \in 1 .. Len(out[i]) : out[i][k] # s[i + 1]
      BY <1>2, <2>1, <2>3, <2>5
    <3> DEFINE q == out[i]
               a == s[i + 1]
    <3> HIDE DEF q, a, P
    <3>2. OneOfEach(Append(q, a))
      <4>1. /\ q \in Seq(Address) /\ a \in Address
            /\ OneOfEach(q) /\ \A k \in 1 .. Len(q) : q[k] # a
        BY <2>2, <3>1 DEF q, a
      <4> SUFFICES ASSUME NEW j \in 1 .. Len(q) + 1, NEW k \in 1 .. Len(q) + 1,
                          Append(q, a)[j] = Append(q, a)[k]
                   PROVE  j = k
        BY <4>1 DEF OneOfEach
      <4>2. CASE j = Len(q) + 1 /\ k = Len(q) + 1
        BY <4>2
      <4>3. CASE j \in 1 .. Len(q) /\ k \in 1 .. Len(q)
        BY <4>1, <4>3 DEF OneOfEach
      <4>4. CASE j \in 1 .. Len(q) /\ k = Len(q) + 1
        BY <4>1, <4>4
      <4>5. CASE k \in 1 .. Len(q) /\ j = Len(q) + 1
        BY <4>1, <4>5
      <4> QED
        BY <4>1, <4>2, <4>3, <4>4, <4>5
    <3> QED
      BY <2>1, <3>1, <3>2 DEF q, a, P
  <2> QED
    BY <2>4, <2>5
<1> HIDE DEF P
<1>6. 0 .. n \subseteq P
  BY <1>2, <1>4, <1>5, UpTo
<1>7. n \in 0 .. n /\ n \in P
  BY <1>2, <1>6
<1>8. Providers!normalizeAddresses(s) = out[n]
  BY <1>1 DEF Normalizes
<1> QED
  BY <1>3, <1>7, <1>8 DEF P

LEMMA NormalAddressesStay ==
    ASSUME NEW q \in Seq(Address), OneOfEach(q)
    PROVE  Providers!normalizeAddresses(q) = q
<1>1. Blank \notin Address
  BY LibrariesAssumption DEF Providers!ProviderAssumption
<1>2. q \in Addresses
  <2>1. Address \subseteq Address \cup {Blank}
    OBVIOUS
  <2> QED
    BY SeqMonotonic DEF Addresses
<1>3. PICK out : Normalizes(q, out)
  BY <1>2, AddressesNormalize
<1> DEFINE n == Len(q)
           Shown(o, i) == Len(o) = i /\ \A k \in 1 .. i : o[k] = q[k]
           P == {i \in 0 .. n : Shown(out[i], i)}
<1>4. n \in Nat /\ \A i \in 1 .. n : q[i] \in Address /\ q[i] # Blank
  BY <1>1
<1>5. out \in [0 .. n -> Seq(Address)]
  BY <1>3 DEF Normalizes
<1>6. 0 \in P
  BY <1>3, <1>4 DEF Normalizes
<1>7. ASSUME NEW i \in 0 .. n - 1, i \in P PROVE i + 1 \in P
  <2>1. i + 1 \in 1 .. n /\ i + 1 \in 0 .. n /\ (i + 1) - 1 = i /\ i \in 0 .. n
    BY <1>4
  <2>2. out[i] \in Seq(Address) /\ Len(out[i]) = i /\ \A k \in 1 .. i : out[i][k] = q[k]
    BY <1>5, <1>7, <2>1
  <2>3. \A k \in 1 .. Len(out[i]) : out[i][k] # q[i + 1]
    <3>1. ASSUME NEW k \in 1 .. i PROVE q[k] # q[i + 1]
      <4>1. k \in 1 .. Len(q) /\ k # i + 1 /\ i + 1 \in 1 .. Len(q)
        BY <2>1
      <4> QED
        BY <4>1 DEF OneOfEach
    <3> QED
      BY <2>2, <3>1
  <2>4. out[i + 1] = IF q[i + 1] = Blank \/ \E k \in 1 .. Len(out[i]) : out[i][k] = q[i + 1]
                     THEN out[i] ELSE Append(out[i], q[i + 1])
    BY <1>3, <2>1 DEF Normalizes
  <2>5. out[i + 1] = Append(out[i], q[i + 1])
    BY <1>4, <2>1, <2>3, <2>4
  <2>6. Shown(Append(out[i], q[i + 1]), i + 1)
    <3>1. q[i + 1] \in Address
      BY <1>4, <2>1
    <3> QED
      BY <2>1, <2>2, <3>1
  <2> HIDE DEF Shown
  <2> QED
    BY <2>1, <2>5, <2>6
<1> HIDE DEF P
<1>8. 0 .. n \subseteq P
  BY <1>4, <1>6, <1>7, UpTo
<1>9. n \in 0 .. n /\ n \in P
  BY <1>4, <1>8
<1>10. out[n] \in Seq(Address) /\ Len(out[n]) = Len(q) /\ \A k \in 1 .. Len(q) : out[n][k] = q[k]
  BY <1>5, <1>9 DEF P
<1>11. out[n] = q
  BY <1>10, SeqEqual
<1> QED
  BY <1>3, <1>11 DEF Normalizes

LEMMA RedisStays ==
    ASSUME NEW cfg \in AnyRedis
    PROVE  Providers!RedisFormIsStable(cfg)
<1> DEFINE addresses == Providers!normalizeAddresses(cfg.addresses)
           normal == [cfg EXCEPT !.addresses = addresses,
                        !.maxRetries = Providers!Default(@, DefaultRetries),
                        !.minBackoff = Providers!Default(@, DefaultMinBackoff),
                        !.maxBackoff = Providers!Default(@, DefaultMaxBackoff)]
<1>1. addresses \in Seq(Address) /\ Providers!normalizeAddresses(addresses) = addresses
  <2>1. cfg.addresses \in Addresses
    BY DEF AnyRedis
  <2> QED
    BY <2>1, NormalAddresses, NormalAddressesStay
<1>2. CASE ~Providers!ValidRedis(cfg, addresses)
  BY <1>2 DEF Providers!RedisFormIsStable, Providers!normalizeConfig
<1>3. CASE Providers!ValidRedis(cfg, addresses)
  <2> HIDE DEF addresses
  <2>1. Providers!normalizeConfig(cfg) = normal
    BY <1>3 DEF Providers!normalizeConfig, addresses
  <2>2. /\ DefaultRetries \in Nat \ {0} /\ DefaultMinBackoff \in Nat \ {0}
        /\ DefaultMaxBackoff \in Nat /\ DefaultMaxBackoff >= DefaultMinBackoff
    BY LibrariesAssumption DEF Providers!ProviderAssumption
  <2>3. /\ normal.addresses = addresses
        /\ normal.maxRetries = IF cfg.maxRetries = 0 THEN DefaultRetries ELSE cfg.maxRetries
        /\ normal.minBackoff = IF cfg.minBackoff = 0 THEN DefaultMinBackoff ELSE cfg.minBackoff
        /\ normal.maxBackoff = IF cfg.maxBackoff = 0 THEN DefaultMaxBackoff ELSE cfg.maxBackoff
        /\ normal.db = cfg.db /\ normal.poolSize = cfg.poolSize /\ normal.minIdle = cfg.minIdle
        /\ normal.dialTimeout = cfg.dialTimeout /\ normal.rwTimeout = cfg.rwTimeout
    BY DEF AnyRedis, Providers!Default
  <2>4. /\ cfg.maxRetries \in Int /\ cfg.minBackoff \in Int /\ cfg.maxBackoff \in Int
    BY DEF AnyRedis
  <2>5. normal \in AnyRedis
    <3>1. addresses \in Addresses
      <4>1. Address \subseteq Address \cup {Blank}
        OBVIOUS
      <4> QED
        BY <1>1, <4>1, SeqMonotonic, Zenon DEF Addresses
    <3>2. /\ Providers!Default(cfg.maxRetries, DefaultRetries) \in Int
          /\ Providers!Default(cfg.minBackoff, DefaultMinBackoff) \in Int
          /\ Providers!Default(cfg.maxBackoff, DefaultMaxBackoff) \in Int
      BY <2>2, <2>4 DEF Providers!Default
    <3> QED
      BY <3>1, <3>2 DEF AnyRedis
  <2> HIDE DEF normal
  <2>6. ASSUME ~(Providers!HalfDefaulted(cfg) /\ Providers!BackoffsCross(normal))
        PROVE  Providers!normalizeConfig(normal) = normal
    <3>1. ~Providers!BackoffsCross(normal)
      BY <1>3, <2>2, <2>3, <2>4, <2>6
         DEF Providers!BackoffsCross, Providers!HalfDefaulted, Providers!ValidRedis
    <3>2. Providers!ValidRedis(normal, addresses)
      BY <1>3, <2>2, <2>3, <2>4, <3>1 DEF Providers!ValidRedis
    <3>3. Providers!normalizeConfig(normal) =
            [normal EXCEPT !.addresses = addresses,
                        !.maxRetries = Providers!Default(@, DefaultRetries),
                        !.minBackoff = Providers!Default(@, DefaultMinBackoff),
                        !.maxBackoff = Providers!Default(@, DefaultMaxBackoff)]
      BY <1>1, <2>3, <3>2 DEF Providers!normalizeConfig
    <3>4. normal.maxRetries # 0 /\ normal.minBackoff # 0 /\ normal.maxBackoff # 0
      BY <2>2, <2>3, <2>4
    <3> QED
      BY <2>3, <2>5, <3>3, <3>4 DEF Providers!Default, AnyRedis
  <2> QED
    BY <2>1, <2>3, <2>6 DEF Providers!RedisFormIsStable
<1> QED
  BY <1>2, <1>3

LEMMA DBStays ==
    ASSUME NEW D, NEW E, NEW cfg \in AnyDB(D, E)
    PROVE  Providers!DBFormIsStable(cfg)
<1> DEFINE normal == [cfg EXCEPT !.driver = Providers!ParseDriver(@),
                     !.maxOpen = IF @ <= 0 THEN DefaultConns ELSE @,
                     !.maxIdle = IF @ <= 0 THEN DefaultConns ELSE @]
<1>1. CASE Providers!ParseDriver(cfg.driver) = Invalid \/ cfg.dsn = Blank
  BY <1>1 DEF Providers!DBFormIsStable, Providers!normalizedDB
<1>2. CASE Providers!ParseDriver(cfg.driver) # Invalid /\ cfg.dsn # Blank
  <2>1. Providers!normalizedDB(cfg) = normal
    BY <1>2 DEF Providers!normalizedDB
  <2>2. DefaultConns \in Nat \ {0} /\ Invalid \notin DOMAIN Spelling
    BY LibrariesAssumption DEF Providers!ProviderAssumption
  <2>3. cfg.driver \in DOMAIN Spelling
    BY <1>2 DEF Providers!ParseDriver
  <2>4. /\ Spelling[cfg.driver] \in DOMAIN Spelling
        /\ Spelling[Spelling[cfg.driver]] = Spelling[cfg.driver]
    BY <2>3, LibrariesAssumption DEF Providers!ProviderAssumption
  <2>5. cfg.maxOpen \in Int /\ cfg.maxIdle \in Int
    BY DEF AnyDB
  <2>6. /\ normal.driver = Spelling[cfg.driver] /\ normal.dsn = cfg.dsn
        /\ normal.maxOpen = IF cfg.maxOpen <= 0 THEN DefaultConns ELSE cfg.maxOpen
        /\ normal.maxIdle = IF cfg.maxIdle <= 0 THEN DefaultConns ELSE cfg.maxIdle
    BY <2>3 DEF Providers!ParseDriver, AnyDB
  <2>7. normal \in AnyDB({Spelling[cfg.driver]}, E)
    <3>1. Providers!ParseDriver(cfg.driver) = Spelling[cfg.driver]
      BY <2>3 DEF Providers!ParseDriver
    <3>2. /\ (IF cfg.maxOpen <= 0 THEN DefaultConns ELSE cfg.maxOpen) \in Int
          /\ (IF cfg.maxIdle <= 0 THEN DefaultConns ELSE cfg.maxIdle) \in Int
      BY <2>2, <2>5
    <3> QED
      BY <3>1, <3>2 DEF AnyDB
  <2> HIDE DEF normal
  <2>8. Providers!ParseDriver(normal.driver) = normal.driver /\ normal.driver # Invalid
    BY <2>2, <2>4, <2>6 DEF Providers!ParseDriver
  <2>9. /\ normal.maxOpen > 0 /\ normal.maxIdle > 0
        /\ ~(normal.maxOpen <= 0) /\ ~(normal.maxIdle <= 0)
    BY <2>2, <2>5, <2>6
  <2>10. Providers!normalizedDB(normal) =
           [normal EXCEPT !.driver = normal.driver, !.maxOpen = normal.maxOpen,
                          !.maxIdle = normal.maxIdle]
    BY <1>2, <2>6, <2>8, <2>9 DEF Providers!normalizedDB
  <2>11. Providers!normalizedDB(normal) = normal
    BY <2>7, <2>10 DEF AnyDB
  <2> QED
    BY <2>1, <2>9, <2>11 DEF Providers!DBFormIsStable
<1> QED
  BY <1>1, <1>2

\* A configuration of redis or db that was accepted is accepted again and means the same,
\* whatever its values: every address list, limit and time-out (redis/config.go, db/config.go,
\* NewWithConfig).
THEOREM AcceptedConfigsStay ==
    /\ \A cfg \in AnyRedis : Providers!RedisFormIsStable(cfg)
    /\ \A D, E : \A cfg \in AnyDB(D, E) : Providers!DBFormIsStable(cfg)
BY RedisStays, DBStays

\* What the configurations are that a behaviour is about.
ConfigsInv ==
    /\ focus = "redis" => input \in AnyRedis
    /\ focus = "db" => input \in AnyDB(DOMAIN Spelling \cup {"oracle"}, {Blank, "dsn"})

LEMMA RedisConfigsAreTyped == RedisConfigs \subseteq AnyRedis
<1>1. DefaultMaxBackoff \in Nat
  BY LibrariesAssumption DEF Providers!ProviderAssumption
<1> DEFINE Lists == {<<>>, <<Blank>>} \cup [1 .. 2 -> Address \cup {Blank}]
<1>2. Lists \subseteq Addresses
  <2>1. <<>> \in Addresses /\ <<Blank>> \in Addresses
    BY DEF Addresses
  <2>2. ASSUME NEW s \in [1 .. 2 -> Address \cup {Blank}] PROVE s \in Addresses
    BY SeqDef DEF Addresses
  <2> QED
    BY <2>1, <2>2
<1> HIDE DEF Lists
<1>3. \A cfg \in RedisConfigs : cfg \in AnyRedis
  <2> SUFFICES ASSUME NEW cfg \in [addresses : Lists,
            db : {-1, 0, 1}, poolSize : {-1, 0}, minIdle : {-1, 0},
            maxRetries : {-2, -1, 0, 1},
            minBackoff : {-2, -1, 0, 5, DefaultMaxBackoff + 1},
            maxBackoff : {-2, -1, 0, 5, DefaultMaxBackoff + 1},
            dialTimeout : {-1, 0}, rwTimeout : {-3, -2}]
               PROVE  cfg \in AnyRedis
    BY DEF RedisConfigs, Lists
  <2>1. cfg.minBackoff \in Int /\ cfg.maxBackoff \in Int
    BY <1>1
  <2>2. cfg.addresses \in Addresses
    BY <1>2
  <2> QED
    BY <2>1, <2>2 DEF AnyRedis
<1> QED
  BY <1>3

\* The run's own inputs are among those, and a behaviour keeps the one it starts with.
THEOREM NormalFormsStay == LibrariesSpec => []NormalFormsAreStable
<1>1. LibrariesInit => ConfigsInv
  <2>1. DBConfigs \subseteq AnyDB(DOMAIN Spelling \cup {"oracle"}, {Blank, "dsn"})
    BY DEF DBConfigs, AnyDB
  <2>2. ASSUME LibrariesInit, focus = "redis" PROVE input \in RedisConfigs
    BY <2>2 DEF LibrariesInit
  <2>3. ASSUME LibrariesInit, focus = "db" PROVE input \in DBConfigs
    BY <2>3 DEF LibrariesInit
  <2> QED
    BY <2>1, <2>2, <2>3, RedisConfigsAreTyped DEF ConfigsInv
<1>2. ConfigsInv /\ [LibrariesNext /\ UNCHANGED <<focus, input>>]_libraryVars => ConfigsInv'
  BY DEF ConfigsInv, libraryVars
<1>3. ConfigsInv => NormalFormsAreStable
  BY AcceptedConfigsStay DEF ConfigsInv, NormalFormsAreStable
<1> QED
  BY <1>1, <1>2, <1>3, PTL DEF LibrariesSpec

-----------------------------------------------------------------------------
(* FileSearch: what a service loads.  The proofs expand neither Roots nor  *)
(* Env nor EndsWith: they hold for any.                                    *)

Paths == Seq(Nat)

\* Two paths part at a name; one is not the directory of the other.
PartAt(p, q, i) ==
    /\ i \in 1 .. Len(p) /\ i \in 1 .. Len(q) /\ p[i] # q[i]
    /\ \A k \in 1 .. i - 1 : p[k] = q[k]

Part(p, q) == \E i \in 1 .. Len(p) : i \in 1 .. Len(q) /\ p[i] # q[i]

Branches(P) ==
    /\ IsFiniteSet(P) /\ P \subseteq Paths
    /\ \A p, q \in P : p = q \/ Part(p, q)

LEMMA BeforeByName ==
    ASSUME NEW p \in Paths, NEW q \in Paths
    PROVE  Search!Before(p, q) <=> \E i \in 1 .. Len(p) : PartAt(p, q, i) /\ p[i] < q[i]
<1>1. Len(p) \in Nat /\ Len(q) \in Nat /\ DOMAIN p = 1 .. Len(p) /\ DOMAIN q = 1 .. Len(q)
  BY DEF Paths
<1>2. ASSUME NEW i \in 1 .. Len(p), i \in 1 .. Len(q)
      PROVE  SubSeq(p, 1, i - 1) = SubSeq(q, 1, i - 1) <=> \A k \in 1 .. i - 1 : p[k] = q[k]
  <2>1. /\ SubSeq(p, 1, i - 1) = [k \in 1 .. i - 1 |-> p[k]]
        /\ SubSeq(q, 1, i - 1) = [k \in 1 .. i - 1 |-> q[k]]
    BY <1>1, <1>2 DEF Paths
  <2> QED
    BY <2>1
<1>3. ASSUME Search!Before(p, q)
      PROVE  \E i \in 1 .. Len(p) : PartAt(p, q, i) /\ p[i] < q[i]
  <2>1. PICK i \in DOMAIN p \cap DOMAIN q :
          SubSeq(p, 1, i - 1) = SubSeq(q, 1, i - 1) /\ p[i] < q[i]
    BY <1>3 DEF Search!Before
  <2>2. p[i] \in Nat /\ q[i] \in Nat
    BY <1>1 DEF Paths
  <2>3. i \in 1 .. Len(p) /\ i \in 1 .. Len(q)
    BY <1>1, <2>1
  <2>4. \A k \in 1 .. i - 1 : p[k] = q[k]
    BY <1>2, <2>1, <2>3
  <2>5. p[i] # q[i]
    BY <2>1, <2>2
  <2>6. PartAt(p, q, i)
    BY <2>3, <2>4, <2>5 DEF PartAt
  <2> QED
    BY <2>1, <2>3, <2>6
<1>4. ASSUME NEW i \in 1 .. Len(p), PartAt(p, q, i), p[i] < q[i]
      PROVE  Search!Before(p, q)
  BY <1>1, <1>2, <1>4 DEF Search!Before, PartAt
<1> QED
  BY <1>3, <1>4

LEMMA NotBeforeItself ==
    ASSUME NEW p \in Paths
    PROVE  ~Search!Before(p, p)
<1>1. ~\E i \in 1 .. Len(p) : PartAt(p, p, i)
  BY DEF PartAt
<1> QED
  BY <1>1, BeforeByName

LEMMA BeforeIsTransitive ==
    ASSUME NEW p \in Paths, NEW q \in Paths, NEW r \in Paths,
           Search!Before(p, q), Search!Before(q, r)
    PROVE  Search!Before(p, r)
<1>1. PICK i \in 1 .. Len(p) : PartAt(p, q, i) /\ p[i] < q[i]
  BY BeforeByName
<1>2. PICK j \in 1 .. Len(q) : PartAt(q, r, j) /\ q[j] < r[j]
  BY BeforeByName
<1>3. /\ i \in Nat /\ j \in Nat /\ i \in 1 .. Len(q) /\ j \in 1 .. Len(r)
      /\ \A k \in 1 .. Len(p) : p[k] \in Nat
      /\ \A k \in 1 .. Len(q) : q[k] \in Nat
      /\ \A k \in 1 .. Len(r) : r[k] \in Nat
      /\ Len(p) \in Nat /\ Len(q) \in Nat /\ Len(r) \in Nat
  <2>1. i \in 1 .. Len(q) /\ j \in 1 .. Len(r)
    BY <1>1, <1>2 DEF PartAt
  <2>2. Len(p) \in Nat /\ Len(q) \in Nat /\ Len(r) \in Nat
    BY DEF Paths
  <2>3. /\ \A k \in 1 .. Len(p) : p[k] \in Nat
        /\ \A k \in 1 .. Len(q) : q[k] \in Nat
        /\ \A k \in 1 .. Len(r) : r[k] \in Nat
    BY DEF Paths
  <2>4. i \in Nat /\ j \in Nat
    BY <2>2
  <2> QED
    BY <2>1, <2>2, <2>3, <2>4
<1>4. \E m \in 1 .. Len(p) : PartAt(p, r, m) /\ p[m] < r[m]
  <2>1. CASE i < j
    <3>1. i \in 1 .. j - 1 /\ i \in 1 .. Len(r) /\ 1 .. i - 1 \subseteq 1 .. j - 1
      BY <1>3, <2>1
    <3>2. p[i] < r[i] /\ \A k \in 1 .. i - 1 : p[k] = r[k]
      BY <1>1, <1>2, <3>1 DEF PartAt
    <3>3. p[i] # r[i]
      BY <1>3, <3>1, <3>2
    <3>4. PartAt(p, r, i)
      BY <3>1, <3>2, <3>3 DEF PartAt
    <3> QED
      BY <3>2, <3>4
  <2>2. CASE i = j
    <3>1. p[i] < r[i]
      BY <1>1, <1>2, <1>3, <2>2
    <3> QED
      BY <1>1, <1>2, <1>3, <2>2, <3>1 DEF PartAt
  <2>3. CASE j < i
    <3>1. j \in 1 .. i - 1 /\ j \in 1 .. Len(p) /\ 1 .. j - 1 \subseteq 1 .. i - 1
      BY <1>3, <2>3
    <3>2. p[j] < r[j] /\ \A k \in 1 .. j - 1 : p[k] = r[k]
      BY <1>1, <1>2, <3>1 DEF PartAt
    <3>3. p[j] # r[j] /\ j \in 1 .. Len(r)
      BY <1>3, <3>1, <3>2
    <3>4. PartAt(p, r, j)
      BY <3>1, <3>2, <3>3 DEF PartAt
    <3> QED
      BY <3>1, <3>2, <3>4
  <2> QED
    BY <1>3, <2>1, <2>2, <2>3
<1> QED
  BY <1>4, BeforeByName

LEMMA BeforeIsTotal ==
    ASSUME NEW p \in Paths, NEW q \in Paths, Part(p, q)
    PROVE  Search!Before(p, q) \/ Search!Before(q, p)
<1> DEFINE D == {i \in 1 .. Len(p) : i \in 1 .. Len(q) /\ p[i] # q[i]}
<1>1. D # {} /\ D \in SUBSET Nat
  BY DEF Part, Paths
<1>2. PICK m \in D : \A k \in D : m <= k
  <2> HIDE DEF D
  <2> QED
    BY <1>1, LeastNumber
<1>3. /\ m \in 1 .. Len(p) /\ m \in 1 .. Len(q) /\ p[m] # q[m]
      /\ p[m] \in Nat /\ q[m] \in Nat /\ Len(p) \in Nat /\ Len(q) \in Nat
  BY <1>2 DEF Paths
<1>4. \A k \in 1 .. m - 1 : p[k] = q[k]
  <2>1. ASSUME NEW k \in 1 .. m - 1, p[k] # q[k] PROVE FALSE
    <3>1. k \in D /\ k < m /\ m \in Nat /\ k \in Nat
      BY <1>3, <2>1
    <3> HIDE DEF D
    <3> QED
      BY <1>2, <3>1
  <2> QED
    BY <2>1
<1>5. PartAt(p, q, m) /\ PartAt(q, p, m)
  BY <1>3, <1>4 DEF PartAt
<1>6. p[m] < q[m] \/ q[m] < p[m]
  BY <1>3
<1> QED
  BY <1>3, <1>5, <1>6, BeforeByName

\* The instance brings an operator of its own.
LEMMA SameCardinality == \A S : Search!Cardinality(S) = Cardinality(S)
BY DEF Search!Cardinality, Cardinality

\* Sorted puts every path somewhere: as many are before it as before no other.
LEMMA SortedIsAll ==
    ASSUME NEW P, Branches(P)
    PROVE  /\ DOMAIN Search!Sorted(P) = 1 .. Cardinality(P)
           /\ \A i \in 1 .. Cardinality(P) : Search!Sorted(P)[i] \in P
           /\ \A p \in P : \E i \in 1 .. Cardinality(P) : Search!Sorted(P)[i] = p
<1> DEFINE N == Cardinality(P)
           Lower(p) == {q \in P : Search!Before(q, p)}
           rank == [p \in P |-> Cardinality(Lower(p))]
<1>1. IsFiniteSet(P) /\ N \in Nat /\ \A p \in P : p \in Paths
  BY FS_CardinalityType DEF Branches
<1>2. ASSUME NEW p \in P
      PROVE  IsFiniteSet(Lower(p)) /\ Cardinality(Lower(p)) \in 0 .. N - 1
  <2>1. Lower(p) \subseteq P /\ p \notin Lower(p)
    BY <1>1, NotBeforeItself
  <2> HIDE DEF Lower
  <2>2. IsFiniteSet(Lower(p)) /\ Cardinality(Lower(p)) <= N
    BY <1>1, <2>1, FS_Subset
  <2>3. Cardinality(Lower(p)) # N
    BY <1>1, <2>1, FS_Subset
  <2>4. Cardinality(Lower(p)) \in Nat
    BY <2>2, FS_CardinalityType
  <2> QED
    BY <1>1, <2>2, <2>3, <2>4
<1>3. ASSUME NEW p \in P, NEW q \in P, Search!Before(p, q)
      PROVE  Cardinality(Lower(p)) < Cardinality(Lower(q))
  <2>1. Lower(p) \subseteq Lower(q)
    BY <1>1, <1>3, BeforeIsTransitive
  <2>2. p \in Lower(q) /\ p \notin Lower(p)
    BY <1>1, <1>3, NotBeforeItself
  <2> HIDE DEF Lower
  <2>3. IsFiniteSet(Lower(q)) /\ Cardinality(Lower(p)) \in Nat /\ Cardinality(Lower(q)) \in Nat
    BY <1>1, <1>2
  <2>4. Cardinality(Lower(p)) <= Cardinality(Lower(q)) /\ Cardinality(Lower(p)) # Cardinality(Lower(q))
    BY <2>1, <2>2, <2>3, FS_Subset
  <2> QED
    BY <2>3, <2>4
<1>4. rank \in Injection(P, 0 .. N - 1)
  <2>1. rank \in [P -> 0 .. N - 1]
    BY <1>2
  <2>2. ASSUME NEW p \in P, NEW q \in P, rank[p] = rank[q] PROVE p = q
    <3>1. Cardinality(Lower(p)) = Cardinality(Lower(q))
      BY <2>2
    <3> HIDE DEF Lower
    <3>2. Cardinality(Lower(p)) \in Nat /\ Cardinality(Lower(q)) \in Nat
      BY <1>1, <1>2
    <3>3. ~Search!Before(p, q) /\ ~Search!Before(q, p)
      BY <1>3, <3>1, <3>2
    <3> QED
      BY <1>1, <3>3, BeforeIsTotal DEF Branches
  <2> HIDE DEF rank
  <2> QED
    BY <2>1, <2>2 DEF Injection, IsInjective
<1>5. rank \in Surjection(P, 0 .. N - 1)
  <2>1. IsFiniteSet(0 .. N - 1) /\ Cardinality(0 .. N - 1) = N
    <3>1. Cardinality(0 .. N - 1) = IF 0 > N - 1 THEN 0 ELSE (N - 1) - 0 + 1
      BY <1>1, FS_Interval
    <3>2. IsFiniteSet(0 .. N - 1)
      BY <1>1, FS_Interval
    <3> HIDE DEF N
    <3> QED
      BY <1>1, <3>1, <3>2
  <2> DEFINE T == 0 .. N - 1
  <2> HIDE DEF rank, T
  <2>2. Cardinality(P) = Cardinality(T) /\ IsFiniteSet(T) /\ rank \in Injection(P, T)
    BY <1>4, <2>1 DEF T
  <2>3. rank \in Surjection(P, T)
    BY <1>1, <2>2, FS_Injection
  <2> QED
    BY <2>3 DEF T
<1>6. \A i \in 1 .. N : \E p \in P : Cardinality(Lower(p)) = i - 1
  <2> SUFFICES ASSUME NEW i \in 1 .. N PROVE \E p \in P : rank[p] = i - 1
    OBVIOUS
  <2>1. i - 1 \in 0 .. N - 1
    BY <1>1
  <2> HIDE DEF rank
  <2> QED
    BY <1>5, <2>1 DEF Surjection
<1>7. Search!Sorted(P) = [i \in 1 .. N |->
                             CHOOSE p \in P : Search!Cardinality(Lower(p)) = i - 1]
  <2>1. Search!Sorted(P) = [i \in 1 .. Search!Cardinality(P) |->
                               CHOOSE p \in P : Search!Cardinality(Lower(p)) = i - 1]
    BY DEF Search!Sorted
  <2> QED
    BY <2>1, SameCardinality
<1>8. \A i \in 1 .. N : /\ Search!Sorted(P)[i] \in P
                        /\ Cardinality(Lower(Search!Sorted(P)[i])) = i - 1
  <2> SUFFICES ASSUME NEW i \in 1 .. N
               PROVE  /\ Search!Sorted(P)[i] \in P
                      /\ Cardinality(Lower(Search!Sorted(P)[i])) = i - 1
    OBVIOUS
  <2>1. Search!Sorted(P)[i] = CHOOSE p \in P : Search!Cardinality(Lower(p)) = i - 1
    BY <1>7
  <2> HIDE DEF Lower
  <2>2. \E p \in P : Search!Cardinality(Lower(p)) = i - 1
    BY <1>6, SameCardinality
  <2>3. /\ Search!Sorted(P)[i] \in P
        /\ Search!Cardinality(Lower(Search!Sorted(P)[i])) = i - 1
    BY <2>1, <2>2
  <2> QED
    BY <2>3, SameCardinality
<1>9. ASSUME NEW p \in P PROVE \E i \in 1 .. N : Search!Sorted(P)[i] = p
  <2> DEFINE i == Cardinality(Lower(p)) + 1
  <2>1. i \in 1 .. N /\ i - 1 = rank[p]
    <3> HIDE DEF Lower
    <3> QED
      BY <1>1, <1>2
  <2> HIDE DEF i
  <2>2. Search!Sorted(P)[i] \in P /\ Cardinality(Lower(Search!Sorted(P)[i])) = rank[p]
    <3> HIDE DEF Lower, rank
    <3> QED
      BY <1>8, <2>1
  <2>3. rank[Search!Sorted(P)[i]] = rank[p]
    BY <2>2
  <2> HIDE DEF rank
  <2>4. Search!Sorted(P)[i] = p
    BY <1>4, <2>2, <2>3 DEF Injection, IsInjective
  <2> QED
    BY <2>1, <2>4
<1>10. DOMAIN Search!Sorted(P) = 1 .. N
  BY <1>7
<1> QED
  BY <1>8, <1>9, <1>10

\* The trees: a file is no directory of another one.
TreeOK(tree) == IsFiniteSet(tree) /\ Branches({f.path : f \in tree})

\* The files that collectFileSources puts in order.
Collected(tree, dir, env, recursive) ==
    {f.path : f \in {g \in tree : /\ Search!Below(dir, g.path) /\ Search!Selected(g, env)
                                  /\ recursive \/ Len(g.path) = Len(dir) + 1}}

LEMMA SomeAreCollected ==
    ASSUME NEW tree, TreeOK(tree), NEW dir, NEW env, NEW recursive
    PROVE  LET found == Search!collectFileSources(tree, dir, env, recursive)
           IN  /\ found = <<>> <=> Collected(tree, dir, env, recursive) = {}
               /\ Search!ToSet(found) = Collected(tree, dir, env, recursive)
<1> DEFINE P == Collected(tree, dir, env, recursive)
           found == Search!collectFileSources(tree, dir, env, recursive)
           N == Cardinality(P)
<1>1. found = Search!Sorted(P)
  BY DEF Search!collectFileSources, Collected
<1>2. P \subseteq {f.path : f \in tree}
  BY DEF Collected
<1> HIDE DEF P, found
<1>3. Branches(P)
  <2> DEFINE All == {f.path : f \in tree}
  <2>1. P \subseteq All /\ Branches(All)
    BY <1>2 DEF TreeOK
  <2> HIDE DEF All
  <2> QED
    BY <2>1, FS_Subset DEF Branches
<1>4. N \in Nat
  BY <1>3, FS_CardinalityType DEF Branches
<1>5. /\ DOMAIN found = 1 .. N
      /\ \A i \in 1 .. N : found[i] \in P
      /\ \A p \in P : \E i \in 1 .. N : found[i] = p
  BY <1>1, <1>3, SortedIsAll
<1>6. Search!ToSet(found) = P
  BY <1>5 DEF Search!ToSet
<1>7. ASSUME P = {} PROVE found = <<>>
  <2>1. N = 0
    BY <1>7, FS_EmptySet
  <2>2. Search!Cardinality(P) = 0
    BY <2>1, SameCardinality
  <2> QED
    BY <1>1, <2>2 DEF Search!Sorted
<1>8. ASSUME P # {} PROVE found # <<>>
  <2>1. 1 \in DOMAIN found
    BY <1>4, <1>5, <1>8
  <2> QED
    BY <2>1
<1> QED
  BY <1>6, <1>7, <1>8 DEF P, found

LEMMA FirstThatHasAny ==
    ASSUME NEW tree, TreeOK(tree), NEW dirs, NEW n \in Nat, DOMAIN dirs = 1 .. n,
           NEW env, NEW recursive
    PROVE  LET result == Search!firstFileSources(tree, dirs, env, recursive)
               Has(i) == Collected(tree, dirs[i], env, recursive)
           IN  \/ result = <<>> /\ \A i \in 1 .. n : Has(i) = {}
               \/ \E i \in 1 .. n :
                    /\ Search!ToSet(result) = Has(i) /\ Has(i) # {} /\ result # <<>>
                    /\ \A j \in 1 .. i - 1 : Has(j) = {}
<1> DEFINE result == Search!firstFileSources(tree, dirs, env, recursive)
           Has(i) == Collected(tree, dirs[i], env, recursive)
           Found(i) == Search!collectFileSources(tree, dirs[i], env, recursive)
           found == [i \in DOMAIN dirs |-> Found(i)]
           hits == {i \in DOMAIN dirs : found[i] # <<>>}
<1>1. result = IF hits = {} THEN <<>>
               ELSE found[CHOOSE i \in hits : \A j \in hits : i <= j]
  BY DEF Search!firstFileSources
<1>2. \A i \in 1 .. n : /\ i \in hits <=> Has(i) # {}
                        /\ Search!ToSet(found[i]) = Has(i)
                        /\ found[i] # <<>> <=> Has(i) # {}
  BY SomeAreCollected
<1>3. hits \in SUBSET Nat /\ hits \subseteq 1 .. n
  OBVIOUS
<1> HIDE DEF result, Has, found, hits
<1>4. CASE hits = {}
  BY <1>1, <1>2, <1>4 DEF result, Has
<1>5. CASE hits # {}
  <2> DEFINE i == CHOOSE k \in hits : \A j \in hits : k <= j
  <2>1. i \in hits /\ \A j \in hits : i <= j
    BY <1>3, <1>5, LeastNumber
  <2>2. result = found[i]
    BY <1>1, <1>5
  <2> HIDE DEF i
  <2>3. i \in 1 .. n /\ Has(i) # {}
    BY <1>2, <1>3, <2>1
  <2>4. ASSUME NEW j \in 1 .. i - 1 PROVE Has(j) = {}
    <3>1. j \in 1 .. n /\ ~(i <= j)
      BY <2>3
    <3> QED
      BY <1>2, <2>1, <3>1
  <2> QED
    BY <1>2, <2>2, <2>3, <2>4 DEF result, Has
<1> QED
  BY <1>4, <1>5

LEMMA BelowMeans ==
    ASSUME NEW S, NEW dir \in Seq(S), NEW p \in Seq(S), Search!Below(dir, p)
    PROVE  Len(dir) < Len(p) /\ \A k \in 1 .. Len(dir) : p[k] = dir[k]
<1>1. Len(dir) < Len(p) /\ SubSeq(p, 1, Len(dir)) = dir
  BY DEF Search!Below
<1>2. \A k \in 1 .. Len(dir) : SubSeq(p, 1, Len(dir))[k] = p[k]
  BY <1>1
<1> QED
  BY <1>1, <1>2

\* What lies in two places that are apart lies in one place.
LEMMA ApartFromOthers ==
    ASSUME NEW q \in Paths, NEW u \in Paths, NEW p \in Paths, NEW service,
           \/ Search!Below(Append(q, service), p)
           \/ Search!Below(q, p) /\ Len(p) = Len(q) + 1,
           ~Search!Below(q, u), ~Search!Below(u, q)
    PROVE  ~Search!OfOthers(u, service, p)
<1> SUFFICES ASSUME Search!OfOthers(u, service, p) PROVE FALSE
  OBVIOUS
<1> DEFINE S == Nat \cup {service}
           home == Append(q, service)
<1>1. /\ q \in Seq(S) /\ u \in Seq(S) /\ p \in Seq(S) /\ home \in Seq(S)
      /\ Len(home) = Len(q) + 1 /\ home[Len(q) + 1] = service
      /\ \A k \in 1 .. Len(q) : home[k] = q[k]
      /\ Len(q) \in Nat /\ Len(u) \in Nat /\ Len(p) \in Nat
  <2>1. q \in Seq(S) /\ u \in Seq(S) /\ p \in Seq(S) /\ service \in S
    <3>1. \A x \in Seq(Nat) : x \in Seq(S)
      OBVIOUS
    <3> QED
      BY <3>1 DEF Paths
  <2> HIDE DEF S
  <2>2. /\ home \in Seq(S) /\ Len(home) = Len(q) + 1 /\ home[Len(q) + 1] = service
        /\ \A k \in 1 .. Len(q) : home[k] = q[k]
    BY <2>1
  <2>3. Len(q) \in Nat /\ Len(u) \in Nat /\ Len(p) \in Nat
    BY <2>1
  <2> QED
    BY <2>1, <2>2, <2>3
<1> HIDE DEF S, home
<1>2. /\ Len(u) + 1 < Len(p) /\ p[Len(u) + 1] # service
      /\ \A k \in 1 .. Len(u) : p[k] = u[k]
  BY <1>1, BelowMeans DEF Search!OfOthers
<1>3. /\ \A k \in 1 .. Len(q) : p[k] = q[k]
      /\ p[Len(q) + 1] = service \/ Len(p) = Len(q) + 1
  <2>1. CASE Search!Below(home, p)
    <3>1. \A k \in 1 .. Len(q) + 1 : p[k] = home[k]
      BY <1>1, <2>1, BelowMeans
    <3> QED
      BY <1>1, <3>1
  <2>2. CASE Search!Below(q, p) /\ Len(p) = Len(q) + 1
    BY <1>1, <2>2, BelowMeans
  <2> QED
    BY <2>1, <2>2 DEF home
<1>4. CASE Len(q) = Len(u)
  BY <1>1, <1>2, <1>3, <1>4
<1>5. CASE Len(q) < Len(u)
  <2>1. \A k \in 1 .. Len(q) : u[k] = q[k]
    BY <1>1, <1>2, <1>3, <1>5
  <2>2. SubSeq(u, 1, Len(q)) = q
    BY <1>1, <1>5, <2>1
  <2> QED
    BY <1>5, <2>2 DEF Search!Below
<1>6. CASE Len(u) < Len(q)
  <2>1. \A k \in 1 .. Len(u) : q[k] = u[k]
    BY <1>1, <1>2, <1>3, <1>6
  <2>2. SubSeq(q, 1, Len(u)) = u
    BY <1>1, <1>6, <2>1
  <2> QED
    BY <1>6, <2>2 DEF Search!Below
<1> QED
  BY <1>1, <1>4, <1>5, <1>6

LEMMA OwnFilesOnly ==
    ASSUME NEW tree, TreeOK(tree), NEW service, NEW configPath \in Paths, NEW env
    PROVE  Search!ServiceLoadsItsOwn(tree, service, configPath, env)
<1> DEFINE places == Search!Places(configPath)
           n == Len(places)
           dirs == [i \in DOMAIN places |-> Append(places[i], service)]
           own == Search!InServiceDir(tree, service, configPath, env)
           direct == Search!InPlace(tree, configPath, env)
           sources == Search!ToSet(Search!serviceSources(tree, service, configPath, env))
           Own(i) == {f.path : f \in {g \in tree :
                         /\ Search!Selected(g, env)
                         /\ Search!Below(Append(places[i], service), g.path)}}
           Deep(i) == Collected(tree, dirs[i], env, TRUE)
           Flat(i) == Collected(tree, places[i], env, FALSE)
           Whole == sources # {} =>
             \E i \in DOMAIN places :
               \/ sources = Own(i) /\ \A j \in 1 .. i - 1 : Own(j) = {}
               \/ /\ \A p \in sources : Search!Below(places[i], p) /\ Len(p) = Len(places[i]) + 1
                  /\ \A j \in DOMAIN places : Own(j) = {}
<1>1. places \in Seq(Paths)
  <2>1. Roots \in Seq(Paths)
    BY LibrariesAssumption DEF Search!SearchAssumption, Paths
  <2> QED
    BY <2>1 DEF Search!Places
<1>2. n \in Nat /\ DOMAIN places = 1 .. n /\ DOMAIN dirs = 1 .. n
  BY <1>1
<1>3. \A i \in 1 .. n : Own(i) = Deep(i)
  BY <1>2 DEF Collected
<1>4. \A i \in 1 .. n : \A p \in Flat(i) :
        Search!Below(places[i], p) /\ Len(p) = Len(places[i]) + 1
  BY DEF Collected
<1>5. own = Search!firstFileSources(tree, dirs, env, TRUE)
  BY DEF Search!InServiceDir
<1>6. direct = Search!firstFileSources(tree, places, env, FALSE)
  BY DEF Search!InPlace
<1>7. sources = Search!ToSet(IF own # <<>> THEN own ELSE direct)
  BY DEF Search!serviceSources
<1>8. \/ own = <<>> /\ \A i \in 1 .. n : Deep(i) = {}
      \/ \E i \in 1 .. n : /\ Search!ToSet(own) = Deep(i) /\ Deep(i) # {} /\ own # <<>>
                           /\ \A j \in 1 .. i - 1 : Deep(j) = {}
  <2> HIDE DEF dirs, n, places, own
  <2> QED
    BY <1>2, <1>5, FirstThatHasAny
<1>9. \/ direct = <<>>
      \/ \E i \in 1 .. n : Search!ToSet(direct) = Flat(i)
  <2>1. \/ direct = <<>> /\ \A i \in 1 .. n : Flat(i) = {}
        \/ \E i \in 1 .. n : /\ Search!ToSet(direct) = Flat(i) /\ Flat(i) # {} /\ direct # <<>>
                             /\ \A j \in 1 .. i - 1 : Flat(j) = {}
    <3> HIDE DEF n, places, direct
    <3> QED
      BY <1>2, <1>6, FirstThatHasAny
  <2> HIDE DEF n, places, direct, Flat
  <2> QED
    BY <2>1
<1>10. Search!ToSet(<<>>) = {}
  BY DEF Search!ToSet
<1>11. Search!ServiceLoadsItsOwn(tree, service, configPath, env) <=>
         /\ Whole
         /\ \A p \in sources, i \in DOMAIN places :
              Search!Apart(places[i], places) => ~Search!OfOthers(places[i], service, p)
  BY DEF Search!ServiceLoadsItsOwn
<1>14. Whole <=>
         (sources # {} =>
            \E i \in DOMAIN places :
              \/ sources = Own(i) /\ \A j \in 1 .. i - 1 : Own(j) = {}
              \/ /\ \A p \in sources : Search!Below(places[i], p) /\ Len(p) = Len(places[i]) + 1
                 /\ \A j \in DOMAIN places : Own(j) = {})
  OBVIOUS
<1>15. \A i \in 1 .. n : \A p \in Own(i) :
         p \in Paths /\ Search!Below(Append(places[i], service), p)
  BY DEF TreeOK, Branches
<1>16. \A p \in sources : p \in Paths
  <2>1. \A i \in 1 .. n : \A p \in Deep(i) \cup Flat(i) : p \in Paths
    BY DEF Collected, TreeOK, Branches
  <2> HIDE DEF places, n, dirs, own, direct, sources, Own, Deep, Flat
  <2>2. \A p \in Search!ToSet(direct) : p \in Paths
    BY <2>1, <1>9, <1>10
  <2>3. \A p \in Search!ToSet(own) : own # <<>> => p \in Paths
    BY <2>1, <1>8
  <2> QED
    BY <2>2, <2>3, <1>7
<1> HIDE DEF places, n, dirs, own, direct, sources, Own, Deep, Flat, Whole
<1>12. ASSUME own # <<>> PROVE Whole
  <2>1. PICK i \in 1 .. n : sources = Deep(i) /\ \A j \in 1 .. i - 1 : Deep(j) = {}
    BY <1>7, <1>8, <1>12
  <2>2. \A j \in 1 .. i - 1 : j \in 1 .. n
    BY <1>2
  <2>3. sources = Own(i) /\ \A j \in 1 .. i - 1 : Own(j) = {}
    BY <1>3, <2>1, <2>2
  <2> QED
    BY <1>2, <1>14, <2>3
<1>13. ASSUME own = <<>> PROVE Whole
  <2>1. \A j \in 1 .. n : Own(j) = {}
    BY <1>3, <1>8, <1>13
  <2>2. sources = Search!ToSet(direct)
    BY <1>7, <1>13
  <2>3. CASE direct = <<>>
    BY <1>10, <1>14, <2>2, <2>3
  <2>4. CASE \E i \in 1 .. n : Search!ToSet(direct) = Flat(i)
    BY <1>2, <1>4, <1>14, <2>1, <2>2, <2>4
  <2> QED
    BY <1>9, <2>3, <2>4
<1>17. Whole
  BY <1>12, <1>13
<1>18. ASSUME NEW p \in sources, NEW i \in DOMAIN places, Search!Apart(places[i], places)
       PROVE  ~Search!OfOthers(places[i], service, p)
  <2>1. PICK k \in DOMAIN places :
          \/ Search!Below(Append(places[k], service), p)
          \/ Search!Below(places[k], p) /\ Len(p) = Len(places[k]) + 1
    BY <1>2, <1>14, <1>15, <1>17, <1>18
  <2>2. places[k] \in Paths /\ places[i] \in Paths /\ p \in Paths
    BY <1>1, <1>2, <1>16
  <2>3. places[k] \in Search!ToSet(places)
    BY DEF Search!ToSet
  <2>4. ~Search!Below(places[k], places[i]) /\ ~Search!Below(places[i], places[k])
    BY <1>18, <2>3 DEF Search!Apart
  <2> QED
    BY <2>1, <2>2, <2>4, ApartFromOthers
<1> QED
  BY <1>11, <1>17, <1>18

\* What a service loads is its own or lies in the place itself, and nothing of it is in
\* the directory another service has in a place apart from the others, whatever the
\* places, the files and DEPLOY_ENV are (config_helper.go, serviceSources).
THEOREM ServicesLoadTheirOwn ==
    \A tree : \A service, env : \A configPath \in Paths :
      TreeOK(tree) => Search!ServiceLoadsItsOwn(tree, service, configPath, env)
BY OwnFilesOnly

\* In the trees of the run 5 to 7 are files and other numbers are directories.
FilePath(p) ==
    /\ p \in Paths /\ Len(p) \in Nat \ {0} /\ p[Len(p)] \in 5 .. 7
    /\ \A k \in 1 .. Len(p) - 1 : p[k] \notin 5 .. 7

LEMMA FilesPart ==
    ASSUME NEW p, NEW q, FilePath(p), FilePath(q), p # q
    PROVE  Part(p, q)
<1> SUFFICES ASSUME ~Part(p, q) PROVE FALSE
  OBVIOUS
<1>1. /\ p \in Paths /\ q \in Paths /\ Len(p) \in Nat \ {0} /\ Len(q) \in Nat \ {0}
      /\ \A i \in 1 .. Len(p) : i \in 1 .. Len(q) => p[i] = q[i]
  BY DEF Part, FilePath
<1>2. CASE Len(p) = Len(q)
  BY <1>1, <1>2, SeqEqual DEF Paths
<1>3. CASE Len(p) < Len(q)
  <2>1. Len(p) \in 1 .. Len(p) /\ Len(p) \in 1 .. Len(q) /\ Len(p) \in 1 .. Len(q) - 1
    BY <1>1, <1>3
  <2> QED
    BY <1>1, <2>1 DEF FilePath
<1>4. CASE Len(q) < Len(p)
  <2>1. Len(q) \in 1 .. Len(p) /\ Len(q) \in 1 .. Len(q) /\ Len(q) \in 1 .. Len(p) - 1
    BY <1>1, <1>4
  <2> QED
    BY <1>1, <2>1 DEF FilePath
<1> QED
  BY <1>1, <1>2, <1>3, <1>4

LEMMA FilesHaveFilePaths == \A f \in SearchFiles : FilePath(f.path)
<1>1. /\ FilePath(<<1, 5>>) /\ FilePath(<<2, 6>>) /\ FilePath(<<9, 5>>)
  BY DEF FilePath, Paths
<1>2. /\ FilePath(<<1, 3, 5>>) /\ FilePath(<<1, 3, 6>>) /\ FilePath(<<1, 4, 7>>)
      /\ FilePath(<<1, 4, 5>>) /\ FilePath(<<2, 3, 5>>) /\ FilePath(<<9, 3, 5>>)
  BY DEF FilePath, Paths
<1>3. FilePath(<<1, 3, 4, 5>>)
  BY DEF FilePath, Paths
<1> HIDE DEF FilePath
<1> QED
  BY <1>1, <1>2, <1>3 DEF SearchFiles, SearchFile

LEMMA TreesOfTheRun == ASSUME NEW tree \in SUBSET SearchFiles PROVE TreeOK(tree)
<1>1. IsFiniteSet(SearchFiles)
  <2> DEFINE F(a, b) == SearchFile(a, b)
  <2>1. /\ IsFiniteSet({F(<<1, 5>>, "prod"), F(<<1, 3, 5>>, "prod")})
        /\ IsFiniteSet({F(<<1, 3, 6>>, "dev"), F(<<1, 3, 4, 5>>, "preprod")})
        /\ IsFiniteSet({F(<<1, 4, 7>>, "notes"), F(<<1, 4, 5>>, "prod")})
        /\ IsFiniteSet({F(<<2, 3, 5>>, "prod"), F(<<2, 6>>, "dev")})
        /\ IsFiniteSet({F(<<9, 5>>, "prod"), F(<<9, 3, 5>>, "prod")})
    <3>1. \A a, b : IsFiniteSet({a, b})
      <4> SUFFICES ASSUME NEW a, NEW b PROVE IsFiniteSet({a, b})
        OBVIOUS
      <4>1. IsFiniteSet({a}) /\ IsFiniteSet({b})
        BY FS_Singleton
      <4>2. IsFiniteSet({a} \cup {b})
        BY <4>1, FS_Union
      <4>3. {a} \cup {b} = {a, b}
        OBVIOUS
      <4> QED
        BY <4>2, <4>3
    <3> HIDE DEF F
    <3> QED
      BY <3>1
  <2>2. IsFiniteSet((({F(<<1, 5>>, "prod"), F(<<1, 3, 5>>, "prod")}
                   \cup {F(<<1, 3, 6>>, "dev"), F(<<1, 3, 4, 5>>, "preprod")})
                   \cup {F(<<1, 4, 7>>, "notes"), F(<<1, 4, 5>>, "prod")})
                   \cup ({F(<<2, 3, 5>>, "prod"), F(<<2, 6>>, "dev")}
                   \cup {F(<<9, 5>>, "prod"), F(<<9, 3, 5>>, "prod")}))
    <3> HIDE DEF F
    <3> QED
      BY <2>1, FS_Union
  <2> QED
    BY <2>2 DEF SearchFiles
<1>2. IsFiniteSet(tree) /\ IsFiniteSet({f.path : f \in tree})
  <2>1. IsFiniteSet(tree)
    BY <1>1, FS_Subset
  <2> DEFINE path == [f \in tree |-> f.path]
             All == {f.path : f \in tree}
  <2>2. path \in Surjection(tree, All)
    BY DEF Surjection
  <2>3. IsFiniteSet(All)
    <3> HIDE DEF path, All
    <3> QED
      BY <2>1, <2>2, FS_Surjection
  <2> QED
    BY <2>1, <2>3
<1>3. \A p \in {f.path : f \in tree} : FilePath(p)
  BY FilesHaveFilePaths
<1>4. Branches({f.path : f \in tree})
  <2> DEFINE P == {f.path : f \in tree}
  <2>1. IsFiniteSet(P) /\ \A p \in P : FilePath(p)
    BY <1>2, <1>3
  <2> HIDE DEF P
  <2>2. P \subseteq Paths
    BY <2>1 DEF FilePath
  <2>3. Branches(P)
    BY <2>1, <2>2, FilesPart DEF Branches
  <2> QED
    BY <2>3 DEF P
<1> QED
  BY <1>2, <1>4 DEF TreeOK

\* The trees, services and paths of a run are some of those.
THEOREM ServicesLoadTheirOwnFiles == LibrariesSpec => []ServiceLoadsItsOwn
<1> DEFINE SearchInv == focus = "search" => input \in Searches
<1>1. LibrariesInit => SearchInv
  BY DEF LibrariesInit
<1>2. SearchInv /\ [LibrariesNext /\ UNCHANGED <<focus, input>>]_libraryVars => SearchInv'
  BY DEF libraryVars
<1>3. SearchInv => ServiceLoadsItsOwn
  <2> SUFFICES ASSUME SearchInv, focus = "search"
               PROVE  Search!ServiceLoadsItsOwn(input.tree, input.service, input.configPath,
                                                input.env)
    BY DEF ServiceLoadsItsOwn
  <2>1. input.tree \in SUBSET SearchFiles /\ input.configPath \in {<<>>, <<9>>, <<1, 3>>}
    BY DEF Searches
  <2>2. input.configPath \in Paths
    <3>1. <<>> \in Paths /\ <<9>> \in Paths /\ <<1, 3>> \in Paths
      BY DEF Paths
    <3> QED
      BY <2>1, <3>1
  <2> QED
    BY <2>1, <2>2, TreesOfTheRun, ServicesLoadTheirOwn
<1> QED
  BY <1>1, <1>2, <1>3, PTL DEF LibrariesSpec
=====================================================================================
