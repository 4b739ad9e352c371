---------------------------- MODULE Publishing_proofs ----------------------------
(***************************************************************************)
(* Proofs about Publishing, for any processes, deployments and bounds:     *)
(* what the streams hold after calls that fail, are repeated, or whose     *)
(* requests arrive late, and what they bind after services were set up at  *)
(* the same time.  The two parts share no invariant.                       *)
(***************************************************************************)
EXTENDS Publishing, Induction, TLAPS

-----------------------------------------------------------------------------
(* The invariant, in parts *)

DeploymentOK == deployment \in DeploymentType

LogTyped == log \in Seq(LogEntry) /\ window \in Nat

\* An entry, or a request, of a JetStream client carries the ID of its message.
CarriesId(y) ==
    y.process \in deployment.jetStream =>
      y.dedup = Jobs(y.process)[y.job].batch[y.pos].id

IdsCarried == \A e \in DOMAIN log : \A y \in LogEntry : y = log[e] => CarriesId(y)

\* StoredOncePerWindow, said of the message IDs the server sees.
OncePerWindow ==
    \A d, e \in DOMAIN log :
        d # e /\ log[d].name = log[e].name /\ log[d].window = log[e].window /\ log[d].dedup # Blank
        => log[d].dedup # log[e].dedup

\* StoredInOrder, entry by entry.
Preceded(y, e) ==
    y.process \in deployment.jetStream =>
      \A k \in 1 .. (y.pos - 1) : StoredBy(y.process, y.job, k, e)

InOrder == \A e \in DOMAIN log : \A y \in LogEntry : y = log[e] => Preceded(y, e)

LogInv == LogTyped /\ IdsCarried /\ OncePerWindow /\ InOrder

\* The messages before the position k of a batch are stored.
StoredBefore(p, j, k) == \A i \in 1 .. (k - 1) : StoredBy(p, j, i, Len(log))

\* A request whose messages before it are stored; the one of a JetStream client carries
\* the ID of its message.
GoodRequest(r) ==
    /\ r.process \in Process /\ r.job \in Nat /\ r.pos \in Nat
    /\ r.dedup \in Id \cup {Blank}
    /\ CarriesId(r)
    /\ r.process \in deployment.jetStream =>
         /\ Jobs(r.process)[r.job].batch[r.pos] # Unsendable
         /\ StoredBefore(r.process, r.job, r.pos)

FlightInv == \A r \in flight : GoodRequest(r)

CallTyped ==
    /\ pc \in [Process -> Labels] /\ at \in [Process -> Nat \ {0}]
    /\ job \in [Process -> Nat \ {0}] /\ accepted \in [Process -> SUBSET Nat]

CallInv ==
    /\ CallTyped
    /\ \A p \in Process, j, k \in Nat :
         pc[p] = "publishing" /\ job[p] = j /\ at[p] = k =>
           /\ j \in DOMAIN Jobs(p)
           /\ UsesJetStream(p) => StoredBefore(p, j, k)

PublishInv == DeploymentOK /\ LogInv /\ FlightInv /\ CallInv /\ AcceptedIsStored

LEMMA InitHolds == Init => PublishInv
<1> SUFFICES ASSUME Init PROVE PublishInv
  OBVIOUS
<1>1. /\ log = <<>> /\ window = 0 /\ flight = {} /\ deployment \in Deployments
      /\ pc = [p \in Process |-> "down"] /\ at = [p \in Process |-> 1]
      /\ job = [p \in Process |-> 1] /\ accepted = [p \in Process |-> {}]
  BY DEF Init
<1>2. DeploymentOK
  BY <1>1, PublishingAssumption DEF DeploymentOK
<1>3. DOMAIN log = {} /\ log \in Seq(LogEntry)
  BY <1>1
<1>4. LogInv
  BY <1>1, <1>3 DEF LogInv, LogTyped, IdsCarried, OncePerWindow, InOrder
<1>5. CallInv
  BY <1>1 DEF CallInv, CallTyped, Labels
<1>6. AcceptedIsStored
  BY <1>1, <1>2 DEF AcceptedIsStored, DeploymentOK, DeploymentType
<1> QED
  BY <1>1, <1>2, <1>4, <1>5, <1>6 DEF PublishInv, FlightInv

-----------------------------------------------------------------------------
(* The log only grows *)

Grows == /\ deployment' = deployment
         /\ log' = log \/ \E x \in LogEntry : log' = Append(log, x)

LEMMA GrownLog ==
    ASSUME LogTyped, Grows
    PROVE  /\ log' \in Seq(LogEntry) /\ Len(log) \in Nat /\ Len(log') \in Nat
           /\ Len(log) <= Len(log')
           /\ DOMAIN log = 1 .. Len(log) /\ DOMAIN log' = 1 .. Len(log')
           /\ \A e \in 1 .. Len(log) : log'[e] = log[e]
<1>1. CASE log' = log
  BY <1>1 DEF LogTyped
<1>2. CASE \E x \in LogEntry : log' = Append(log, x)
  BY <1>2 DEF LogTyped
<1> QED
  BY <1>1, <1>2 DEF Grows

\* What is stored stays stored.
LEMMA StoredFurther ==
    ASSUME NEW p, NEW j, NEW k, NEW i, NEW e, 1 .. i \subseteq 1 .. e, StoredBy(p, j, k, i)'
    PROVE  StoredBy(p, j, k, e)'
<1> DEFINE m == Jobs(p)[j].batch[k]
           is(x) == \/ x.process = p /\ x.job = j /\ x.pos = k
                    \/ m'.id # Blank /\ x.dedup = m'.id
<1>1. m' # Unsendable
  BY DEF StoredBy
<1>2. PICK d \in 1 .. i : is(log'[d])
  BY DEF StoredBy
<1>3. d \in 1 .. e
  OBVIOUS
<1> QED
  BY <1>1, <1>2, <1>3 DEF StoredBy

LEMMA StoredStays ==
    ASSUME LogTyped, Grows, NEW p, NEW j, NEW k, NEW i \in 0 .. Len(log),
           StoredBy(p, j, k, i)
    PROVE  StoredBy(p, j, k, i)' /\ StoredBy(p, j, k, Len(log))'
<1> DEFINE m == Jobs(p)[j].batch[k]
           is(x) == \/ x.process = p /\ x.job = j /\ x.pos = k
                    \/ m.id # Blank /\ x.dedup = m.id
<1>1. PICK e \in 1 .. i : is(log[e])
  BY DEF StoredBy
<1>2. m # Unsendable /\ m' = m
  BY DEF StoredBy, Grows, Jobs
<1>3. e \in 1 .. Len(log) /\ e \in 1 .. Len(log') /\ log'[e] = log[e]
  BY GrownLog
<1>4. is(log'[e])
  BY <1>1, <1>3
<1> HIDE DEF m
<1> QED
  BY <1>1, <1>2, <1>3, <1>4 DEF StoredBy, m

LEMMA StoredBeforeStays ==
    ASSUME LogTyped, Grows, NEW p, NEW j, NEW k, StoredBefore(p, j, k)
    PROVE  StoredBefore(p, j, k)'
<1>1. Len(log) \in 0 .. Len(log)
  BY GrownLog
<1> QED
  BY <1>1, StoredStays DEF StoredBefore

LEMMA FlightStays ==
    ASSUME PublishInv, Grows, \A r \in flight' : r \in flight \/ GoodRequest(r)
    PROVE  FlightInv'
<1> SUFFICES ASSUME NEW r \in flight' PROVE GoodRequest(r)'
  BY DEF FlightInv
<1>1. GoodRequest(r)
  BY DEF PublishInv, FlightInv
<1>2. deployment' = deployment /\ Jobs(r.process)' = Jobs(r.process)
  BY DEF Grows, Jobs
<1>3. r.process \in deployment.jetStream => StoredBefore(r.process, r.job, r.pos)'
  BY <1>1, StoredBeforeStays DEF GoodRequest, PublishInv, LogInv
<1>4. CarriesId(r)'
  BY <1>1, <1>2 DEF GoodRequest, CarriesId
<1> QED
  BY <1>1, <1>2, <1>3, <1>4 DEF GoodRequest

LEMMA AcceptedStays ==
    ASSUME PublishInv, Grows, accepted' = accepted
    PROVE  AcceptedIsStored'
<1>1. Len(log) \in 0 .. Len(log)
  BY GrownLog DEF PublishInv, LogInv
<1>2. ASSUME NEW p \in deployment'.jetStream, NEW j \in accepted'[p],
             NEW k \in DOMAIN (Jobs(p)')[j].batch
      PROVE  StoredBy(p, j, k, Len(log))'
  <2>1. StoredBy(p, j, k, Len(log))
    BY DEF PublishInv, AcceptedIsStored, Grows, Jobs
  <2> QED
    BY <1>1, <2>1, StoredStays DEF PublishInv, LogInv
<1> QED
  BY <1>2 DEF AcceptedIsStored

\* A step in which no call goes on to another message.
LEMMA CallsRest ==
    ASSUME PublishInv, Grows, CallTyped',
           \A p \in Process : pc'[p] = "publishing" =>
             pc[p] = "publishing" /\ job'[p] = job[p] /\ at'[p] = at[p]
    PROVE  CallInv'
<1> SUFFICES ASSUME NEW p \in Process, NEW j \in Nat, NEW k \in Nat,
                    pc'[p] = "publishing", job'[p] = j, at'[p] = k
             PROVE  j \in DOMAIN Jobs(p)' /\ (UsesJetStream(p)' => StoredBefore(p, j, k)')
  BY DEF CallInv
<1>1. j \in DOMAIN Jobs(p) /\ (UsesJetStream(p) => StoredBefore(p, j, k))
  BY DEF PublishInv, CallInv
<1>2. Jobs(p)' = Jobs(p) /\ UsesJetStream(p)' = UsesJetStream(p)
  BY DEF Grows, Jobs, UsesJetStream
<1> QED
  BY <1>1, <1>2, StoredBeforeStays DEF PublishInv, LogInv

LEMMA LogRests ==
    ASSUME PublishInv, UNCHANGED <<deployment, log>>, window' \in Nat
    PROVE  LogInv'
<1>1. \A y : CarriesId(y) => CarriesId(y)'
  BY DEF CarriesId, Jobs
<1>2. \A y, e : Preceded(y, e) => Preceded(y, e)'
  BY DEF Preceded, StoredBy, Jobs
<1> QED
  BY <1>1, <1>2 DEF PublishInv, LogInv, LogTyped, IdsCarried, OncePerWindow, InOrder

\* Nothing of what the invariant is about goes on.
LEMMA Rests ==
    ASSUME PublishInv, UNCHANGED <<deployment, log, accepted>>, window' \in Nat,
           \A r \in flight' : r \in flight \/ GoodRequest(r), CallTyped',
           \A p \in Process : pc'[p] = "publishing" =>
             pc[p] = "publishing" /\ job'[p] = job[p] /\ at'[p] = at[p]
    PROVE  PublishInv'
<1>1. Grows
  BY DEF Grows
<1>2. CallInv'
  BY <1>1, CallsRest
<1>3. LogInv'
  BY LogRests
<1>4. FlightInv'
  BY <1>1, FlightStays
<1>5. AcceptedIsStored'
  BY <1>1, AcceptedStays
<1>6. DeploymentOK'
  BY DEF PublishInv, DeploymentOK
<1> QED
  BY <1>2, <1>3, <1>4, <1>5, <1>6 DEF PublishInv

-----------------------------------------------------------------------------
(* A request reaches a stream *)

\* The entry the log gains.
EntryOf(r, n) ==
    [name |-> n, window |-> window, dedup |-> r.dedup,
     process |-> r.process, job |-> r.job, pos |-> r.pos]

\* What the server does with a request.
LEMMA StoredOrKnown ==
    ASSUME NEW r, NEW n, log' = Stored(r, n)
    PROVE  \/ log' = log /\ r.dedup # Blank /\ Known(n, r.dedup)
           \/ log' = Append(log, EntryOf(r, n)) /\ (r.dedup = Blank \/ ~Known(n, r.dedup))
BY DEF Stored, EntryOf

LEMMA StoredGrows ==
    ASSUME LogTyped, NEW r, GoodRequest(r), NEW n \in Name, log' = Stored(r, n),
           deployment' = deployment
    PROVE  Grows
<1>1. EntryOf(r, n) \in LogEntry
  BY DEF LogTyped, GoodRequest, LogEntry, EntryOf
<1>2. log' = log \/ log' = Append(log, EntryOf(r, n))
  BY ZenonT(40) DEF Stored, EntryOf
<1> QED
  BY <1>1, <1>2, Zenon DEF Grows

\* Afterwards the message of the request is stored, or another with its ID.
LEMMA StoredIsStored ==
    ASSUME PublishInv, NEW r, GoodRequest(r), NEW n \in Name, log' = Stored(r, n),
           deployment' = deployment, r.process \in deployment.jetStream
    PROVE  StoredBy(r.process, r.job, r.pos, Len(log))'
<1> DEFINE m == Jobs(r.process)[r.job].batch[r.pos]
<1>1. m' = m /\ m # Unsendable /\ r.dedup = m.id
  BY DEF GoodRequest, CarriesId, Jobs
<1>2. /\ Len(log) \in Nat /\ DOMAIN log = 1 .. Len(log)
  BY DEF PublishInv, LogInv, LogTyped
<1>3. PICK e \in 1 .. Len(log') :
        \/ log'[e].process = r.process /\ log'[e].job = r.job /\ log'[e].pos = r.pos
        \/ m.id # Blank /\ log'[e].dedup = m.id
  <2>1. CASE log' = log /\ r.dedup # Blank /\ Known(n, r.dedup)
    BY <2>1, <1>1, <1>2 DEF Known
  <2>2. CASE log' = Append(log, EntryOf(r, n))
    <3>1. Len(log') = Len(log) + 1 /\ log'[Len(log) + 1] = EntryOf(r, n)
      BY <2>2 DEF PublishInv, LogInv, LogTyped
    <3>2. /\ EntryOf(r, n).process = r.process /\ EntryOf(r, n).job = r.job
          /\ EntryOf(r, n).pos = r.pos
      BY DEF EntryOf
    <3> QED
      BY <3>1, <3>2, <1>2
  <2>3. \/ log' = log /\ r.dedup # Blank /\ Known(n, r.dedup)
        \/ log' = Append(log, EntryOf(r, n))
    BY ZenonT(40) DEF Stored, EntryOf
  <2> HIDE DEF m
  <2> QED
    BY <2>1, <2>2, <2>3, Zenon
<1> HIDE DEF m
<1> QED
  BY <1>1, <1>3 DEF StoredBy, m

\* The log stays as it should be.
LEMMA StoredKeepsLog ==
    ASSUME PublishInv, NEW r, GoodRequest(r), NEW n \in Name, log' = Stored(r, n),
           deployment' = deployment, window' = window
    PROVE  LogInv'
<1> DEFINE x == EntryOf(r, n)
<1>0. /\ x.name = n /\ x.window = window /\ x.dedup = r.dedup
      /\ x.process = r.process /\ x.job = r.job /\ x.pos = r.pos
  BY DEF EntryOf
<1>1. LogTyped /\ Grows
  BY StoredGrows DEF PublishInv, LogInv
<1>2. CASE log' = log
  BY <1>2, <1>1, LogRests DEF LogTyped
<1> HIDE DEF x
<1>3. CASE log' = Append(log, x) /\ (r.dedup = Blank \/ ~Known(n, r.dedup))
  <2> DEFINE last == Len(log) + 1
  <2>1. /\ Len(log) \in Nat /\ DOMAIN log = 1 .. Len(log) /\ DOMAIN log' = 1 .. last
        /\ log'[last] = x /\ \A e \in 1 .. Len(log) : log'[e] = log[e]
    BY <1>1, <1>3 DEF LogTyped
  <2>2. LogTyped'
    BY <1>1, GrownLog DEF LogTyped
  <2>3. IdsCarried'
    <3> SUFFICES ASSUME NEW e \in 1 .. last, NEW y \in LogEntry, y = log'[e]
                 PROVE  CarriesId(y)'
      BY <2>1 DEF IdsCarried
    <3>1. CarriesId(y)' <=> CarriesId(y)
      BY DEF CarriesId, Jobs
    <3>2. CASE e = last
      BY <3>1, <3>2, <1>0, <2>1 DEF GoodRequest, CarriesId
    <3>3. CASE e \in 1 .. Len(log)
      BY <3>1, <3>3, <2>1 DEF PublishInv, LogInv, IdsCarried
    <3> QED
      BY <2>1, <3>2, <3>3
  <2>4. r.dedup # Blank => \A e \in 1 .. Len(log) :
          log[e].name = n /\ log[e].window = window => log[e].dedup # r.dedup
    BY <1>3, <2>1 DEF Known
  <2>5. OncePerWindow'
    <3> SUFFICES ASSUME NEW d \in 1 .. last, NEW e \in 1 .. last, d # e,
                        log'[d].name = log'[e].name, log'[d].window = log'[e].window,
                        log'[d].dedup # Blank
                 PROVE  log'[d].dedup # log'[e].dedup
      BY <2>1 DEF OncePerWindow
    <3>1. CASE d \in 1 .. Len(log) /\ e \in 1 .. Len(log)
      BY <3>1, <2>1 DEF PublishInv, LogInv, OncePerWindow
    <3>2. CASE d = last /\ e \in 1 .. Len(log)
      BY <3>2, <1>0, <2>1, <2>4
    <3>3. CASE d \in 1 .. Len(log) /\ e = last
      BY <3>3, <1>0, <2>1, <2>4
    <3> QED
      BY <2>1, <3>1, <3>2, <3>3
  <2>6. InOrder'
    <3> SUFFICES ASSUME NEW e \in 1 .. last, NEW y \in LogEntry, y = log'[e],
                        y.process \in deployment.jetStream, NEW k \in 1 .. (y.pos - 1)
                 PROVE  StoredBy(y.process, y.job, k, e)'
      BY <2>1 DEF InOrder, Preceded
    <3>1. CASE e = last
      <4>1. StoredBy(r.process, r.job, k, Len(log))
        BY <3>1, <1>0, <2>1 DEF GoodRequest, StoredBefore
      <4>2. PICK l \in 0 .. Len(log) : l = Len(log)
        <5>1. Len(log) \in 0 .. Len(log)
          BY <2>1
        <5> QED
          BY <5>1, Zenon
      <4>3. StoredBy(r.process, r.job, k, l)'
        BY <4>1, <4>2, <1>1, StoredStays
      <4>4. y.process = r.process /\ y.job = r.job /\ 1 .. l \subseteq 1 .. e
        BY <3>1, <4>2, <1>0, <2>1
      <4> HIDE DEF last
      <4>5. StoredBy(r.process, r.job, k, e)'
        BY <4>3, <4>4, StoredFurther
      <4> QED
        BY <4>4, <4>5
    <3>2. CASE e \in 1 .. Len(log)
      <4>1. StoredBy(y.process, y.job, k, e)
        BY <3>2, <2>1 DEF PublishInv, LogInv, InOrder, Preceded
      <4> QED
        BY <4>1, <3>2, <1>1, StoredStays
    <3> QED
      BY <2>1, <3>1, <3>2
  <2> QED
    BY <2>2, <2>3, <2>5, <2>6 DEF LogInv
<1> QED
  BY <1>2, <1>3, StoredOrKnown DEF x

-----------------------------------------------------------------------------
(* The steps that publish nothing *)

LEMMA ServerHolds ==
    ASSUME PublishInv, WindowPasses \/ \E n \in Name : TuneStream(n)
    PROVE  PublishInv'
<1>1. /\ UNCHANGED <<deployment, log, flight, pc, at, callerVars>>
      /\ window' \in {window, window + 1}
  BY DEF WindowPasses, TuneStream
<1>2. window' \in Nat /\ CallTyped'
  BY <1>1 DEF PublishInv, LogInv, LogTyped, CallInv, CallTyped, callerVars
<1> QED
  BY <1>1, <1>2, Rests DEF callerVars

LEMMA SetUpHolds ==
    ASSUME PublishInv, NEW p \in Process, SetUp(p)
    PROVE  PublishInv'
<1> DEFINE quiet ==
             /\ UNCHANGED <<deployment, log, window, flight, callerVars>>
             /\ \E label \in Labels \ {"publishing"} : Goto(p, label)
             /\ at' = at \/ \E n \in {1, at[p], at[p] + 1} : at' = [at EXCEPT ![p] = n]
<1>1. quiet
  <2>1. CASE Start(p)
    BY <2>1 DEF Start, Labels, serverVars
  <2>2. CASE RejectStream(p) \/ Started(p) \/ Crash(p)
    BY <2>2 DEF RejectStream, Started, Crash, Labels, serverVars
  <2>3. CASE ReadStream(p)
    BY <2>3 DEF ReadStream, Labels, serverVars, PublishInv, CallInv, CallTyped
  <2>4. ASSUME NEW heard \in BOOLEAN, AddStream(p, heard) PROVE quiet
    BY <2>4 DEF AddStream, Answered, Labels
  <2>5. ASSUME NEW heard \in BOOLEAN, UpdateStream(p, heard) PROVE quiet
    BY <2>5 DEF UpdateStream, Answered, Labels
  <2>6. \/ Start(p) \/ RejectStream(p) \/ Started(p) \/ Crash(p) \/ ReadStream(p)
        \/ \E heard \in BOOLEAN : AddStream(p, heard) \/ UpdateStream(p, heard)
    BY DEF SetUp
  <2> HIDE DEF quiet
  <2> QED
    BY <2>1, <2>2, <2>3, <2>4, <2>5, <2>6
<1>2. at' \in [Process -> Nat \ {0}] /\ \A q \in Process \ {p} : at'[q] = at[q]
  BY <1>1 DEF PublishInv, CallInv, CallTyped
<1>3. /\ pc' \in [Process -> Labels] /\ pc'[p] # "publishing"
      /\ \A q \in Process \ {p} : pc'[q] = pc[q]
  BY <1>1 DEF Goto, PublishInv, CallInv, CallTyped
<1>4. CallTyped' /\ window' \in Nat
  BY <1>1, <1>2, <1>3 DEF PublishInv, LogInv, LogTyped, CallInv, CallTyped, callerVars
<1> QED
  BY <1>1, <1>2, <1>3, <1>4, Rests DEF callerVars

\* A call that ends, or a caller that gives up.
LEMMA CallEndsHolds ==
    ASSUME PublishInv, NEW p \in Process, FailCall(p) \/ GiveUp(p) \/ CancelContext(p)
    PROVE  PublishInv'
<1>1. /\ UNCHANGED <<deployment, log, window, flight, at, accepted>>
      /\ \/ pc' = pc /\ job' = job
         \/ pc' = [pc EXCEPT ![p] = "up"] /\ job' = job
         \/ pc' = pc /\ pc[p] = "up" /\ job' = [job EXCEPT ![p] = job[p] + 1]
  BY DEF FailCall, GiveUp, CancelContext, NextJob, Goto, serverVars, callerVars
<1>2. CallTyped' /\ window' \in Nat
  <2>1. pc' \in [Process -> Labels]
    BY <1>1 DEF PublishInv, CallInv, CallTyped, Labels
  <2>2. job' \in [Process -> Nat \ {0}]
    BY <1>1 DEF PublishInv, CallInv, CallTyped
  <2> QED
    BY <1>1, <2>1, <2>2 DEF PublishInv, LogInv, LogTyped, CallInv, CallTyped
<1>3. \A q \in Process : pc'[q] = "publishing" => pc[q] = "publishing" /\ job'[q] = job[q]
  BY <1>1 DEF PublishInv, CallInv, CallTyped
<1> QED
  BY <1>1, <1>2, <1>3, Rests

\* A call starts with the first message: nothing has to be stored before it.
LEMMA PublishHolds ==
    ASSUME PublishInv, NEW p \in Process, NEW c, Publish(p, c)
    PROVE  PublishInv'
<1>1. /\ UNCHANGED <<deployment, log, window, flight, job, accepted>>
      /\ job[p] <= Len(Jobs(p)) /\ pc[p] = "up"
      /\ \/ UNCHANGED <<pc, at>>
         \/ /\ pc' = [pc EXCEPT ![p] = "publishing"]
            /\ at' = [at EXCEPT ![p] = 1]
  BY DEF Publish, Goto, serverVars
<1>2. CallTyped' /\ window' \in Nat
  <2>1. pc' \in [Process -> Labels]
    BY <1>1 DEF PublishInv, CallInv, CallTyped, Labels
  <2>2. at' \in [Process -> Nat \ {0}]
    BY <1>1 DEF PublishInv, CallInv, CallTyped
  <2> QED
    BY <1>1, <2>1, <2>2 DEF PublishInv, LogInv, LogTyped, CallInv, CallTyped
<1>3. CASE UNCHANGED <<pc, at>>
  BY <1>1, <1>2, <1>3, Rests
<1>4. CASE pc' = [pc EXCEPT ![p] = "publishing"] /\ at' = [at EXCEPT ![p] = 1]
  <2>1. Grows
    BY <1>1 DEF Grows
  <2>2. LogInv' /\ FlightInv' /\ AcceptedIsStored' /\ DeploymentOK'
    BY <1>1, <1>2, <2>1, LogRests, FlightStays, AcceptedStays DEF PublishInv, DeploymentOK
  <2>3. ASSUME NEW q \in Process, NEW j \in Nat, NEW k \in Nat,
               pc'[q] = "publishing", job'[q] = j, at'[q] = k
        PROVE  j \in DOMAIN Jobs(q)' /\ (UsesJetStream(q)' => StoredBefore(q, j, k)')
    <3>1. Jobs(q)' = Jobs(q) /\ UsesJetStream(q)' = UsesJetStream(q)
      BY <1>1 DEF Jobs, UsesJetStream
    <3>2. CASE q = p
      <4>1. k = 1 /\ j = job[p] /\ j # 0
        BY <3>2, <2>3, <1>1, <1>4 DEF PublishInv, CallInv, CallTyped
      <4>2. Jobs(p) \in Seq(Job)
        BY DEF PublishInv, DeploymentOK, DeploymentType, Jobs
      <4>3. StoredBefore(q, j, 1)'
        BY DEF StoredBefore
      <4> QED
        BY <3>1, <3>2, <4>1, <4>2, <4>3, <1>1
    <3>3. CASE q # p
      <4>1. pc[q] = "publishing" /\ job[q] = j /\ at[q] = k
        BY <3>3, <2>3, <1>1, <1>4 DEF PublishInv, CallInv, CallTyped
      <4>2. j \in DOMAIN Jobs(q) /\ (UsesJetStream(q) => StoredBefore(q, j, k))
        BY <4>1 DEF PublishInv, CallInv
      <4> QED
        BY <3>1, <4>2, <2>1, StoredBeforeStays DEF PublishInv, LogInv
    <3> QED
      BY <3>2, <3>3
  <2>4. CallInv'
    BY <1>2, <2>3 DEF CallInv
  <2> QED
    BY <2>2, <2>4 DEF PublishInv
<1> QED
  BY <1>1, <1>3, <1>4

-----------------------------------------------------------------------------
(* The steps that publish *)

\* A request that arrives late stores its message behind those before it.
LEMMA ArriveHolds ==
    ASSUME PublishInv, NEW r \in flight, Arrive(r)
    PROVE  PublishInv'
<1>1. /\ UNCHANGED <<deployment, window, pc, at, callerVars>> /\ flight' = flight \ {r}
      /\ log' = log \/ \E n \in BoundTo(r.topic) : log' = Stored(r, n)
  BY DEF Arrive
<1>2. CallTyped' /\ window' \in Nat
  BY <1>1 DEF PublishInv, LogInv, LogTyped, CallInv, CallTyped, callerVars
<1>3. CASE log' = log
  BY <1>1, <1>2, <1>3, Rests DEF callerVars
<1>4. ASSUME NEW n \in Name, log' = Stored(r, n) PROVE PublishInv'
  <2>1. GoodRequest(r)
    BY DEF PublishInv, FlightInv
  <2>2. Grows
    BY <1>1, <1>4, <2>1, StoredGrows DEF PublishInv, LogInv
  <2>3. LogInv'
    BY <1>1, <1>4, <2>1, StoredKeepsLog
  <2>4. FlightInv' /\ AcceptedIsStored' /\ CallInv'
    BY <1>1, <1>2, <2>2, FlightStays, AcceptedStays, CallsRest DEF callerVars
  <2> QED
    BY <1>1, <2>3, <2>4 DEF PublishInv, DeploymentOK
<1> QED
  BY <1>1, <1>3, <1>4 DEF BoundTo

\* The request of a call is good, given that it has come to its message in order.
LEMMA RequestIsGood ==
    ASSUME PublishInv, NEW p \in Process, Sendable(p), NEW r, r = PublishRequest(p)
    PROVE  GoodRequest(r) /\ r.process = p /\ r.job = job[p] /\ r.pos = at[p]
<1>1. PICK j \in Nat, k \in Nat : j = job[p] /\ k = at[p] /\ k # 0
  BY DEF PublishInv, CallInv, CallTyped
<1>2. j \in DOMAIN Jobs(p) /\ (UsesJetStream(p) => StoredBefore(p, j, k))
  BY <1>1 DEF PublishInv, CallInv, Sendable, HasNext
<1>3. Jobs(p)[j] \in Job
  BY <1>2 DEF PublishInv, DeploymentOK, DeploymentType, Jobs
<1>4. Jobs(p)[j].batch[k] \in Message
  <2>1. Jobs(p)[j].batch \in Seq(Message \cup {Unsendable})
    BY <1>3 DEF Job
  <2>2. k \in 1 .. Len(Jobs(p)[j].batch) /\ Jobs(p)[j].batch[k] # Unsendable
    BY <1>1, <2>1 DEF Sendable, HasNext, Batch
  <2> QED
    BY <2>1, <2>2
<1>5. /\ r.process = p /\ r.job = j /\ r.pos = k /\ r.dedup = Header(p)
  BY <1>1 DEF PublishRequest
<1>6. Header(p) = IF UsesJetStream(p) THEN Jobs(p)[j].batch[k].id ELSE Blank
  BY <1>1 DEF Header, Batch
<1>7. Jobs(p)[j].batch[k] # Unsendable /\ Jobs(p)[j].batch[k].id \in Id \cup {Blank}
  BY <1>1, <1>4 DEF Message, Sendable, Batch
<1>8. CarriesId(r)
  BY <1>5, <1>6 DEF CarriesId, UsesJetStream
<1> QED
  BY <1>1, <1>2, <1>5, <1>6, <1>7, <1>8 DEF GoodRequest, UsesJetStream

\* A call goes on to the next message when this one is stored.
LEMMA CallGoesOn ==
    ASSUME PublishInv, Grows, NEW p \in Process, Sendable(p),
           at' = [at EXCEPT ![p] = at[p] + 1], UNCHANGED <<pc, job, accepted>>,
           UsesJetStream(p) =>
             \A j, k \in Nat : j = job[p] /\ k = at[p] => StoredBy(p, j, k, Len(log))'
    PROVE  CallInv'
<1>1. CallTyped'
  BY DEF PublishInv, CallInv, CallTyped
<1>2. ASSUME NEW q \in Process, NEW j \in Nat, NEW k \in Nat,
             pc'[q] = "publishing", job'[q] = j, at'[q] = k
      PROVE  j \in DOMAIN Jobs(q)' /\ (UsesJetStream(q)' => StoredBefore(q, j, k)')
  <2>1. Jobs(q)' = Jobs(q) /\ UsesJetStream(q)' = UsesJetStream(q)
    BY DEF Grows, Jobs, UsesJetStream
  <2>2. PICK l \in Nat : l = at[q]
    BY DEF PublishInv, CallInv, CallTyped
  <2>3. j \in DOMAIN Jobs(q) /\ (UsesJetStream(q) => StoredBefore(q, j, l))
    BY <1>2, <2>2 DEF PublishInv, CallInv
  <2>4. UsesJetStream(q) => StoredBefore(q, j, l)'
    BY <2>3, StoredBeforeStays DEF PublishInv, LogInv
  <2>5. CASE q # p
    <3>1. k = l
      BY <2>2, <2>5, <1>2 DEF PublishInv, CallInv, CallTyped
    <3> QED
      BY <2>1, <2>3, <2>4, <3>1
  <2>6. CASE q = p
    <3>1. k = l + 1
      BY <2>2, <2>6, <1>2 DEF PublishInv, CallInv, CallTyped
    <3>2. UsesJetStream(q) => StoredBy(q, j, l, Len(log))'
      BY <2>2, <2>6, <1>2
    <3>3. UsesJetStream(q) => StoredBefore(q, j, k)'
      BY <2>4, <3>1, <3>2 DEF StoredBefore
    <3> QED
      BY <2>1, <2>3, <3>3
  <2> QED
    BY <2>5, <2>6
<1> QED
  BY <1>1, <1>2 DEF CallInv

LEMMA PublishMsgHolds ==
    ASSUME PublishInv, NEW p \in Process, PublishMsg(p)
    PROVE  PublishInv'
<1>1. /\ UNCHANGED <<deployment, window, flight, callerVars>> /\ Sendable(p)
      /\ UsesJetStream(p)
  BY DEF PublishMsg
<1>2. window' \in Nat
  BY <1>1 DEF PublishInv, LogInv, LogTyped
<1>3. CASE Goto(p, "up") /\ UNCHANGED <<log, at>>
  <2>1. /\ pc' \in [Process -> Labels] /\ pc'[p] = "up"
        /\ \A q \in Process \ {p} : pc'[q] = pc[q]
    BY <1>3 DEF Goto, PublishInv, CallInv, CallTyped, Labels
  <2>2. CallTyped'
    BY <1>1, <1>3, <2>1 DEF PublishInv, CallInv, CallTyped, callerVars
  <2> QED
    BY <1>1, <1>2, <1>3, <2>1, <2>2, Rests DEF callerVars
<1>4. ASSUME NEW n \in Name, NEW r, r = PublishRequest(p), log' = Stored(r, n),
             at' = [at EXCEPT ![p] = at[p] + 1], UNCHANGED pc
      PROVE  PublishInv'
  <2>1. GoodRequest(r) /\ r.process = p /\ r.job = job[p] /\ r.pos = at[p]
    BY <1>1, <1>4, RequestIsGood
  <2>2. Grows
    BY <1>1, <1>4, <2>1, StoredGrows DEF PublishInv, LogInv
  <2>3. LogInv'
    BY <1>1, <1>4, <2>1, StoredKeepsLog
  <2>4. StoredBy(r.process, r.job, r.pos, Len(log))'
    BY <1>1, <1>4, <2>1, StoredIsStored DEF UsesJetStream
  <2>5. CallInv'
    <3>1. \A j, k \in Nat : j = job[p] /\ k = at[p] => StoredBy(p, j, k, Len(log))'
      BY <2>1, <2>4
    <3>2. UNCHANGED <<pc, job, accepted>>
      BY <1>1, <1>4 DEF callerVars
    <3> QED
      BY <1>1, <1>4, <2>2, <3>1, <3>2, CallGoesOn
  <2>6. FlightInv' /\ AcceptedIsStored'
    BY <1>1, <2>2, FlightStays, AcceptedStays DEF callerVars
  <2> QED
    BY <1>1, <2>3, <2>5, <2>6 DEF PublishInv, DeploymentOK
<1> QED
  BY <1>3, <1>4 DEF PublishMsg, BoundTo

\* A request that is not answered, or that Core NATS does not answer, is on its way.
LEMMA NoAnswerHolds ==
    ASSUME PublishInv, NEW p \in Process, PublishTimesOut(p) \/ PublishCore(p)
    PROVE  PublishInv'
<1>1. /\ UNCHANGED <<deployment, log, window, callerVars>> /\ Sendable(p)
      /\ flight' = flight \/ flight' = flight \cup {PublishRequest(p)}
      /\ \/ Goto(p, "up") /\ UNCHANGED at
         \/ /\ UNCHANGED pc /\ at' = [at EXCEPT ![p] = at[p] + 1]
            /\ ~UsesJetStream(p)
  BY DEF PublishTimesOut, PublishCore
<1>2. \A r \in flight' : r \in flight \/ GoodRequest(r)
  BY <1>1, RequestIsGood
<1>3. window' \in Nat
  BY <1>1 DEF PublishInv, LogInv, LogTyped
<1>4. CASE Goto(p, "up") /\ UNCHANGED at
  <2>1. /\ pc' \in [Process -> Labels] /\ pc'[p] = "up"
        /\ \A q \in Process \ {p} : pc'[q] = pc[q]
    BY <1>4 DEF Goto, PublishInv, CallInv, CallTyped, Labels
  <2>2. CallTyped'
    BY <1>1, <1>4, <2>1 DEF PublishInv, CallInv, CallTyped, callerVars
  <2> QED
    BY <1>1, <1>2, <1>3, <1>4, <2>1, <2>2, Rests DEF callerVars
<1>5. CASE UNCHANGED pc /\ at' = [at EXCEPT ![p] = at[p] + 1] /\ ~UsesJetStream(p)
  <2>1. Grows
    BY <1>1 DEF Grows
  <2>2. LogInv' /\ AcceptedIsStored'
    BY <1>1, <1>3, <2>1, LogRests, AcceptedStays DEF callerVars
  <2>3. FlightInv'
    BY <1>2, <2>1, FlightStays
  <2>4. CallInv'
    BY <1>1, <1>5, <2>1, CallGoesOn DEF callerVars
  <2> QED
    BY <1>1, <2>2, <2>3, <2>4 DEF PublishInv, DeploymentOK
<1> QED
  BY <1>1, <1>4, <1>5

\* When a call returns nil it has come to the end of its batch.
LEMMA AcceptCallHolds ==
    ASSUME PublishInv, NEW p \in Process, AcceptCall(p)
    PROVE  PublishInv'
<1>1. /\ UNCHANGED <<deployment, log, window, flight, at>>
      /\ pc[p] = "publishing" /\ pc' = [pc EXCEPT ![p] = "up"]
      /\ job' = [job EXCEPT ![p] = job[p] + 1]
      /\ accepted' = [accepted EXCEPT ![p] = accepted[p] \cup {job[p]}]
      /\ at[p] > Len(Batch(p))
  BY DEF AcceptCall, NextJob, Goto, serverVars
<1>2. Grows
  BY <1>1 DEF Grows
<1>3. window' \in Nat /\ LogInv' /\ FlightInv'
  BY <1>1, <1>2, LogRests, FlightStays DEF PublishInv, LogInv, LogTyped
<1>4. CallTyped'
  <2>1. pc' \in [Process -> Labels]
    BY <1>1 DEF PublishInv, CallInv, CallTyped, Labels
  <2>2. job' \in [Process -> Nat \ {0}] /\ accepted' \in [Process -> SUBSET Nat]
    BY <1>1 DEF PublishInv, CallInv, CallTyped
  <2> QED
    BY <1>1, <2>1, <2>2 DEF PublishInv, CallInv, CallTyped
<1>5. CallInv'
  <2>1. \A q \in Process : pc'[q] = "publishing" => pc[q] = "publishing" /\ job'[q] = job[q]
    BY <1>1 DEF PublishInv, CallInv, CallTyped
  <2> QED
    BY <1>1, <1>2, <1>4, <2>1, CallsRest
<1>6. ASSUME NEW q \in deployment.jetStream, NEW j \in accepted'[q],
             NEW k \in DOMAIN Jobs(q)[j].batch
      PROVE  StoredBy(q, j, k, Len(log))
  <2>1. q \in Process
    BY DEF PublishInv, DeploymentOK, DeploymentType
  <2>2. CASE j \in accepted[q]
    BY <2>2 DEF PublishInv, AcceptedIsStored
  <2>3. CASE q = p /\ j = job[p]
    <3>1. PICK l \in Nat : l = at[p] /\ j \in Nat
      BY <2>3 DEF PublishInv, CallInv, CallTyped
    <3>2. j \in DOMAIN Jobs(p) /\ StoredBefore(p, j, l)
      BY <1>1, <2>3, <3>1 DEF PublishInv, CallInv, UsesJetStream
    <3>3. Jobs(p)[j] \in Job
      BY <3>2 DEF PublishInv, DeploymentOK, DeploymentType, Jobs
    <3>4. Jobs(p)[j].batch \in Seq(Message \cup {Unsendable})
      BY <3>3 DEF Job
    <3>5. k \in 1 .. (l - 1)
      BY <1>1, <2>3, <3>1, <3>4, SMTT(30) DEF Batch
    <3> QED
      BY <2>3, <3>2, <3>5 DEF StoredBefore
  <2> QED
    BY <1>1, <2>1, <2>2, <2>3 DEF PublishInv, CallInv, CallTyped
<1>7. AcceptedIsStored'
  BY <1>1, <1>6 DEF AcceptedIsStored, StoredBy, Jobs
<1> QED
  BY <1>1, <1>3, <1>5, <1>7 DEF PublishInv, DeploymentOK

-----------------------------------------------------------------------------
(* The theorems *)

LEMMA PublishInvStep == PublishInv /\ [Next]_vars => PublishInv'
<1> SUFFICES ASSUME PublishInv, [Next]_vars PROVE PublishInv'
  OBVIOUS
<1>1. CASE WindowPasses \/ \E n \in Name : TuneStream(n)
  BY <1>1, ServerHolds
<1>2. CASE \E r \in flight : Arrive(r)
  BY <1>2, ArriveHolds
<1>3. ASSUME NEW p \in Process, SetUp(p) PROVE PublishInv'
  BY <1>3, SetUpHolds
<1>4. ASSUME NEW p \in Process, Call(p) PROVE PublishInv'
  BY <1>4, PublishHolds, CallEndsHolds, PublishMsgHolds, NoAnswerHolds, AcceptCallHolds
     DEF Call
<1>5. CASE UNCHANGED vars
  <2>1. UNCHANGED <<deployment, log, window, flight, pc, at, job, accepted>>
    BY <1>5 DEF vars, serverVars, callerVars
  <2>2. CallTyped' /\ window' \in Nat
    BY <2>1 DEF PublishInv, LogInv, LogTyped, CallInv, CallTyped
  <2> QED
    BY <2>1, <2>2, Rests
<1> QED
  BY <1>1, <1>2, <1>3, <1>4, <1>5 DEF Next, Server

LEMMA PublishInvHolds == Spec => []PublishInv
BY InitHolds, PublishInvStep, PTL DEF Spec

\* No message is stored before those that precede it in its batch, although calls fail,
\* are repeated by their caller, and are answered late (client.go Publish, nats.go publish).
THEOREM BatchesStayInOrder == Spec => []StoredInOrder
<1>1. PublishInv => StoredInOrder
  BY DEF PublishInv, LogInv, LogTyped, InOrder, Preceded, StoredInOrder
<1> QED
  BY <1>1, PublishInvHolds, PTL

\* When Publish returns nil its messages are stored, or messages with their IDs (nats.go
\* natsQueue.Publish).
THEOREM AcceptedMeansStored == Spec => []AcceptedIsStored
<1>1. PublishInv => AcceptedIsStored
  BY DEF PublishInv
<1> QED
  BY <1>1, PublishInvHolds, PTL

\* Messages with an Id are stored once per stream and deduplication window: publish hands
\* the Id of every message to JetStream (nats.go publish).
THEOREM NoDuplicatesInWindow == Spec => []StoredOncePerWindow
<1>1. PublishInv => StoredOncePerWindow
  <2> SUFFICES ASSUME PublishInv, NEW d \in DOMAIN log, NEW e \in DOMAIN log,
                      d # e, log[d].name = log[e].name, log[d].window = log[e].window,
                      log[d].process \in deployment.jetStream,
                      log[e].process \in deployment.jetStream,
                      StoredId(d) # Blank
               PROVE  StoredId(d) # StoredId(e)
    BY DEF StoredOncePerWindow
  <2>1. log[d] \in LogEntry /\ log[e] \in LogEntry
    BY DEF PublishInv, LogInv, LogTyped
  <2>2. log[d].dedup = StoredId(d) /\ log[e].dedup = StoredId(e)
    BY <2>1 DEF PublishInv, LogInv, IdsCarried, CarriesId, StoredId
  <2> QED
    BY <2>2 DEF PublishInv, LogInv, OncePerWindow
<1> QED
  BY <1>1, PublishInvHolds, PTL

-----------------------------------------------------------------------------
(* The set-up of the streams *)

\* The subjects ensureStreams asks for are subjects, however many are blank.
LEMMA TrimmedType ==
    ASSUME NEW s \in Seq(Subject \cup {Blank})
    PROVE  Trimmed(s) \in Seq(Subject)
<1> DEFINE n == Len(s)
           next == [i \in 1 .. n |-> [q \in Seq(Subject) |->
                       IF s[i] = Blank THEN q ELSE Append(q, s[i])]]
           Kept(f) == [i \in 0 .. n |-> IF i = 0 THEN <<>>
                                        ELSE IF s[i] = Blank THEN f[i - 1]
                                        ELSE Append(f[i - 1], s[i])]
           kept == CHOOSE f : f = Kept(f)
<1>1. n \in Nat /\ <<>> \in Seq(Subject) /\ \A i \in 1 .. n : s[i] \in Subject \cup {Blank}
  OBVIOUS
<1>2. next \in [1 .. n -> [Seq(Subject) -> Seq(Subject)]]
  <2>1. \A i \in 1 .. n, q \in Seq(Subject) :
          (IF s[i] = Blank THEN q ELSE Append(q, s[i])) \in Seq(Subject)
    BY <1>1
  <2>2. QED
    BY <2>1
<1>3. \E f : f = Kept(f)
  <2> DEFINE S == Seq(Subject)
             first == <<>>
  <2> HIDE DEF next, n, S, first
  <2>1. Recursions(n, S, first, next) # {}
    <3>1. n \in Nat /\ first \in S /\ next \in [1 .. n -> [S -> S]]
      BY <1>1, <1>2 DEF S, first
    <3>2. QED
      BY <3>1, RecursionExists
  <2>5. PICK f \in [0 .. n -> Seq(Subject)] :
          f[0] = <<>> /\ \A i \in 1 .. n : f[i] = next[i][f[i - 1]]
    BY <2>1 DEF Recursions, S, first
  <2>2. ASSUME NEW i \in 1 .. n
        PROVE  f[i] = IF s[i] = Blank THEN f[i - 1] ELSE Append(f[i - 1], s[i])
    <3>1. f[i - 1] \in Seq(Subject) /\ f[i] = next[i][f[i - 1]]
      BY <1>1, <2>5
    <3>2. QED
      BY <3>1 DEF next
  <2>3. ASSUME NEW i \in 0 .. n PROVE f[i] = Kept(f)[i]
    <3>1. CASE i = 0
      BY <1>1, <2>5, <3>1
    <3>2. CASE i # 0
      <4>1. i \in 1 .. n
        BY <1>1, <3>2
      <4>2. QED
        BY <2>2, <3>2, <4>1
    <3>3. QED
      BY <3>1, <3>2
  <2>4. f = Kept(f)
    BY <2>3
  <2>6. QED
    BY <2>4
<1>4. kept = Kept(kept)
  BY <1>3
<1>5. Trimmed(s) = kept[n]
  BY DEF Trimmed
<1> HIDE DEF kept
<1>6. kept[0] = <<>>
  BY <1>1, <1>4
<1>7. ASSUME NEW i \in 0 .. n - 1, kept[i] \in Seq(Subject)
      PROVE  kept[i + 1] \in Seq(Subject)
  <2>1. i + 1 \in 0 .. n /\ i + 1 \in 1 .. n /\ i + 1 # 0 /\ (i + 1) - 1 = i
    BY <1>1
  <2>2. kept[i + 1] = IF s[i + 1] = Blank THEN kept[i] ELSE Append(kept[i], s[i + 1])
    BY <2>1, <1>4
  <2>3. QED
    BY <1>1, <1>7, <2>1, <2>2
<1> DEFINE P == {i \in 0 .. n : kept[i] \in Seq(Subject)}
<1>8. 0 \in P /\ \A i \in 0 .. n - 1 : i \in P => i + 1 \in P
  <2>1. \A i \in 0 .. n - 1 : i + 1 \in 0 .. n
    BY <1>1
  <2>2. 0 \in 0 .. n /\ kept[0] \in Seq(Subject)
    BY <1>1, <1>6
  <2>3. QED
    BY <2>1, <2>2, <1>7
<1> HIDE DEF P
<1>9. 0 .. n \subseteq P
  BY <1>1, <1>8, UpTo
<1>10. n \in P
  BY <1>1, <1>9
<1>11. QED
  BY <1>5, <1>10 DEF P

StreamConfig == [subjects : Seq(Subject), limits : Nat]

SetupTyped ==
    /\ stream \in [Name -> {Nil} \cup StreamConfig]
    /\ info \in [Process -> {Nil} \cup StreamConfig]

Bound(e) == stream[e.name] # Nil /\ stream[e.name].subjects = Trimmed(e.subjects)

\* The entry i of p was ensured: its stream binds what was asked for, as long as all the
\* others ask for the same.
Ensured(p, i) ==
    /\ Valid(Streams(p)[i])
    /\ Agreed(Streams(p)[i].name) => Bound(Streams(p)[i])

\* Where ensureStreams is, and what holds of the streams it has been through.
SetupOf(p) ==
    /\ pc[p] \in {"ensuring", "reading", "updating"} =>
         /\ UsesJetStream(p)
         /\ \A i \in DOMAIN Streams(p) : i < at[p] => Ensured(p, i)
    /\ pc[p] \in {"reading", "updating"} =>
         /\ at[p] \in DOMAIN Streams(p) /\ Valid(Entry(p))
         /\ stream[Entry(p).name] # Nil
    /\ pc[p] = "updating" => info[p] # Nil
    /\ pc[p] \in {"up", "publishing"} /\ UsesJetStream(p) =>
         \A i \in DOMAIN Streams(p) : Ensured(p, i)

SetupInv == DeploymentOK /\ CallTyped /\ SetupTyped /\ \A p \in Process : SetupOf(p)

LEMMA ValidEntry ==
    ASSUME DeploymentOK, NEW p \in Process, NEW i \in DOMAIN Streams(p), Valid(Streams(p)[i])
    PROVE  /\ Streams(p)[i].name \in Name
           /\ Trimmed(Streams(p)[i].subjects) \in Seq(Subject)
<1>1. Streams(p) \in Seq(StreamEntry)
  BY DEF DeploymentOK, DeploymentType, Streams
<1>2. Streams(p)[i] \in StreamEntry
  BY <1>1
<1>3. /\ Streams(p)[i].name \in Name
      /\ Streams(p)[i].subjects \in Seq(Subject \cup {Blank})
  BY <1>2 DEF StreamEntry, Valid
<1> QED
  BY <1>3, TrimmedType

\* What every step leaves of the streams: none goes away, and its subjects stay or
\* become those a process asks for.
StreamsKept ==
    \A n \in Name : stream[n] # Nil =>
      /\ stream'[n] # Nil
      /\ \/ stream'[n].subjects = stream[n].subjects
         \/ \E q \in deployment.jetStream : \E j \in DOMAIN Streams(q) :
              /\ Valid(Streams(q)[j]) /\ Streams(q)[j].name = n
              /\ stream'[n].subjects = Trimmed(Streams(q)[j].subjects)

LEMMA StreamUnchanged == UNCHANGED stream => StreamsKept
BY DEF StreamsKept

LEMMA EnsuredStays ==
    ASSUME DeploymentOK, deployment' = deployment, StreamsKept,
           NEW p \in Process, UsesJetStream(p), NEW i \in DOMAIN Streams(p), Ensured(p, i)
    PROVE  Ensured(p, i)'
<1> DEFINE e == Streams(p)[i]
<1>1. e' = e /\ \A n : Agreed(n)' = Agreed(n)
  BY DEF Streams, Agreed
<1>2. Valid(e) /\ Valid(e)'
  BY <1>1 DEF Ensured, Valid
<1>3. ASSUME Agreed(e.name) PROVE Bound(e)'
  <2>1. Bound(e) /\ e.name \in Name
    BY <1>2, <1>3, ValidEntry DEF Ensured
  <2>2. CASE stream'[e.name].subjects = stream[e.name].subjects
    BY <1>1, <2>1, <2>2 DEF Bound, StreamsKept
  <2>3. ASSUME NEW q \in deployment.jetStream, NEW j \in DOMAIN Streams(q),
               Valid(Streams(q)[j]), Streams(q)[j].name = e.name,
               stream'[e.name].subjects = Trimmed(Streams(q)[j].subjects)
        PROVE  Bound(e)'
    <3>1. Trimmed(e.subjects) = Trimmed(Streams(q)[j].subjects)
      BY <1>2, <1>3, <2>3 DEF Agreed, UsesJetStream
    <3>2. stream'[e.name] # Nil
      BY <2>1 DEF Bound, StreamsKept
    <3> QED
      BY <1>1, <2>3, <3>1, <3>2 DEF Bound
  <2> QED
    BY <2>1, <2>2, <2>3 DEF Bound, StreamsKept
<1> QED
  BY <1>1, <1>2, <1>3 DEF Ensured

LEMMA StaysWhereItIs ==
    ASSUME SetupInv, deployment' = deployment, StreamsKept,
           NEW q \in Process, pc'[q] = pc[q], at'[q] = at[q], info'[q] = info[q]
    PROVE  SetupOf(q)'
<1>1. SetupOf(q)
  BY DEF SetupInv
<1>2. /\ Streams(q)' = Streams(q) /\ UsesJetStream(q)' = UsesJetStream(q)
      /\ Entry(q)' = Entry(q) /\ Valid(Entry(q))' = Valid(Entry(q))
  BY DEF Streams, UsesJetStream, Entry, Valid
<1>3. \A i \in DOMAIN Streams(q) : UsesJetStream(q) /\ Ensured(q, i) => Ensured(q, i)'
  BY EnsuredStays DEF SetupInv
<1>4. pc[q] \in {"reading", "updating"} => stream'[Entry(q).name] # Nil
  <2>1. pc[q] \in {"reading", "updating"} => Entry(q).name \in Name
    BY <1>1, ValidEntry DEF SetupInv, SetupOf, Entry
  <2> QED
    BY <1>1, <2>1 DEF StreamsKept, SetupOf
<1> QED
  BY <1>1, <1>2, <1>3, <1>4 DEF SetupOf

\* A step in which p goes nowhere of the set-up, or stays up.
LEMMA UpStaysUp ==
    ASSUME SetupInv, deployment' = deployment, StreamsKept, NEW p \in Process,
           \/ pc'[p] = "down"
           \/ pc[p] \in {"up", "publishing"} /\ pc'[p] \in {"up", "publishing"}
    PROVE  SetupOf(p)'
<1>1. Streams(p)' = Streams(p) /\ UsesJetStream(p)' = UsesJetStream(p)
  BY DEF Streams, UsesJetStream
<1>2. \A i \in DOMAIN Streams(p) : UsesJetStream(p) /\ Ensured(p, i) => Ensured(p, i)'
  BY EnsuredStays DEF SetupInv
<1> QED
  BY <1>1, <1>2 DEF SetupOf, SetupInv

\* What the settings of a stream become.
StreamsTuned ==
    \A n \in Name : stream[n] # Nil /\ stream'[n].limits < stream[n].limits =>
      \E p \in Process : /\ pc[p] = "updating" /\ Entry(p).name = n
                         /\ info[p].limits < stream[n].limits

LEMMA SameSettings ==
    ASSUME SetupTyped,
           \A n \in Name : stream[n] = Nil \/ stream'[n] = stream[n]
    PROVE  StreamsTuned
BY DEF StreamsTuned, SetupTyped, StreamConfig

\* The steps of the server and of the callers: no process is in another place of its
\* set-up afterwards.
LEMMA TuneHolds ==
    ASSUME SetupInv, CallTyped', NEW n \in Name, TuneStream(n)
    PROVE  SetupInv' /\ StreamsTuned
<1> DEFINE new == [stream[n] EXCEPT !.limits = @ + 1]
<1>1. /\ stream[n] \in StreamConfig /\ stream' = [stream EXCEPT ![n] = new]
      /\ UNCHANGED <<deployment, pc, at, info>>
  BY DEF TuneStream, SetupInv, SetupTyped, setupVars
<1>2. new \in StreamConfig /\ new.subjects = stream[n].subjects /\ new.limits > stream[n].limits
  BY <1>1 DEF StreamConfig
<1> HIDE DEF new
<1>3. \A m \in Name : stream'[m] = IF m = n THEN new ELSE stream[m]
  BY <1>1 DEF SetupInv, SetupTyped
<1>4. SetupTyped'
  BY <1>1, <1>2 DEF SetupInv, SetupTyped
<1>5. StreamsKept
  <2>1. new # Nil
    BY <1>2, PublishingAssumption DEF StreamConfig
  <2> QED
    BY <1>2, <1>3, <2>1 DEF StreamsKept
<1>6. StreamsTuned
  <2>1. \A m \in Name : stream[m] # Nil => ~(stream'[m].limits < stream[m].limits)
    BY <1>1, <1>2, <1>3 DEF SetupInv, SetupTyped, StreamConfig
  <2> QED
    BY <2>1 DEF StreamsTuned
<1>7. SetupInv'
  BY <1>1, <1>4, <1>5, StaysWhereItIs DEF SetupInv, DeploymentOK
<1> QED
  BY <1>6, <1>7

LEMMA NobodySetsUp ==
    ASSUME SetupInv, CallTyped', UNCHANGED <<deployment, stream, info>>,
           \/ UNCHANGED <<pc, at>>
           \/ \E p \in Process :
                /\ pc[p] \in {"up", "publishing"} /\ pc'[p] \in {"up", "publishing"}
                /\ \A q \in Process \ {p} : pc'[q] = pc[q] /\ at'[q] = at[q]
    PROVE  SetupInv' /\ StreamsTuned
<1>1. StreamsKept /\ StreamsTuned
  BY StreamUnchanged, SameSettings DEF SetupInv
<1>2. SetupTyped' /\ DeploymentOK'
  BY DEF SetupInv, SetupTyped, DeploymentOK
<1>3. ASSUME NEW q \in Process PROVE SetupOf(q)'
  BY <1>1, StaysWhereItIs, UpStaysUp
<1> QED
  BY <1>1, <1>2, <1>3 DEF SetupInv

\* A step of p that changes neither a stream nor what p has read.
LEMMA SettlesHolds ==
    ASSUME SetupInv, CallTyped', UNCHANGED <<deployment, stream>>, SetupTyped',
           NEW p \in Process, SetupOf(p)',
           \A q \in Process \ {p} : pc'[q] = pc[q] /\ at'[q] = at[q] /\ info'[q] = info[q]
    PROVE  SetupInv' /\ StreamsTuned
<1>1. StreamsKept /\ StreamsTuned
  BY StreamUnchanged, SameSettings DEF SetupInv
<1>2. ASSUME NEW q \in Process PROVE SetupOf(q)'
  BY <1>1, StaysWhereItIs
<1> QED
  BY <1>1, <1>2 DEF SetupInv, DeploymentOK

LEMMA StartHolds ==
    ASSUME SetupInv, CallTyped', NEW p \in Process, Start(p) \/ RejectStream(p) \/ Crash(p)
    PROVE  SetupInv' /\ StreamsTuned
<1>1. UNCHANGED <<deployment, stream, info>>
  BY DEF Start, RejectStream, Crash, serverVars, setupVars
<1>2. SetupTyped'
  BY <1>1 DEF SetupInv, SetupTyped
<1>3. \A q \in Process \ {p} : pc'[q] = pc[q] /\ at'[q] = at[q]
  BY DEF Start, RejectStream, Crash, Goto, SetupInv, CallTyped
<1>4. SetupOf(p)'
  <2>1. CASE RejectStream(p) \/ Crash(p)
    <3>1. pc'[p] = "down"
      BY <2>1 DEF RejectStream, Crash, Goto, SetupInv, CallTyped
    <3> QED
      BY <1>1, <3>1, StreamUnchanged, UpStaysUp
  <2>2. CASE Start(p)
    <3>1. pc'[p] = (IF UsesJetStream(p) THEN "ensuring" ELSE "up") /\ at'[p] = 1
      BY <2>2 DEF Start, Goto, SetupInv, CallTyped
    <3>2. UsesJetStream(p)' = UsesJetStream(p) /\ Streams(p) \in Seq(StreamEntry)
          /\ Streams(p)' = Streams(p)
      BY <1>1 DEF UsesJetStream, Streams, SetupInv, DeploymentOK, DeploymentType
    <3> QED
      BY <3>1, <3>2 DEF SetupOf
  <2> QED
    BY <2>1, <2>2
<1> QED
  BY <1>1, <1>2, <1>3, <1>4, SettlesHolds

\* newNATSQueue returns when ensureStreams has been through its list.
LEMMA StartedHolds ==
    ASSUME SetupInv, CallTyped', NEW p \in Process, Started(p)
    PROVE  SetupInv' /\ StreamsTuned
<1>1. UNCHANGED <<deployment, stream, info, at>> /\ pc[p] = "ensuring"
  BY DEF Started, serverVars, setupVars
<1>2. SetupTyped' /\ StreamsKept
  BY <1>1, StreamUnchanged DEF SetupInv, SetupTyped
<1>3. pc'[p] = "up" /\ \A q \in Process \ {p} : pc'[q] = pc[q]
  BY DEF Started, Goto, SetupInv, CallTyped
<1>4. \A i \in DOMAIN Streams(p) : i < at[p]
  <2>1. Streams(p) \in Seq(StreamEntry) /\ at[p] \in Nat
    BY DEF Streams, SetupInv, DeploymentOK, DeploymentType, CallTyped
  <2> QED
    BY <2>1 DEF Started
<1>5. SetupOf(p)'
  <2>1. UsesJetStream(p) /\ \A i \in DOMAIN Streams(p) : Ensured(p, i)
    BY <1>1, <1>4 DEF SetupInv, SetupOf
  <2>2. \A i \in DOMAIN Streams(p) : Ensured(p, i)'
    BY <1>1, <1>2, <2>1, EnsuredStays DEF SetupInv
  <2>3. Streams(p)' = Streams(p)
    BY <1>1 DEF Streams
  <2> QED
    BY <1>3, <2>2, <2>3 DEF SetupOf
<1> QED
  BY <1>1, <1>2, <1>3, <1>5, SettlesHolds

\* The stream of the entry binds what p wants: p goes on to the next one.
LEMMA NextEntry ==
    ASSUME SetupInv, deployment' = deployment, StreamsKept, NEW p \in Process,
           pc[p] \in {"ensuring", "reading", "updating"},
           at[p] \in DOMAIN Streams(p), Valid(Entry(p)),
           pc'[p] = "ensuring", at'[p] = at[p] + 1,
           stream'[Entry(p).name] # Nil, stream'[Entry(p).name].subjects = Wanted(p)
    PROVE  SetupOf(p)'
<1>1. /\ Streams(p)' = Streams(p) /\ UsesJetStream(p)' = UsesJetStream(p)
      /\ UsesJetStream(p) /\ at[p] \in Nat /\ Streams(p) \in Seq(StreamEntry)
  BY DEF Streams, UsesJetStream, SetupInv, SetupOf, CallTyped, DeploymentOK, DeploymentType
<1>2. ASSUME NEW i \in DOMAIN Streams(p), i < at[p] + 1 PROVE Ensured(p, i)'
  <2>1. CASE i = at[p]
    <3>1. Valid(Streams(p)[i]) /\ Valid(Streams(p)[i])' = Valid(Streams(p)[i])
      BY <2>1, <1>1 DEF Entry, Valid
    <3>2. Bound(Streams(p)[i])'
      BY <2>1, <1>1 DEF Bound, Entry, Wanted
    <3> QED
      BY <3>1, <3>2 DEF Ensured
  <2>2. CASE i # at[p]
    <3>1. i < at[p]
      BY <1>1, <1>2, <2>2
    <3>2. Ensured(p, i)
      BY <3>1 DEF SetupInv, SetupOf
    <3> QED
      BY <1>1, <3>2, EnsuredStays DEF SetupInv
  <2> QED
    BY <2>1, <2>2
<1> QED
  BY <1>1, <1>2 DEF SetupOf

LEMMA ReadStreamHolds ==
    ASSUME SetupInv, CallTyped', NEW p \in Process, ReadStream(p)
    PROVE  SetupInv' /\ StreamsTuned
<1> DEFINE n == Entry(p).name
<1>1. /\ UNCHANGED <<deployment, stream>> /\ pc[p] = "reading"
      /\ info' = [info EXCEPT ![p] = stream[n]]
  BY DEF ReadStream, serverVars
<1>2. /\ at[p] \in DOMAIN Streams(p) /\ Valid(Entry(p)) /\ stream[n] # Nil /\ n \in Name
      /\ at[p] \in Nat
  BY <1>1, ValidEntry DEF SetupInv, SetupOf, CallTyped, Entry
<1>3. SetupTyped' /\ StreamsKept /\ info'[p] = stream[n]
  BY <1>1, <1>2, StreamUnchanged DEF SetupInv, SetupTyped
<1>4. \A q \in Process \ {p} : pc'[q] = pc[q] /\ at'[q] = at[q] /\ info'[q] = info[q]
  BY <1>1 DEF ReadStream, Goto, SetupInv, SetupTyped, CallTyped
<1>5. SetupOf(p)'
  <2>1. CASE stream[n].subjects = Wanted(p)
    <3>1. pc'[p] = "ensuring" /\ at'[p] = at[p] + 1
      BY <2>1 DEF ReadStream, Goto, SetupInv, CallTyped
    <3> QED
      BY <1>1, <1>2, <1>3, <2>1, <3>1, NextEntry
  <2>2. CASE stream[n].subjects # Wanted(p)
    <3>1. pc'[p] = "updating" /\ at' = at
      BY <2>2 DEF ReadStream, Goto, SetupInv, CallTyped
    <3>2. /\ Streams(p)' = Streams(p) /\ UsesJetStream(p)' = UsesJetStream(p)
          /\ Entry(p)' = Entry(p) /\ Valid(Entry(p))' = Valid(Entry(p))
      BY <1>1, <3>1 DEF Streams, UsesJetStream, Entry, Valid
    <3>3. \A i \in DOMAIN Streams(p) : UsesJetStream(p) /\ Ensured(p, i) => Ensured(p, i)'
      BY <1>1, <1>3, EnsuredStays DEF SetupInv
    <3> QED
      BY <1>1, <1>2, <1>3, <3>1, <3>2, <3>3 DEF SetupInv, SetupOf
  <2> QED
    BY <2>1, <2>2
<1> QED
  BY <1>1, <1>3, <1>4, <1>5, SettlesHolds

\* A request that may write the stream of the entry: it is new, or p has read it.
LEMMA RequestHolds ==
    ASSUME SetupInv, CallTyped', UNCHANGED <<deployment, info>>, NEW p \in Process,
           pc[p] \in {"ensuring", "updating"}, at[p] \in DOMAIN Streams(p), Valid(Entry(p)),
           NEW new \in StreamConfig, new.subjects = Wanted(p),
           \/ UNCHANGED stream
           \/ /\ stream' = [stream EXCEPT ![Entry(p).name] = new]
              /\ stream[Entry(p).name] = Nil \/ (pc[p] = "updating" /\ new.limits = info[p].limits),
           \/ pc'[p] = "down"
           \/ /\ pc'[p] = "ensuring" /\ at'[p] = at[p] + 1
              /\ stream'[Entry(p).name] \in StreamConfig
              /\ stream'[Entry(p).name].subjects = Wanted(p)
           \/ pc'[p] = "reading" /\ at'[p] = at[p] /\ UNCHANGED stream /\ stream[Entry(p).name] # Nil,
           \A q \in Process \ {p} : pc'[q] = pc[q] /\ at'[q] = at[q]
    PROVE  SetupInv' /\ StreamsTuned
<1> DEFINE n == Entry(p).name
<1>1. /\ n \in Name /\ new # Nil /\ UsesJetStream(p) /\ at[p] \in Nat
      /\ Wanted(p) = Trimmed(Streams(p)[at[p]].subjects) /\ Nil \notin StreamConfig
  BY ValidEntry, PublishingAssumption
  DEF SetupInv, SetupOf, CallTyped, Entry, Wanted, StreamConfig
<1>2. \A m \in Name \ {n} : stream'[m] = stream[m]
  BY <1>1 DEF SetupInv, SetupTyped
<1>3. UNCHANGED stream \/ stream'[n] = new
  BY <1>1 DEF SetupInv, SetupTyped
<1>4. SetupTyped'
  BY <1>1 DEF SetupInv, SetupTyped
<1>5. StreamsKept
  <2>1. ASSUME NEW m \in Name, stream[m] # Nil
        PROVE  /\ stream'[m] # Nil
               /\ \/ stream'[m].subjects = stream[m].subjects
                  \/ \E q \in deployment.jetStream : \E j \in DOMAIN Streams(q) :
                       /\ Valid(Streams(q)[j]) /\ Streams(q)[j].name = m
                       /\ stream'[m].subjects = Trimmed(Streams(q)[j].subjects)
    <3>1. CASE stream'[m] = stream[m]
      BY <2>1, <3>1
    <3>2. CASE m = n /\ stream'[n] = new
      <4>1. /\ Valid(Streams(p)[at[p]]) /\ Streams(p)[at[p]].name = m
            /\ stream'[m].subjects = Trimmed(Streams(p)[at[p]].subjects)
        BY <1>1, <3>2 DEF Entry
      <4>2. p \in deployment.jetStream
        BY <1>1 DEF UsesJetStream
      <4> QED
        BY <1>1, <3>2, <4>1, <4>2
    <3> QED
      BY <1>2, <1>3, <3>1, <3>2
  <2> QED
    BY <2>1 DEF StreamsKept
<1>6. StreamsTuned
  <2>1. CASE stream[n] = Nil \/ UNCHANGED stream
    BY <1>2, <2>1, SameSettings DEF SetupInv
  <2>2. CASE pc[p] = "updating" /\ new.limits = info[p].limits /\ stream'[n] = new
    <3>1. ASSUME NEW m \in Name, stream[m] # Nil, stream'[m].limits < stream[m].limits
          PROVE  /\ pc[p] = "updating" /\ Entry(p).name = m
                 /\ info[p].limits < stream[m].limits
      <4>1. m = n
        BY <1>2, <3>1 DEF SetupInv, SetupTyped, StreamConfig
      <4> QED
        BY <2>2, <3>1, <4>1
    <3> QED
      BY <3>1 DEF StreamsTuned
  <2> QED
    BY <1>1, <2>1, <2>2 DEF SetupInv, SetupTyped
<1>7. SetupOf(p)'
  <2>1. CASE pc'[p] = "down"
    BY <1>5, <2>1, UpStaysUp
  <2>2. CASE /\ pc'[p] = "ensuring" /\ at'[p] = at[p] + 1 /\ stream'[n] \in StreamConfig
             /\ stream'[n].subjects = Wanted(p)
    BY <1>1, <1>5, <2>2, NextEntry
  <2>3. CASE pc'[p] = "reading" /\ at'[p] = at[p] /\ UNCHANGED stream /\ stream[n] # Nil
    <3>1. /\ Streams(p)' = Streams(p) /\ UsesJetStream(p)' = UsesJetStream(p)
          /\ Entry(p)' = Entry(p) /\ Valid(Entry(p))' = Valid(Entry(p))
      BY <2>3 DEF Streams, UsesJetStream, Entry, Valid
    <3>2. \A i \in DOMAIN Streams(p) : Ensured(p, i) => Ensured(p, i)'
      BY <1>1, <1>5, EnsuredStays DEF SetupInv
    <3> QED
      BY <1>1, <2>3, <3>1, <3>2 DEF SetupInv, SetupOf
  <2> QED
    BY <2>1, <2>2, <2>3
<1>8. SetupInv'
  <2>1. ASSUME NEW q \in Process PROVE SetupOf(q)'
    BY <1>5, <1>7, StaysWhereItIs
  <2> QED
    BY <1>4, <2>1 DEF SetupInv, DeploymentOK
<1> QED
  BY <1>6, <1>8

LEMMA WantedIsTyped ==
    ASSUME SetupInv, NEW p \in Process, at[p] \in DOMAIN Streams(p), Valid(Entry(p))
    PROVE  Wanted(p) \in Seq(Subject) /\ Entry(p).name \in Name
BY ValidEntry DEF SetupInv, Wanted, Entry

LEMMA AddStreamHolds ==
    ASSUME SetupInv, CallTyped', NEW p \in Process, NEW heard \in BOOLEAN, AddStream(p, heard)
    PROVE  SetupInv' /\ StreamsTuned
<1> DEFINE n == Entry(p).name
           new == Fresh(Wanted(p))
<1>1. /\ pc[p] = "ensuring" /\ Valid(Entry(p)) /\ at[p] \in DOMAIN Streams(p)
      /\ UNCHANGED <<deployment, info>>
  <2>1. Streams(p) \in Seq(StreamEntry) /\ at[p] \in Nat \ {0}
    BY DEF Streams, SetupInv, DeploymentOK, DeploymentType, CallTyped
  <2> QED
    BY <2>1 DEF AddStream, setupVars
<1>2. new \in StreamConfig /\ new.subjects = Wanted(p) /\ n \in Name
  BY <1>1, WantedIsTyped DEF Fresh, StreamConfig
<1>3. \A q \in Process \ {p} : pc'[q] = pc[q] /\ at'[q] = at[q]
  BY DEF AddStream, Answered, Goto, SetupInv, CallTyped
<1>4. /\ UNCHANGED stream \/ (stream[n] = Nil /\ stream' = [stream EXCEPT ![n] = new])
      /\ \/ pc'[p] = "down"
         \/ pc'[p] = "ensuring" /\ at'[p] = at[p] + 1 /\ stream'[n] = new
         \/ pc'[p] = "reading" /\ at'[p] = at[p] /\ UNCHANGED stream /\ stream[n] # Nil
  <2>1. stream' = [stream EXCEPT ![n] = new] => stream'[n] = new
    BY <1>2 DEF SetupInv, SetupTyped
  <2> HIDE DEF new
  <2>2. \/ stream[n] = Nil /\ stream' = [stream EXCEPT ![n] = new]
           /\ Answered(p, heard, "ensuring", at[p] + 1)
        \/ stream[n] = new /\ UNCHANGED stream /\ Answered(p, heard, "ensuring", at[p] + 1)
        \/ stream[n] # Nil /\ UNCHANGED stream /\ Answered(p, heard, "reading", at[p])
        \/ UNCHANGED stream /\ Answered(p, heard, "down", at[p])
    BY DEF AddStream, new
  <2>3. ASSUME NEW label, NEW position, Answered(p, heard, label, position)
        PROVE  pc'[p] = "down" \/ (pc'[p] = label /\ at'[p] = position)
    BY <2>3 DEF Answered, Goto, SetupInv, CallTyped
  <2> QED
    BY <2>1, <2>2, <2>3
<1> HIDE DEF new
<1> QED
  BY <1>1, <1>2, <1>3, <1>4, RequestHolds

LEMMA UpdateStreamHolds ==
    ASSUME SetupInv, CallTyped', NEW p \in Process, NEW heard \in BOOLEAN, UpdateStream(p, heard)
    PROVE  SetupInv' /\ StreamsTuned
<1> DEFINE n == Entry(p).name
           new == Updated(p)
<1>1. /\ pc[p] = "updating" /\ Valid(Entry(p)) /\ at[p] \in DOMAIN Streams(p)
      /\ UNCHANGED <<deployment, info>> /\ info[p] \in StreamConfig
  BY DEF UpdateStream, setupVars, SetupInv, SetupOf, SetupTyped
<1>2. /\ new \in StreamConfig /\ new.subjects = Wanted(p) /\ new.limits = info[p].limits
      /\ n \in Name
  BY <1>1, WantedIsTyped DEF Updated, StreamConfig
<1>3. \A q \in Process \ {p} : pc'[q] = pc[q] /\ at'[q] = at[q]
  BY DEF UpdateStream, Answered, Goto, SetupInv, CallTyped
<1>4. /\ UNCHANGED stream \/ stream' = [stream EXCEPT ![n] = new]
      /\ pc'[p] = "down" \/ (pc'[p] = "ensuring" /\ at'[p] = at[p] + 1 /\ stream'[n] = new)
  <2>1. stream' = [stream EXCEPT ![n] = new] => stream'[n] = new
    BY <1>2 DEF SetupInv, SetupTyped
  <2>2. \/ stream' = [stream EXCEPT ![n] = new] /\ Answered(p, heard, "ensuring", at[p] + 1)
        \/ UNCHANGED stream /\ Answered(p, heard, "down", at[p])
    BY DEF UpdateStream
  <2>3. ASSUME NEW label, NEW position, Answered(p, heard, label, position)
        PROVE  pc'[p] = "down" \/ (pc'[p] = label /\ at'[p] = position)
    BY <2>3 DEF Answered, Goto, SetupInv, CallTyped
  <2> QED
    BY <2>1, <2>2, <2>3
<1> HIDE DEF new
<1> QED
  BY <1>1, <1>2, <1>3, <1>4, RequestHolds

LEMMA SetupInit == Init => SetupInv
<1> SUFFICES ASSUME Init PROVE SetupInv
  OBVIOUS
<1>1. DeploymentOK /\ CallTyped
  BY InitHolds DEF PublishInv, CallInv
<1>2. SetupTyped
  <2>1. deployment.before \in [Name -> {Nil} \cup [subjects : Seq(Subject), limits : {0}]]
    BY <1>1 DEF DeploymentOK, DeploymentType
  <2> QED
    BY <2>1 DEF Init, SetupTyped, StreamConfig
<1> QED
  BY <1>1, <1>2 DEF SetupInv, SetupOf, Init

LEMMA SetupStep ==
    PublishInv /\ PublishInv' /\ SetupInv /\ [Next]_vars => SetupInv' /\ StreamsTuned
<1> SUFFICES ASSUME PublishInv, PublishInv', SetupInv, [Next]_vars
             PROVE  SetupInv' /\ StreamsTuned
  OBVIOUS
<1>1. CallTyped'
  BY DEF PublishInv, CallInv
<1>2. CASE \E n \in Name : TuneStream(n)
  BY <1>1, <1>2, TuneHolds
<1>3. CASE WindowPasses \/ (\E r \in flight : Arrive(r)) \/ UNCHANGED vars
  <2>1. UNCHANGED <<deployment, stream, info, pc, at>>
    BY <1>3 DEF WindowPasses, Arrive, vars, serverVars, setupVars
  <2> QED
    BY <1>1, <2>1, NobodySetsUp
<1>4. ASSUME NEW p \in Process, SetUp(p) PROVE SetupInv' /\ StreamsTuned
  BY <1>1, <1>4, StartHolds, ReadStreamHolds, StartedHolds, AddStreamHolds, UpdateStreamHolds
     DEF SetUp
<1>5. ASSUME NEW p \in Process, Call(p) PROVE SetupInv' /\ StreamsTuned
  <2>1. UNCHANGED <<deployment, stream, info>>
    BY <1>5 DEF Call, Publish, CancelContext, FailCall, PublishMsg, PublishTimesOut, PublishCore,
                AcceptCall, GiveUp, serverVars, setupVars
  <2>2. pc[p] \in {"up", "publishing"}
    BY <1>5 DEF Call, Publish, CancelContext, FailCall, PublishMsg, PublishTimesOut, PublishCore,
                AcceptCall, GiveUp, Sendable, HasNext
  <2>3. /\ \/ UNCHANGED pc
           \/ \E label \in {"up", "publishing"} : pc' = [pc EXCEPT ![p] = label]
        /\ \/ UNCHANGED at
           \/ \E position : at' = [at EXCEPT ![p] = position]
    BY <1>5 DEF Call, Publish, CancelContext, FailCall, PublishMsg, PublishTimesOut, PublishCore,
                AcceptCall, GiveUp, Goto
  <2>4. pc'[p] \in {"up", "publishing"} /\ \A q \in Process \ {p} : pc'[q] = pc[q] /\ at'[q] = at[q]
    BY <2>2, <2>3 DEF SetupInv, CallTyped
  <2> QED
    BY <1>1, <2>1, <2>2, <2>4, NobodySetsUp
<1> QED
  BY <1>2, <1>3, <1>4, <1>5 DEF Next, Server

LEMMA SetupInvHolds == Spec => []SetupInv
BY PublishInvHolds, SetupInit, SetupStep, PTL DEF Spec

\* From the return of newNATSQueue on, the streams of a process bind what it asked for as
\* long as all ask for the same, whoever starts, fails or crashes in ensureStream
\* (nats.go ensureStreams).
THEOREM EnsuredStreamsStayBound == Spec => []AgreedStreamsAreBound
<1>1. SetupInv => AgreedStreamsAreBound
  <2> SUFFICES ASSUME SetupInv, NEW p \in deployment.jetStream, pc[p] \in {"up", "publishing"},
                      NEW i \in DOMAIN Streams(p), Agreed(Streams(p)[i].name)
               PROVE  Bound(Streams(p)[i])
    BY DEF AgreedStreamsAreBound, Bound
  <2>1. p \in Process
    BY DEF SetupInv, DeploymentOK, DeploymentType
  <2> QED
    BY <2>1 DEF SetupInv, SetupOf, Ensured, UsesJetStream
<1> QED
  BY <1>1, SetupInvHolds, PTL

\* ensureStream takes a setting of an operator back only in a race: it read the stream
\* before the change and writes it after (nats.go ensureStream).
THEOREM OperatorsKeepTheirSettings == Spec => SettingsGoBackOnlyByRace
<1>1. PublishInv /\ PublishInv' /\ SetupInv /\ [Next]_vars =>
        [\A n \in Name :
           stream[n] # Nil /\ stream'[n].limits < stream[n].limits =>
             \E p \in Process : /\ pc[p] = "updating" /\ Entry(p).name = n
                                /\ info[p].limits < stream[n].limits]_vars
  BY SetupStep DEF StreamsTuned
<1> QED
  BY <1>1, PublishInvHolds, SetupInvHolds, PTL DEF Spec, SettingsGoBackOnlyByRace

-----------------------------------------------------------------------------
(* Types *)

\* What the other invariants do not say of the types: a call that goes on has a topic.
CallerTyped ==
    /\ deployment \in Deployments /\ window \in 0 .. MaxWindows /\ faults \in 0 .. MaxFaults
    /\ starts \in [Process -> 0 .. MaxStarts] /\ calls \in [Process -> 0 .. MaxCalls]
    /\ ctx \in [Process -> [deadline : BOOLEAN, done : BOOLEAN]]
    /\ flight \subseteq FlightEntry
    /\ \A p \in Process : pc[p] = "publishing" => Topic(p) \in Subject

LEMMA CallerInit == Init => CallerTyped
<1> SUFFICES ASSUME Init PROVE CallerTyped
  OBVIOUS
<1>1. {MaxStarts, MaxFaults, MaxCalls, MaxTunings, MaxWindows} \subseteq Nat
  BY PublishingAssumption
<1> QED
  BY <1>1 DEF Init, CallerTyped, Background

\* A request on its way has a type.
LEMMA RequestTyped ==
    ASSUME PublishInv, CallerTyped, NEW p \in Process, Sendable(p)
    PROVE  PublishRequest(p) \in FlightEntry
<1> DEFINE r == PublishRequest(p)
<1>1. GoodRequest(r)
  BY RequestIsGood
<1>2. calls[p] \in Nat /\ Topic(p) \in Subject
  BY PublishingAssumption DEF CallerTyped, Sendable, HasNext
<1>3. /\ r.process \in Process /\ r.job \in Nat /\ r.pos \in Nat /\ r.dedup \in Id \cup {Blank}
  BY <1>1 DEF GoodRequest
<1> QED
  BY <1>2, <1>3 DEF PublishRequest, FlightEntry

\* A step of p that leaves its caller at its job.
LEMMA CallerRests ==
    ASSUME CallerTyped, UNCHANGED <<deployment, window>>,
           faults' \in 0 .. MaxFaults, starts' \in [Process -> 0 .. MaxStarts],
           calls' \in [Process -> 0 .. MaxCalls],
           ctx' \in [Process -> [deadline : BOOLEAN, done : BOOLEAN]],
           flight' \subseteq FlightEntry,
           \A p \in Process : pc'[p] = "publishing" =>
             /\ job'[p] = job[p]
             /\ pc[p] = "publishing" \/ Topic(p) \in Subject
    PROVE  CallerTyped'
<1>1. \A p \in Process : pc'[p] = "publishing" => Topic(p)' \in Subject
  BY DEF CallerTyped, Topic, Jobs
<1> QED
  BY <1>1 DEF CallerTyped

LEMMA FaultTyped ==
    ASSUME CallerTyped, Fault \/ UNCHANGED faults
    PROVE  faults' \in 0 .. MaxFaults
BY PublishingAssumption DEF CallerTyped, Fault

LEMMA CallerSetUp ==
    ASSUME PublishInv, CallerTyped, NEW p \in Process, SetUp(p)
    PROVE  CallerTyped'
<1>1. /\ UNCHANGED <<deployment, window, flight, callerVars>>
      /\ \E label \in Labels \ {"publishing"} : Goto(p, label)
      /\ Fault \/ UNCHANGED faults
      /\ UNCHANGED starts \/ (starts[p] < MaxStarts /\ starts' = [starts EXCEPT ![p] = @ + 1])
  <2>1. CASE Start(p) \/ RejectStream(p) \/ Started(p) \/ ReadStream(p) \/ Crash(p)
    BY <2>1 DEF Start, RejectStream, Started, ReadStream, Crash, serverVars, setupVars, Labels, Goto
  <2>2. ASSUME NEW heard \in BOOLEAN, NEW label, NEW position,
               Answered(p, heard, label, position), label \in Labels \ {"publishing"}
        PROVE  (Fault \/ UNCHANGED faults) /\ \E l \in Labels \ {"publishing"} : Goto(p, l)
    BY <2>2 DEF Answered, Labels
  <2>3. CASE \E heard \in BOOLEAN : AddStream(p, heard) \/ UpdateStream(p, heard)
    BY <2>2, <2>3 DEF AddStream, UpdateStream, setupVars, Labels
  <2> QED
    BY <2>1, <2>3 DEF SetUp
<1>2. faults' \in 0 .. MaxFaults
  BY <1>1, FaultTyped
<1>3. starts' \in [Process -> 0 .. MaxStarts]
  <2>1. starts \in [Process -> 0 .. MaxStarts] /\ MaxStarts \in Nat
    BY PublishingAssumption DEF CallerTyped
  <2>2. starts[p] < MaxStarts => starts[p] + 1 \in 0 .. MaxStarts
    BY <2>1
  <2> QED
    BY <1>1, <2>1, <2>2
<1>4. \A q \in Process : pc'[q] = "publishing" => pc[q] = "publishing"
  BY <1>1 DEF Goto, PublishInv, CallInv, CallTyped
<1> QED
  BY <1>1, <1>2, <1>3, <1>4, CallerRests DEF callerVars, CallerTyped

LEMMA CallerCalls ==
    ASSUME PublishInv, CallerTyped, NEW p \in Process, Call(p)
    PROVE  CallerTyped'
<1>1. CASE \E c \in [deadline : BOOLEAN, done : BOOLEAN] : Publish(p, c)
  <2>1. PICK c \in [deadline : BOOLEAN, done : BOOLEAN] : Publish(p, c)
    BY <1>1
  <2>2. /\ UNCHANGED <<deployment, window, flight, faults, starts, job>>
        /\ calls[p] < MaxCalls /\ calls' = [calls EXCEPT ![p] = @ + 1]
        /\ ctx' = [ctx EXCEPT ![p] = c]
        /\ UNCHANGED pc \/ (pc' = [pc EXCEPT ![p] = "publishing"] /\ Topic(p) # Blank)
        /\ job[p] <= Len(Jobs(p))
    BY <2>1 DEF Publish, serverVars, setupVars, Goto, BlankTopic
  <2>3. Topic(p) \in Subject \cup {Blank}
    <3>1. Jobs(p) \in Seq(Job) /\ job[p] \in Nat \ {0}
      BY DEF PublishInv, DeploymentOK, DeploymentType, Jobs, CallInv, CallTyped
    <3>2. Jobs(p)[job[p]] \in Job
      BY <2>2, <3>1
    <3> QED
      BY <3>2 DEF Job, Topic
  <2>4. \A q \in Process : pc'[q] = "publishing" =>
          pc[q] = "publishing" \/ Topic(q) \in Subject
    BY <2>2, <2>3 DEF PublishInv, CallInv, CallTyped
  <2>5. calls' \in [Process -> 0 .. MaxCalls]
    BY <2>2, PublishingAssumption DEF CallerTyped
  <2>6. ctx' \in [Process -> [deadline : BOOLEAN, done : BOOLEAN]]
    BY <2>2 DEF CallerTyped
  <2> QED
    BY <2>2, <2>4, <2>5, <2>6, CallerRests DEF CallerTyped
<1>2. CASE CancelContext(p)
  <2>1. /\ UNCHANGED <<deployment, window, flight, faults, starts, job, pc, calls>>
        /\ ctx' = [ctx EXCEPT ![p].done = TRUE]
    BY <1>2 DEF CancelContext, serverVars, setupVars
  <2>2. ctx' \in [Process -> [deadline : BOOLEAN, done : BOOLEAN]]
    BY <2>1 DEF CallerTyped
  <2> QED
    BY <2>1, <2>2, CallerRests DEF CallerTyped
<1>3. CASE PublishTimesOut(p) \/ PublishMsg(p) \/ PublishCore(p) \/ FailCall(p)
  <2>1. /\ UNCHANGED <<deployment, window, starts, job, calls, ctx>>
        /\ UNCHANGED pc \/ pc' = [pc EXCEPT ![p] = "up"]
        /\ Fault \/ UNCHANGED faults
        /\ flight' = flight \/ (Sendable(p) /\ flight' = flight \cup {PublishRequest(p)})
    BY <1>3 DEF PublishTimesOut, PublishMsg, PublishCore, FailCall, serverVars, setupVars,
                callerVars, Goto
  <2>2. flight' \subseteq FlightEntry /\ faults' \in 0 .. MaxFaults
    BY <2>1, RequestTyped, FaultTyped DEF CallerTyped
  <2>3. \A q \in Process : pc'[q] = "publishing" => pc[q] = "publishing"
    BY <2>1 DEF PublishInv, CallInv, CallTyped
  <2> QED
    BY <2>1, <2>2, <2>3, CallerRests DEF CallerTyped
<1>4. CASE AcceptCall(p) \/ GiveUp(p)
  <2>1. /\ UNCHANGED <<deployment, window, flight, faults, starts, ctx>>
        /\ job' = [job EXCEPT ![p] = @ + 1] /\ calls' = [calls EXCEPT ![p] = 0]
        /\ pc' = [pc EXCEPT ![p] = "up"] \/ (UNCHANGED pc /\ pc[p] = "up")
    BY <1>4 DEF AcceptCall, GiveUp, NextJob, Goto, serverVars, setupVars
  <2>2. calls' \in [Process -> 0 .. MaxCalls]
    BY <2>1, PublishingAssumption DEF CallerTyped
  <2>3. \A q \in Process : pc'[q] = "publishing" => pc[q] = "publishing" /\ job'[q] = job[q]
    BY <2>1 DEF PublishInv, CallInv, CallTyped
  <2> QED
    BY <2>1, <2>2, <2>3, CallerRests DEF CallerTyped
<1> QED
  BY <1>1, <1>2, <1>3, <1>4 DEF Call

LEMMA CallerServer ==
    ASSUME PublishInv, CallerTyped, Server \/ UNCHANGED vars
    PROVE  CallerTyped'
<1>1. CASE WindowPasses
  <2>1. /\ UNCHANGED <<deployment, flight, faults, starts, pc, job, calls, ctx>>
        /\ window < MaxWindows /\ window' = window + 1
    BY <1>1 DEF WindowPasses, setupVars, callerVars
  <2>2. window' \in 0 .. MaxWindows
    BY <2>1, PublishingAssumption DEF CallerTyped
  <2> QED
    BY <2>1, <2>2 DEF CallerTyped, Topic, Jobs
<1>2. CASE (\E n \in Name : TuneStream(n)) \/ (\E r \in flight : Arrive(r)) \/ UNCHANGED vars
  <2>1. /\ UNCHANGED <<deployment, window, faults, starts, pc, job, calls, ctx>>
        /\ flight' \subseteq flight
    BY <1>2 DEF TuneStream, Arrive, vars, serverVars, setupVars, callerVars
  <2> QED
    BY <2>1, CallerRests DEF CallerTyped
<1> QED
  BY <1>1, <1>2 DEF Server

LEMMA CallerStep == PublishInv /\ CallerTyped /\ [Next]_vars => CallerTyped'
BY CallerServer, CallerSetUp, CallerCalls DEF Next

\* Every variable has its type, and ensureStream writes back only what it has read.
THEOREM PublishingTypeCorrect == Spec => []TypeOK
<1>1. PublishInv /\ SetupInv /\ CallerTyped => TypeOK
  <2> SUFFICES ASSUME PublishInv, SetupInv, CallerTyped PROVE TypeOK
    OBVIOUS
  <2>1. log \in Seq(LogEntry) /\ CallTyped
    BY DEF PublishInv, LogInv, LogTyped, CallInv
  <2>2. SetupTyped /\ \A p \in Process : pc[p] = "updating" => info[p] # Nil
    BY DEF SetupInv, SetupOf
  <2> QED
    BY <2>1, <2>2 DEF TypeOK, CallerTyped, CallTyped, SetupTyped, StreamConfig
<1>2. Spec => []CallerTyped
  BY PublishInvHolds, CallerInit, CallerStep, PTL DEF Spec
<1> QED
  BY <1>1, <1>2, PublishInvHolds, SetupInvHolds, PTL
====================================================================================
