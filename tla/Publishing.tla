------------------------------- MODULE Publishing -------------------------------
(***************************************************************************)
(* Stream set-up and publishing (messaging/nats.go, client.go): the start  *)
(* of a process that ensures its streams with AddStream, StreamInfo and    *)
(* UpdateStream requests, and Publish, which sends the messages of a call  *)
(* one by one until one fails.                                             *)
(*                                                                         *)
(* The JetStream server is external: a stream binds subjects no other      *)
(* stream binds, keeps the messages published to them, and drops one whose *)
(* message ID it has stored in the current deduplication window.  External *)
(* too is the caller, which may repeat a Publish that failed.              *)
(***************************************************************************)
EXTENDS Naturals, Sequences, FiniteSets

CONSTANTS
    Process,      \* clients of one NATS account
    Name,         \* stream names
    Subject,      \* stream subjects, and topics
    Id,           \* message IDs
    Blank,        \* an empty name, subject, topic or ID
    Nil,          \* no stream, or a nil *Stream in the configuration
    Unsendable,   \* a nil message, or one that does not marshal
    Deployments,  \* what the processes may be set up to do (see DeploymentType)
    MaxStarts,    \* bound on the starts of a process
    MaxFaults,    \* bound on requests that get lost and processes that crash
    MaxCalls,     \* bound on how often a caller makes the same Publish
    MaxTunings,   \* bound on an operator's changes of a stream
    MaxWindows    \* bound on deduplication windows that pass

StreamEntry == {Nil} \cup [name : Name \cup {Blank}, subjects : Seq(Subject \cup {Blank})]
Message == [id : Id \cup {Blank}]
Job == [topic : Subject \cup {Blank}, batch : Seq(Message \cup {Unsendable})]

\* The processes that use JetStream, the stream list of each process and what it
\* has to publish, and the streams the server holds before any of them starts.
DeploymentType ==
    [jetStream : SUBSET Process,
     streams   : [Process -> Seq(StreamEntry)],
     jobs      : [Process -> Seq(Job)],
     before    : [Name -> {Nil} \cup [subjects : Seq(Subject), limits : {0}]]]

ASSUME PublishingAssumption ==
    /\ Blank \notin Name \cup Subject \cup Id
    /\ Nil \notin [name : Name \cup {Blank}, subjects : Seq(Subject \cup {Blank})]
    /\ Nil \notin [subjects : Seq(Subject), limits : Nat]
    /\ Unsendable \notin Message
    /\ \A d \in Deployments : d \in DeploymentType
    /\ {MaxStarts, MaxFaults, MaxCalls, MaxTunings, MaxWindows} \subseteq Nat

VARIABLES
    deployment,  \* the one this behaviour is about
    stream,      \* server: the configuration of each stream
    log,         \* server: the messages stored, in order
    window,      \* server: the current deduplication window
    flight,      \* publish requests no answer is waited for
    faults,      \* faults of the environment so far
    starts,      \* starts of each process
    pc,          \* what each process does
    at,          \* the stream it ensures, or the message it publishes next
    info,        \* the configuration StreamInfo returned
    job,         \* the publish job of its caller
    calls,       \* Publish calls made for that job
    ctx,         \* the context of the current call
    accepted     \* history: the jobs of each process for which Publish returned nil

serverVars == <<stream, log, window, flight>>
setupVars  == <<starts, info>>
callerVars == <<job, calls, ctx, accepted>>
vars == <<deployment, serverVars, faults, setupVars, pc, at, callerVars>>

Streams(p) == deployment.streams[p]
Jobs(p) == deployment.jobs[p]
UsesJetStream(p) == p \in deployment.jetStream
Background == [deadline |-> FALSE, done |-> FALSE]

Init ==
    /\ deployment \in Deployments
    /\ stream = deployment.before
    /\ log = <<>> /\ window = 0 /\ flight = {} /\ faults = 0
    /\ starts = [p \in Process |-> 0]
    /\ pc = [p \in Process |-> "down"]
    /\ at = [p \in Process |-> 1]
    /\ info = [p \in Process |-> Nil]
    /\ job = [p \in Process |-> 1]
    /\ calls = [p \in Process |-> 0]
    /\ ctx = [p \in Process |-> Background]
    /\ accepted = [p \in Process |-> {}]

Goto(p, label) == pc' = [pc EXCEPT ![p] = label]
Fault == faults < MaxFaults /\ faults' = faults + 1

\* The client goes on after a request that was answered; without an answer the
\* request fails although the server may have executed it.
Answered(p, heard, label, position) ==
    IF heard
    THEN /\ Goto(p, label) /\ at' = [at EXCEPT ![p] = position]
         /\ UNCHANGED faults
    ELSE Fault /\ Goto(p, "down") /\ UNCHANGED at

-----------------------------------------------------------------------------
(* The JetStream server (external) *)

Elements(s) == {s[i] : i \in DOMAIN s}

\* Another stream binds one of the subjects.
Overlaps(n, subjects) ==
    \E m \in Name \ {n} :
        stream[m] # Nil /\ Elements(stream[m].subjects) \cap Elements(subjects) # {}

Fresh(subjects) == [subjects |-> subjects, limits |-> 0]

BoundTo(topic) == {n \in Name : stream[n] # Nil /\ topic \in Elements(stream[n].subjects)}

Known(n, id) ==
    \E i \in DOMAIN log :
        log[i].name = n /\ log[i].dedup = id /\ log[i].window = window

\* What the log gains when the request r reaches the stream n.
Stored(r, n) ==
    IF r.dedup # Blank /\ Known(n, r.dedup) THEN log
    ELSE Append(log, [name |-> n, window |-> window, dedup |-> r.dedup,
                      process |-> r.process, job |-> r.job, pos |-> r.pos])

\* An operator changes a setting of a stream that no configuration here mentions
\* (retention, replicas); the higher value is the newer one.
TuneStream(n) ==
    /\ stream[n] # Nil /\ stream[n].limits < MaxTunings
    /\ stream' = [stream EXCEPT ![n].limits = @ + 1]
    /\ UNCHANGED <<deployment, log, window, flight, faults, setupVars, pc, at, callerVars>>

WindowPasses ==
    /\ window < MaxWindows
    /\ window' = window + 1
    /\ UNCHANGED <<deployment, stream, log, flight, faults, setupVars, pc, at, callerVars>>

\* A request whose caller no longer waits reaches the server after all, or never.
Arrive(r) ==
    /\ r \in flight
    /\ flight' = flight \ {r}
    /\ \/ \E n \in BoundTo(r.topic) : log' = Stored(r, n)
       \/ UNCHANGED log
    /\ UNCHANGED <<deployment, stream, window, faults, setupVars, pc, at, callerVars>>

-----------------------------------------------------------------------------
(* Start of a process (newNATSQueue, ensureStreams, ensureStream) *)

\* The subjects that are not blank, in their order.
Trimmed(subjects) ==
    LET kept[i \in 0..Len(subjects)] ==
          IF i = 0 THEN <<>>
          ELSE IF subjects[i] = Blank THEN kept[i - 1]
          ELSE Append(kept[i - 1], subjects[i])
    IN kept[Len(subjects)]

\* The entry ensureStreams has come to, and what it asks of the server.
Entry(p) == Streams(p)[at[p]]
Wanted(p) == Trimmed(Entry(p).subjects)
Valid(entry) ==
    /\ entry # Nil
    /\ entry.name # Blank
    /\ Trimmed(entry.subjects) # <<>>

Start(p) ==
    /\ pc[p] = "down" /\ starts[p] < MaxStarts
    /\ starts' = [starts EXCEPT ![p] = @ + 1]
    /\ Goto(p, IF UsesJetStream(p) THEN "ensuring" ELSE "up")
    /\ at' = [at EXCEPT ![p] = 1]
    /\ UNCHANGED <<deployment, serverVars, faults, info, callerVars>>

\* A nil stream, a blank name or a list of blank subjects ends the start, after the
\* streams before it were ensured.
RejectStream(p) ==
    /\ pc[p] = "ensuring" /\ at[p] <= Len(Streams(p)) /\ ~Valid(Entry(p))
    /\ Goto(p, "down")
    /\ UNCHANGED <<deployment, serverVars, faults, setupVars, at, callerVars>>

\* AddStream creates the stream, finds it just as configured, finds its name in use
\* by another configuration (the only error that is looked into), or fails.
AddStream(p, heard) ==
    LET n == Entry(p).name
        config == Fresh(Wanted(p))
    IN /\ pc[p] = "ensuring" /\ at[p] <= Len(Streams(p)) /\ Valid(Entry(p))
       /\ \/ /\ stream[n] = Nil /\ ~Overlaps(n, Wanted(p))
             /\ stream' = [stream EXCEPT ![n] = config]
             /\ Answered(p, heard, "ensuring", at[p] + 1)
          \/ /\ stream[n] = config
             /\ Answered(p, heard, "ensuring", at[p] + 1)
             /\ UNCHANGED stream
          \/ /\ stream[n] \notin {Nil, config}
             /\ Answered(p, heard, "reading", at[p])
             /\ UNCHANGED stream
          \/ /\ stream[n] = Nil /\ Overlaps(n, Wanted(p))
             /\ Answered(p, heard, "down", at[p])
             /\ UNCHANGED stream
       /\ UNCHANGED <<deployment, log, window, flight, setupVars, callerVars>>

\* Mutated form of ReadStream: an existing stream is taken as it is.
ReadStreamReuses(p) ==
    /\ pc[p] = "reading"
    /\ info' = [info EXCEPT ![p] = stream[Entry(p).name]]
    /\ Goto(p, "ensuring") /\ at' = [at EXCEPT ![p] = @ + 1]
    /\ UNCHANGED <<deployment, serverVars, faults, starts, callerVars>>

\* Mutated form of ReadStream: what was read is assigned to a shadowing variable.
ReadStreamShadows(p) ==
    /\ pc[p] = "reading"
    /\ IF stream[Entry(p).name].subjects = Wanted(p)
       THEN Goto(p, "ensuring") /\ at' = [at EXCEPT ![p] = @ + 1]
       ELSE Goto(p, "updating") /\ UNCHANGED at
    /\ UNCHANGED <<deployment, serverVars, faults, setupVars, callerVars>>

\* StreamInfo: done if the subjects are the wanted ones in the wanted order.
ReadStream(p) ==
    LET found == stream[Entry(p).name]
    IN /\ pc[p] = "reading"
       /\ info' = [info EXCEPT ![p] = found]
       /\ IF found.subjects = Wanted(p)
          THEN Goto(p, "ensuring") /\ at' = [at EXCEPT ![p] = @ + 1]
          ELSE Goto(p, "updating") /\ UNCHANGED at
       /\ UNCHANGED <<deployment, serverVars, faults, starts, callerVars>>

\* Mutated form of Updated: a new configuration instead of the one that was read.
UpdatedFromScratch(p) == Fresh(Wanted(p))

\* UpdateStream writes the whole configuration that was read, with the wanted
\* subjects in it.
Updated(p) == [info[p] EXCEPT !.subjects = Wanted(p)]

UpdateStream(p, heard) ==
    LET n == Entry(p).name
    IN /\ pc[p] = "updating"
       /\ \/ /\ ~Overlaps(n, Wanted(p))
             /\ stream' = [stream EXCEPT ![n] = Updated(p)]
             /\ Answered(p, heard, "ensuring", at[p] + 1)
          \/ /\ Overlaps(n, Wanted(p))
             /\ Answered(p, heard, "down", at[p])
             /\ UNCHANGED stream
       /\ UNCHANGED <<deployment, log, window, flight, setupVars, callerVars>>

Started(p) ==
    /\ pc[p] = "ensuring" /\ at[p] > Len(Streams(p))
    /\ Goto(p, "up")
    /\ UNCHANGED <<deployment, serverVars, faults, setupVars, at, callerVars>>

\* A set-up request never reaches the server, or the process dies wherever it is.
Crash(p) ==
    /\ pc[p] # "down" /\ Fault
    /\ Goto(p, "down")
    /\ UNCHANGED <<deployment, serverVars, setupVars, at, callerVars>>

-----------------------------------------------------------------------------
(* Publish (Client.Publish, natsQueue.Publish, natsQueue.publish) *)

Batch(p) == Jobs(p)[job[p]].batch
Topic(p) == Jobs(p)[job[p]].topic

\* Mutated form of Header: no message ID.
NoHeader(p) == Blank

\* The request for the message publish has come to.  With JetStream a message that
\* has an Id carries it as the message ID.
Header(p) == IF UsesJetStream(p) THEN Batch(p)[at[p]].id ELSE Blank
PublishRequest(p) ==
    [process |-> p, job |-> job[p], pos |-> at[p], call |-> calls[p],
     topic |-> Topic(p), dedup |-> Header(p)]

\* Client.Publish refuses the call.
BlankTopic(p) == Topic(p) = Blank

\* A call starts.  A blank topic or a context that is done ends it at once.
Publish(p, c) ==
    /\ pc[p] = "up" /\ job[p] <= Len(Jobs(p)) /\ calls[p] < MaxCalls
    /\ calls' = [calls EXCEPT ![p] = @ + 1]
    /\ ctx' = [ctx EXCEPT ![p] = c]
    /\ IF BlankTopic(p) \/ c.done
       THEN UNCHANGED <<pc, at>>
       ELSE Goto(p, "publishing") /\ at' = [at EXCEPT ![p] = 1]
    /\ UNCHANGED <<deployment, serverVars, faults, setupVars, job, accepted>>

CancelContext(p) ==
    /\ pc[p] = "publishing" /\ ~ctx[p].done
    /\ ctx' = [ctx EXCEPT ![p].done = TRUE]
    /\ UNCHANGED <<deployment, serverVars, faults, setupVars, pc, at, job, calls, accepted>>

\* There is a next message.
HasNext(p) == pc[p] = "publishing" /\ at[p] <= Len(Batch(p))
Sendable(p) == HasNext(p) /\ Batch(p)[at[p]] # Unsendable

\* Only a context with a deadline is handed to JetStream, which refuses it once it
\* is done; Publish itself does not look at the context again.
Expired(p) == UsesJetStream(p) /\ ctx[p].deadline /\ ctx[p].done

\* The call ends with an error before a request is made.
FailCall(p) ==
    /\ HasNext(p)
    /\ Batch(p)[at[p]] = Unsendable \/ Expired(p)
    /\ Goto(p, "up")
    /\ UNCHANGED <<deployment, serverVars, faults, setupVars, at, callerVars>>

\* Mutated form of PublishMsg: a message no stream binds counts as published.
PublishMsgUnchecked(p) ==
    /\ Sendable(p) /\ UsesJetStream(p) /\ ~Expired(p)
    /\ \/ \E n \in BoundTo(Topic(p)) : log' = Stored(PublishRequest(p), n)
       \/ BoundTo(Topic(p)) = {} /\ UNCHANGED log
    /\ at' = [at EXCEPT ![p] = @ + 1]
    /\ UNCHANGED <<deployment, stream, window, flight, faults, setupVars, pc, callerVars>>

\* JetStream answers: the message is stored, or known, or no stream binds the topic.
PublishMsg(p) ==
    /\ Sendable(p) /\ UsesJetStream(p) /\ ~Expired(p)
    /\ \/ /\ \E n \in BoundTo(Topic(p)) : log' = Stored(PublishRequest(p), n)
          /\ at' = [at EXCEPT ![p] = @ + 1]
          /\ UNCHANGED pc
       \/ /\ BoundTo(Topic(p)) = {}
          /\ Goto(p, "up")
          /\ UNCHANGED <<log, at>>
    /\ UNCHANGED <<deployment, stream, window, flight, faults, setupVars, callerVars>>

\* Mutated form of PublishTimesOut: the loop goes on with the next message.
PublishTimesOutGoesOn(p) ==
    /\ Sendable(p) /\ UsesJetStream(p) /\ ~Expired(p) /\ Fault
    /\ flight' = flight \cup {PublishRequest(p)}
    /\ at' = [at EXCEPT ![p] = @ + 1]
    /\ UNCHANGED <<deployment, stream, log, window, setupVars, pc, callerVars>>

\* JetStream does not answer in time: the call fails, the request may still arrive.
PublishTimesOut(p) ==
    /\ Sendable(p) /\ UsesJetStream(p) /\ ~Expired(p) /\ Fault
    /\ flight' = flight \cup {PublishRequest(p)}
    /\ Goto(p, "up")
    /\ UNCHANGED <<deployment, stream, log, window, setupVars, at, callerVars>>

\* Core NATS: the message leaves without an answer, or the connection is closed.
PublishCore(p) ==
    /\ Sendable(p) /\ ~UsesJetStream(p)
    /\ \/ /\ flight' = flight \cup {PublishRequest(p)}
          /\ at' = [at EXCEPT ![p] = @ + 1]
          /\ UNCHANGED <<pc, faults>>
       \/ /\ Fault /\ Goto(p, "up")
          /\ UNCHANGED <<flight, at>>
    /\ UNCHANGED <<deployment, stream, log, window, setupVars, callerVars>>

NextJob(p) ==
    /\ job' = [job EXCEPT ![p] = @ + 1]
    /\ calls' = [calls EXCEPT ![p] = 0]

\* Publish returns nil after the last message.
AcceptCall(p) ==
    /\ pc[p] = "publishing" /\ at[p] > Len(Batch(p))
    /\ accepted' = [accepted EXCEPT ![p] = @ \cup {job[p]}]
    /\ NextJob(p) /\ Goto(p, "up")
    /\ UNCHANGED <<deployment, serverVars, faults, setupVars, at, ctx>>

\* The caller (external) does not try again.
GiveUp(p) ==
    /\ pc[p] = "up" /\ calls[p] > 0
    /\ NextJob(p)
    /\ UNCHANGED <<deployment, serverVars, faults, setupVars, pc, at, ctx, accepted>>

-----------------------------------------------------------------------------
Server == \/ WindowPasses
          \/ \E n \in Name : TuneStream(n)
          \/ \E r \in flight : Arrive(r)

SetUp(p) == \/ Start(p) \/ RejectStream(p) \/ ReadStream(p) \/ Started(p) \/ Crash(p)
            \/ \E heard \in BOOLEAN : AddStream(p, heard) \/ UpdateStream(p, heard)

Call(p) == \/ \E c \in [deadline : BOOLEAN, done : BOOLEAN] : Publish(p, c)
           \/ CancelContext(p) \/ FailCall(p) \/ PublishMsg(p) \/ PublishTimesOut(p)
           \/ PublishCore(p) \/ AcceptCall(p) \/ GiveUp(p)

Next == Server \/ \E p \in Process : SetUp(p) \/ Call(p)

Spec == Init /\ [][Next]_vars

-----------------------------------------------------------------------------
(* Properties *)

Labels == {"down", "ensuring", "reading", "updating", "up", "publishing"}
LogEntry == [name : Name, window : Nat, dedup : Id \cup {Blank},
             process : Process, job : Nat, pos : Nat]
FlightEntry == [process : Process, job : Nat, pos : Nat, call : Nat,
                topic : Subject, dedup : Id \cup {Blank}]

\* Every variable has its type, and ensureStream has read a configuration before it
\* writes one back.
TypeOK ==
    /\ deployment \in Deployments
    /\ stream \in [Name -> {Nil} \cup [subjects : Seq(Subject), limits : Nat]]
    /\ log \in Seq(LogEntry) /\ flight \subseteq FlightEntry
    /\ window \in 0..MaxWindows /\ faults \in 0..MaxFaults
    /\ starts \in [Process -> 0..MaxStarts]
    /\ pc \in [Process -> Labels]
    /\ at \in [Process -> Nat \ {0}] /\ job \in [Process -> Nat \ {0}]
    /\ calls \in [Process -> 0..MaxCalls]
    /\ ctx \in [Process -> [deadline : BOOLEAN, done : BOOLEAN]]
    /\ accepted \in [Process -> SUBSET Nat]
    /\ info \in [Process -> {Nil} \cup [subjects : Seq(Subject), limits : Nat]]
    /\ \A p \in Process : pc[p] = "updating" => info[p] # Nil

\* Every process that configures the stream wants the same subjects.
Agreed(n) ==
    \A p, q \in deployment.jetStream :
        \A i \in DOMAIN Streams(p), j \in DOMAIN Streams(q) :
            /\ Valid(Streams(p)[i]) /\ Streams(p)[i].name = n
            /\ Valid(Streams(q)[j]) /\ Streams(q)[j].name = n
            => Trimmed(Streams(p)[i].subjects) = Trimmed(Streams(q)[j].subjects)

\* From the moment newNATSQueue has returned, each stream of the process binds the
\* subjects it asked for, whoever else starts, restarts or fails in ensureStream at
\* the same time, provided that all ask for the same subjects of that stream.
AgreedStreamsAreBound ==
    \A p \in deployment.jetStream :
        pc[p] \in {"up", "publishing"} =>
            \A i \in DOMAIN Streams(p) :
                LET e == Streams(p)[i]
                IN \/ stream[e.name] # Nil /\ stream[e.name].subjects = Trimmed(e.subjects)
                   \/ ~Agreed(e.name)

\* What an operator set in a stream survives the start of the services: ensureStream
\* takes a setting back only if it read the stream before the change and writes it
\* after, never because it forgets what it did not configure.
SettingsGoBackOnlyByRace ==
    [][\A n \in Name :
          stream[n] # Nil /\ stream'[n].limits < stream[n].limits =>
              \E p \in Process : /\ pc[p] = "updating" /\ Entry(p).name = n
                                 /\ info[p].limits < stream[n].limits]_vars

\* The message k of the job j of p, or another with its ID, is among the first i
\* messages of the log.
StoredBy(p, j, k, i) ==
    LET m == Jobs(p)[j].batch[k]
    IN /\ m # Unsendable
       /\ \E e \in 1..i : \/ log[e].process = p /\ log[e].job = j /\ log[e].pos = k
                          \/ m.id # Blank /\ log[e].dedup = m.id

\* A failed call of Publish leaves a prefix of its batch, and a repeated one goes on
\* from there: no message is stored before those that precede it in the batch.
StoredInOrder ==
    \A e \in DOMAIN log :
        log[e].process \in deployment.jetStream =>
            \A k \in 1..(log[e].pos - 1) : StoredBy(log[e].process, log[e].job, k, e)

\* When Publish returns nil every message of the call is stored, except for one whose
\* ID the stream already knew from another message.
AcceptedIsStored ==
    \A p \in deployment.jetStream : \A j \in accepted[p] :
        \A k \in DOMAIN Jobs(p)[j].batch : StoredBy(p, j, k, Len(log))

\* The Id of the message stored at the position e of the log.
StoredId(e) == Jobs(log[e].process)[log[e].job].batch[log[e].pos].id

\* However often a call is repeated, cut off or answered late, a message with an Id
\* is stored once in a stream as long as the deduplication window has not passed.
StoredOncePerWindow ==
    \A d, e \in DOMAIN log :
        /\ d # e /\ log[d].name = log[e].name /\ log[d].window = log[e].window
        /\ {log[d].process, log[e].process} \subseteq deployment.jetStream
        /\ StoredId(d) # Blank
        => StoredId(d) # StoredId(e)
=================================================================================
