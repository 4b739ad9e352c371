-------------------------------- MODULE Delivery --------------------------------
(***************************************************************************)
(* Pull subscriptions of one durable consumer (messaging/nats.go,          *)
(* sub_message.go, subscriber.go): the Fetch loop, the callback around the *)
(* handler, the terminal action of a SubMessage, and Subscribe and Close   *)
(* of the queue each worker runs in.                                       *)
(*                                                                         *)
(* The JetStream server is external: its consumer delivers a stored        *)
(* message, counts its deliveries, does not deliver it any more when an    *)
(* Ack or a Term arrives, and delivers it again after a Nak or when the    *)
(* AckWait of the delivery runs out.  The stream keeps every message.      *)
(* PullSubscribe creates the consumer where there is none, and Unsubscribe *)
(* of a subscription that created it deletes it: a consumer created after  *)
(* that starts again with the first message of the stream.                 *)
(***************************************************************************)
EXTENDS Integers, FiniteSets

CONSTANTS
    Message,    \* messages of the stream
    Malformed,  \* those whose bytes are not a SubMessage
    Poison,     \* those JSONEndpoint cannot decode into the request
    Worker,     \* processes: a natsQueue with one pull subscription each
    Closable,   \* the workers whose queue may be closed
    MaxFaults   \* bound on handler errors, lost verdicts, early expiries, failed
                \* requests of Subscribe and of Unsubscribe

ASSUME DeliveryAssumption ==
    /\ Malformed \subseteq Message /\ Poison \subseteq Message
    /\ Closable \subseteq Worker
    /\ MaxFaults \in Nat

VARIABLES
    entry,      \* server: unsent, stored (the consumer has yet to deliver it), ready
                \* (to deliver again), out (delivered) or gone (done with)
    consumer,   \* server: the durable consumer exists
    attempt,    \* server: deliveries of each message so far
    faults,     \* faults of the environment so far
    valid,      \* the NATS subscription of each worker can be fetched from
    listed,     \* it is in n.subscriptions
    connected,  \* n.conn is open
    closeCh,    \* n.closeCh is closed
    owner,      \* workers whose subscription created the consumer
    subPc,      \* where Subscribe is: idle, attach or create (the consumer was looked
                \* up), configure, add, returned
    closePc,    \* where Close is: idle, unsubscribe, disconnect, returned
    pc,         \* the goroutine of pullSubscribe
    job,        \* the delivery it is working on
    result,     \* what the handler returned
    done,       \* deliveries whose SubMessage.done is set
    aside,      \* deliveries a handler passed to another goroutine
    sending,    \* terminal actions past the CAS whose request is not yet made
    sent,       \* history: the terminal requests made
    decided,    \* history: deliveries that were handled or given up
    late        \* history: handlers each worker started after closeCh closed

serverVars  == <<entry, consumer, attempt, faults>>
queueVars   == <<valid, listed, connected, closeCh, owner, subPc, closePc>>
loopVars    == <<pc, job, result, late>>
verdictVars == <<done, aside, sending, sent, decided>>
vars == <<serverVars, queueVars, loopVars, verdictVars>>

Idle == [msg |-> "none", n |-> 0, to |-> "none"]

Init ==
    /\ entry = [m \in Message |-> "unsent"]
    /\ attempt = [m \in Message |-> 0]
    /\ faults = 0 /\ consumer = FALSE /\ owner = {}
    /\ valid = [w \in Worker |-> FALSE]
    /\ listed = [w \in Worker |-> FALSE]
    /\ connected = [w \in Worker |-> TRUE]
    /\ closeCh = [w \in Worker |-> FALSE]
    /\ subPc = [w \in Worker |-> "idle"]
    /\ closePc = [w \in Worker |-> "idle"]
    /\ pc = [w \in Worker |-> "off"]
    /\ job = [w \in Worker |-> Idle]
    /\ result = [w \in Worker |-> "ok"]
    /\ done = {} /\ aside = {} /\ sending = {} /\ sent = {} /\ decided = {}
    /\ late = [w \in Worker |-> 0]

Goto(w, label) == pc' = [pc EXCEPT ![w] = label]

\* The environment misbehaves once more.
Fault == faults < MaxFaults /\ faults' = faults + 1

-----------------------------------------------------------------------------
(* The JetStream server (external) *)

Store(m) ==
    /\ entry[m] = "unsent"
    /\ entry' = [entry EXCEPT ![m] = "stored"]
    /\ UNCHANGED <<consumer, attempt, faults, queueVars, loopVars, verdictVars>>

\* Some process still works on the message.  (A goroutine a handler left behind
\* does not count: its terminal action no longer has an effect.)
Held(m) == (\E w \in Worker : job[w].msg = m) \/ (\E s \in sending : s.d.msg = m)

\* AckWait runs out: at any time while somebody works on the message ...
ExpireEarly(m) ==
    /\ entry[m] = "out" /\ Held(m) /\ Fault
    /\ entry' = [entry EXCEPT ![m] = "ready"]
    /\ UNCHANGED <<consumer, attempt, queueVars, loopVars, verdictVars>>

\* ... and in the end when nobody does.
Expire(m) ==
    /\ entry[m] = "out" /\ ~Held(m)
    /\ entry' = [entry EXCEPT ![m] = "ready"]
    /\ UNCHANGED <<consumer, attempt, faults, queueVars, loopVars, verdictVars>>

\* An Ack or a Term removes the message, a Nak makes it available again; on a
\* message this consumer has not delivered they have no effect.
After(verdict, state) ==
    IF state = "stored" THEN state
    ELSE IF verdict # "nak" THEN "gone" ELSE IF state = "out" THEN "ready" ELSE state

CreateConsumer == consumer' = TRUE /\ UNCHANGED entry

\* With the consumer goes what it knew of the messages.
DeleteConsumer ==
    /\ consumer' = FALSE
    /\ entry' = [m \in Message |-> IF entry[m] = "unsent" THEN "unsent" ELSE "stored"]

-----------------------------------------------------------------------------
(* Terminal actions (SubMessage) *)

Request(d, verdict, goroutine) ==
    [d |-> d, verdict |-> verdict, goroutine |-> goroutine]

\* Mutated form of Finish: done is set, but not compared first.
FinishUnchecked(d, verdict, goroutine) ==
    /\ done' = done \cup {d}
    /\ sending' = sending \cup {Request(d, verdict, goroutine)}

\* finish: the first terminal action sets done, and makes its request after;
\* the others do nothing.
Finish(d, verdict, goroutine) ==
    IF d \in done
    THEN UNCHANGED <<done, sending>>
    ELSE /\ done' = done \cup {d}
         /\ sending' = sending \cup {Request(d, verdict, goroutine)}

\* The request leaves: it reaches the server, fails because the connection is
\* closed (which is only logged), or is lost on the way.
Send(s) ==
    /\ sending' = sending \ {s} /\ sent' = sent \cup {s}
    /\ \/ /\ connected[s.d.to]
          /\ entry' = [entry EXCEPT ![s.d.msg] = After(s.verdict, @)]
          /\ UNCHANGED faults
       \/ ~connected[s.d.to] /\ UNCHANGED <<entry, faults>>
       \/ connected[s.d.to] /\ Fault /\ UNCHANGED entry
    /\ UNCHANGED <<consumer, attempt, queueVars, loopVars, done, aside, decided>>

\* A goroutine the handler started acts on the message it was passed.
AsideActs(d) ==
    /\ d \in aside
    /\ aside' = aside \ {d}
    /\ \/ /\ Finish(d, "ack", "aside")
          /\ decided' = decided \cup {d}
          /\ UNCHANGED faults
       \/ Finish(d, "nak", "aside") /\ Fault /\ UNCHANGED decided
    /\ UNCHANGED <<entry, consumer, attempt, queueVars, loopVars, sent>>

-----------------------------------------------------------------------------
(* The goroutine of pullSubscribe, and the callback it runs *)

\* A terminal action of the loop's own goroutine is still being sent.
Busy(w) == \E s \in sending : s.goroutine = "loop" /\ s.d.to = w

\* Mutated form of LoopEnds: the close channel is not consulted.
NeverEnds(w) == FALSE

LoopEnds(w) == closeCh[w]

Check(w) ==
    /\ pc[w] = "check" /\ ~Busy(w)
    /\ Goto(w, IF LoopEnds(w) THEN "done" ELSE "fetch")
    /\ job' = [job EXCEPT ![w] = Idle]
    /\ UNCHANGED <<serverVars, queueVars, result, late, verdictVars>>

\* Fetch(1) returns a message.
FetchMessage(w) ==
    /\ pc[w] = "fetch" /\ valid[w] /\ connected[w] /\ consumer
    /\ \E m \in Message :
         /\ entry[m] \in {"stored", "ready"}
         /\ entry' = [entry EXCEPT ![m] = "out"]
         /\ attempt' = [attempt EXCEPT ![m] = @ + 1]
         /\ job' = [job EXCEPT ![w] = [msg |-> m, n |-> attempt[m] + 1, to |-> w]]
    /\ Goto(w, "callback")
    /\ UNCHANGED <<consumer, faults, queueVars, result, late, verdictVars>>

\* Mutated form of FetchFails: Fetch is tried again whatever it returned.
FetchRetries(w) == pc[w] = "fetch" /\ UNCHANGED vars

\* Mutated form of FetchFails: any error ends the loop.
FetchGivesUp(w) ==
    /\ pc[w] = "fetch"
    /\ Goto(w, "done")
    /\ UNCHANGED <<serverVars, queueVars, job, result, late, verdictVars>>

\* It times out, or fails; a bad subscription or a closed connection end the loop,
\* a consumer that was deleted does not.
FetchFails(w) ==
    /\ pc[w] = "fetch"
    /\ Goto(w, IF valid[w] /\ connected[w] THEN "check" ELSE "done")
    /\ UNCHANGED <<serverVars, queueVars, job, result, late, verdictVars>>

\* The callback decodes the message, and terminates it directly if it cannot.
CallbackTerm(w) ==
    /\ pc[w] = "callback" /\ job[w].msg \in Malformed
    /\ sending' = sending \cup {Request(job[w], "term", "loop")}
    /\ decided' = decided \cup {job[w]}
    /\ Goto(w, "check")
    /\ UNCHANGED <<serverVars, queueVars, job, result, late, done, aside, sent>>

StartHandler(w) ==
    /\ pc[w] = "callback" /\ job[w].msg \notin Malformed
    /\ Goto(w, "handler")
    /\ late' = [late EXCEPT ![w] = IF closeCh[w] THEN @ + 1 ELSE @]
    /\ UNCHANGED <<serverVars, queueVars, job, result, verdictVars>>

\* The handler calls Ack, Nak or Term itself.  JSONEndpoint calls Term when it
\* cannot decode the data, and nothing else.
HandlerActs(w) ==
    /\ pc[w] = "handler" /\ ~Busy(w) /\ job[w] \notin done
    /\ \/ /\ \E v \in IF job[w].msg \in Poison THEN {"term"} ELSE {"ack", "term"} :
               Finish(job[w], v, "loop")
          /\ decided' = decided \cup {job[w]}
          /\ UNCHANGED faults
       \/ /\ job[w].msg \notin Poison /\ Fault
          /\ Finish(job[w], "nak", "loop")
          /\ UNCHANGED decided
    /\ UNCHANGED <<entry, consumer, attempt, queueVars, loopVars, aside, sent>>

\* It passes the message to another goroutine.
HandOver(w) ==
    /\ pc[w] = "handler" /\ ~Busy(w) /\ job[w].msg \notin Poison
    /\ job[w] \notin done \cup aside
    /\ aside' = aside \cup {job[w]}
    /\ UNCHANGED <<serverVars, queueVars, loopVars, done, sending, sent, decided>>

\* It returns nil, or an error (always, from JSONEndpoint, after Term).
HandlerReturns(w) ==
    /\ pc[w] = "handler" /\ ~Busy(w)
    /\ \/ /\ job[w].msg \notin Poison
          /\ result' = [result EXCEPT ![w] = "ok"]
          /\ decided' = decided \cup {job[w]}
          /\ UNCHANGED faults
       \/ /\ IF job[w].msg \in Poison
             THEN job[w] \in done /\ UNCHANGED faults ELSE Fault
          /\ result' = [result EXCEPT ![w] = "error"]
          /\ UNCHANGED decided
    /\ Goto(w, "complete")
    /\ UNCHANGED <<entry, consumer, attempt, queueVars, job, late, done, aside, sending,
                   sent>>

\* Mutated form of Verdict: the handler's error is not consulted.
AlwaysAck(r) == "ack"

Verdict(r) == IF r = "ok" THEN "ack" ELSE "nak"

\* completeMessage: Done() is read, and the terminal action comes after it.
ReadDone(w) ==
    /\ pc[w] = "complete"
    /\ Goto(w, IF job[w] \in done THEN "check" ELSE "finish")
    /\ UNCHANGED <<serverVars, queueVars, job, result, late, verdictVars>>

Complete(w) ==
    /\ pc[w] = "finish"
    /\ Finish(job[w], Verdict(result[w]), "loop")
    /\ Goto(w, "check")
    /\ UNCHANGED <<serverVars, queueVars, job, result, late, aside, sent, decided>>

LoopStep(w) ==
    \/ Check(w) \/ FetchMessage(w) \/ FetchFails(w) \/ CallbackTerm(w)
    \/ StartHandler(w) \/ HandlerActs(w) \/ HandOver(w) \/ HandlerReturns(w)
    \/ ReadDone(w) \/ Complete(w)

-----------------------------------------------------------------------------
(* natsQueue.Subscribe and natsQueue.Close *)

\* A request of Subscribe fails, and Subscribe returns the error.
SubscribeFails(w) ==
    /\ IF connected[w] THEN Fault ELSE UNCHANGED faults
    /\ subPc' = [subPc EXCEPT ![w] = "returned"]

\* PullSubscribe looks the durable consumer up ...
LookUpConsumer(w) ==
    /\ subPc[w] = "idle"
    /\ \/ /\ connected[w]
          /\ subPc' = [subPc EXCEPT ![w] = IF consumer THEN "attach" ELSE "create"]
          /\ UNCHANGED faults
       \/ SubscribeFails(w)
    /\ UNCHANGED <<entry, consumer, attempt, valid, listed, connected, closeCh, owner,
                   closePc, loopVars, verdictVars>>

\* ... and creates it if it was not there.  The loop starts before the
\* subscription is configured.
PullSubscribe(w) ==
    /\ subPc[w] \in {"attach", "create"}
    /\ \/ /\ connected[w]
          /\ valid' = [valid EXCEPT ![w] = TRUE]
          /\ Goto(w, "check")
          /\ subPc' = [subPc EXCEPT ![w] = "configure"]
          /\ IF subPc[w] = "create"
             THEN CreateConsumer /\ owner' = owner \cup {w}
             ELSE UNCHANGED <<entry, consumer, owner>>
          /\ UNCHANGED faults
       \/ /\ SubscribeFails(w)
          /\ UNCHANGED entry
          /\ consumer' = consumer \/ consumer' = (connected[w] /\ subPc[w] = "create")
          /\ UNCHANGED <<valid, owner, pc>>
    /\ UNCHANGED <<attempt, listed, connected, closeCh, closePc, job, result, late,
                   verdictVars>>

\* Unsubscribe: the subscription is bad from then on.  While the connection is open
\* it deletes the consumer it created, unless that request fails.
Unsubscribe(w) ==
    /\ valid' = [valid EXCEPT ![w] = FALSE]
    /\ \/ valid[w] /\ w \in owner /\ DeleteConsumer
       \/ UNCHANGED <<entry, consumer>>

\* configureSubscription: a failure unsubscribes, which ends the loop.
Configure(w) ==
    /\ subPc[w] = "configure"
    /\ \/ /\ subPc' = [subPc EXCEPT ![w] = "add"]
          /\ UNCHANGED <<valid, entry, consumer, faults>>
       \/ /\ IF valid[w] THEN Fault ELSE UNCHANGED faults
          /\ subPc' = [subPc EXCEPT ![w] = "returned"]
          /\ Unsubscribe(w)
    /\ UNCHANGED <<attempt, listed, connected, closeCh, owner, closePc, loopVars,
                   verdictVars>>

AddSubscription(w) ==
    /\ subPc[w] = "add"
    /\ listed' = [listed EXCEPT ![w] = TRUE]
    /\ subPc' = [subPc EXCEPT ![w] = "returned"]
    /\ UNCHANGED <<serverVars, valid, connected, closeCh, owner, closePc, loopVars,
                   verdictVars>>

CloseSignal(w) ==
    /\ closePc[w] = "idle" /\ w \in Closable
    /\ closeCh' = [closeCh EXCEPT ![w] = TRUE]
    /\ closePc' = [closePc EXCEPT ![w] = "unsubscribe"]
    /\ UNCHANGED <<serverVars, valid, listed, connected, owner, subPc, loopVars,
                   verdictVars>>

\* Under subMu: the subscriptions listed by then.
CloseSubscriptions(w) ==
    /\ closePc[w] = "unsubscribe"
    /\ IF listed[w] THEN Unsubscribe(w) ELSE UNCHANGED <<valid, entry, consumer>>
    /\ listed' = [listed EXCEPT ![w] = FALSE]
    /\ closePc' = [closePc EXCEPT ![w] = "disconnect"]
    /\ UNCHANGED <<attempt, faults, connected, closeCh, owner, subPc, loopVars,
                   verdictVars>>

\* Mutated form of CloseConnection: the connection is left open.
LeaveConnection(w) ==
    /\ closePc[w] = "disconnect"
    /\ closePc' = [closePc EXCEPT ![w] = "returned"]
    /\ UNCHANGED <<serverVars, valid, listed, connected, closeCh, owner, subPc,
                   loopVars, verdictVars>>

\* conn.Close invalidates every subscription of the connection, and deletes no
\* consumer.
CloseConnection(w) ==
    /\ closePc[w] = "disconnect"
    /\ connected' = [connected EXCEPT ![w] = FALSE]
    /\ valid' = [valid EXCEPT ![w] = FALSE]
    /\ closePc' = [closePc EXCEPT ![w] = "returned"]
    /\ UNCHANGED <<serverVars, listed, closeCh, owner, subPc, loopVars, verdictVars>>

SubscribeStep(w) ==
    LookUpConsumer(w) \/ PullSubscribe(w) \/ Configure(w) \/ AddSubscription(w)

CloseStep(w) == CloseSignal(w) \/ CloseSubscriptions(w) \/ CloseConnection(w)

-----------------------------------------------------------------------------
Next ==
    \/ \E m \in Message : Store(m) \/ ExpireEarly(m) \/ Expire(m)
    \/ \E s \in sending : Send(s)
    \/ \E d \in aside : AsideActs(d)
    \/ \E w \in Worker : LoopStep(w) \/ SubscribeStep(w) \/ CloseStep(w)

Spec == Init /\ [][Next]_vars

\* Goroutines are scheduled, requests leave, handlers return, an unanswered
\* delivery expires, and a waiting Fetch gets a ready message in the end.
FairSpec ==
    /\ Spec
    /\ \A m \in Message : WF_vars(Expire(m))
    /\ \A w \in Worker :
         /\ WF_vars(Check(w)) /\ WF_vars(FetchFails(w)) /\ SF_vars(FetchMessage(w))
         /\ WF_vars(CallbackTerm(w) \/ StartHandler(w))
         /\ WF_vars(HandlerActs(w) /\ job[w].msg \in Poison)
         /\ WF_vars(HandlerReturns(w)) /\ WF_vars(ReadDone(w)) /\ WF_vars(Complete(w))
         /\ WF_vars(SubscribeStep(w))
         /\ WF_vars(CloseSubscriptions(w)) /\ WF_vars(CloseConnection(w))
    /\ WF_vars(\E s \in sending : Send(s))

-----------------------------------------------------------------------------
(* Properties *)

Delivered == [msg : Message, n : Nat \ {0}, to : Worker]
Requests == [d : Delivered, verdict : {"ack", "nak", "term"},
             goroutine : {"loop", "aside"}]

\* Types; the close channel and the connection follow the progress of Close.
TypeOK ==
    /\ entry \in [Message -> {"unsent", "stored", "ready", "out", "gone"}]
    /\ consumer \in BOOLEAN /\ owner \subseteq Worker
    /\ attempt \in [Message -> Nat] /\ faults \in 0..MaxFaults
    /\ valid \in [Worker -> BOOLEAN] /\ listed \in [Worker -> BOOLEAN]
    /\ connected \in [Worker -> BOOLEAN] /\ closeCh \in [Worker -> BOOLEAN]
    /\ subPc \in [Worker -> {"idle", "attach", "create", "configure", "add",
                              "returned"}]
    /\ closePc \in [Worker -> {"idle", "unsubscribe", "disconnect", "returned"}]
    /\ \A w \in Worker : /\ closeCh[w] = (closePc[w] # "idle")
                         /\ connected[w] = (closePc[w] # "returned")
    /\ pc \in [Worker -> {"off", "check", "fetch", "callback", "handler",
                          "complete", "finish", "done"}]
    /\ job \in [Worker -> Delivered \cup {Idle}]
    /\ \A w \in Worker : pc[w] \in {"callback", "handler", "complete", "finish"} =>
         job[w] \in Delivered /\ job[w].to = w
    /\ result \in [Worker -> {"ok", "error"}] /\ late \in [Worker -> Nat]
    /\ done \subseteq Delivered /\ aside \subseteq Delivered
    /\ decided \subseteq Delivered
    /\ sending \subseteq Requests /\ sent \subseteq Requests

\* "Ack / Nak / Term take effect once only" (README.md:58): one terminal request
\* per delivery, whichever goroutines act on it (sub_message.go:80-88).
OneVerdict ==
    \A s, t \in sending \cup sent : s.d = t.d => s = t

\* A message is acknowledged or terminated on the server only after the handler
\* of that very delivery succeeded or asked for it, or its bytes were found
\* malformed (nats.go:187-196, 248-257, subscriber.go:19).
VerdictsAreDecided ==
    \A s \in sending \cup sent : s.verdict # "nak" => s.d \in decided

\* The consumer implements the at-least-once queue: a stored message stays until
\* somebody decided about it, and comes back only with all the others, when the
\* consumer was deleted.
Queue == INSTANCE WorkQueue
    WITH queued  <- {m \in Message : entry[m] \in {"stored", "ready", "out"}},
         settled <- {m \in Message : entry[m] = "gone"},
         decided <- {d.msg : d \in decided}

WorkQueueSpec == Queue!Spec

\* Once closeCh is closed a loop starts at most one handler more: the one whose
\* message it was already fetching (nats.go:333-355).  Close does not wait for it.
OneHandlerAfterClose == \A w \in Worker : late[w] <= 1

\* Once Close has returned there is no subscription to fetch from, even one that
\* Subscribe opened or listed while Close ran (nats.go:259-266, 395-416).
ClosedQueueIsQuiet == \A w \in Worker : closePc[w] = "returned" => ~valid[w]

\* Every stored message is settled in the end, unless of every queue that stays
\* open Subscribe failed, or its subscription is left without a consumer: one that
\* another worker created and, unsubscribing, deleted (nats.go:326, 404).  The open
\* loop then fetches in vain, and nothing creates the consumer again (nats.go:341-349).
StoredMessagesSettle ==
    \A m \in Message : entry[m] \in {"stored", "ready"} ~>
        \/ entry[m] = "gone"
        \/ \A w \in Worker \ Closable :
              subPc[w] = "returned" /\ (valid[w] => ~consumer)

\* The loop of a closed queue ends.
CloseEndsLoops ==
    \A w \in Worker : closePc[w] = "returned" ~> pc[w] \in {"off", "done"}
=================================================================================
