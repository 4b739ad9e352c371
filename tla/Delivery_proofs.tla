------------------------------ MODULE Delivery_proofs ------------------------------
(***************************************************************************)
(* Proofs about Delivery, for any messages, workers and number of faults.  *)
(***************************************************************************)
EXTENDS Delivery, TLAPS

-----------------------------------------------------------------------------
(* Types *)

Labels == {"off", "check", "fetch", "callback", "handler", "complete", "finish",
           "done"}

\* A loop past Fetch has a delivery of its own.
JobsOK ==
    \A w \in Worker : pc[w] \in {"callback", "handler", "complete", "finish"} =>
        job[w] \in Delivered /\ job[w].to = w

LEMMA IdleIsNoDelivery == Idle \notin Delivered
BY DEF Idle, Delivered

LEMMA FinishType ==
    ASSUME TypeOK, NEW d \in Delivered, NEW v \in {"ack", "nak", "term"},
           NEW g \in {"loop", "aside"}, Finish(d, v, g)
    PROVE  done' \subseteq Delivered /\ sending' \subseteq Requests
<1>1. Request(d, v, g) \in Requests
  BY DEF Request, Requests
<1> QED
  BY <1>1 DEF Finish, TypeOK

LEMMA TypeInit == Init => TypeOK
<1> SUFFICES ASSUME Init PROVE TypeOK
  OBVIOUS
<1> USE DeliveryAssumption DEF Init
<1>1. faults \in 0..MaxFaults /\ attempt \in [Message -> Nat]
  OBVIOUS
<1>2. \A w \in Worker : pc[w] = "off" /\ job[w] = Idle
  OBVIOUS
<1> QED
  BY <1>1, <1>2 DEF TypeOK

\* Assigning to one element keeps the type of a function.
LEMMA UpdateType ==
    ASSUME NEW S, NEW T, NEW f \in [S -> T], NEW x \in S, NEW v \in T
    PROVE  [f EXCEPT ![x] = v] \in [S -> T]
OBVIOUS

SubLabels == {"idle", "attach", "create", "configure", "add", "returned"}
States == {"unsent", "stored", "ready", "out", "gone"}

LEMMA DeleteType ==
    ASSUME TypeOK, DeleteConsumer \/ UNCHANGED <<entry, consumer>>
    PROVE  entry' \in [Message -> States] /\ consumer' \in BOOLEAN
<1>1. CASE DeleteConsumer
  <2>1. /\ entry' = [m \in Message |-> IF entry[m] = "unsent" THEN "unsent" ELSE "stored"]
        /\ consumer' = FALSE
    BY <1>1 DEF DeleteConsumer
  <2> QED
    BY <2>1 DEF States
<1>2. CASE UNCHANGED <<entry, consumer>>
  BY <1>2 DEF TypeOK, States
<1> QED
  BY <1>1, <1>2

LEMMA ConfigureType ==
    ASSUME TypeOK, NEW w \in Worker, Configure(w)
    PROVE  /\ valid' \in [Worker -> BOOLEAN]
           /\ subPc' \in [Worker -> SubLabels]
           /\ faults' \in 0..MaxFaults
           /\ entry' \in [Message -> States] /\ consumer' \in BOOLEAN
<1> DEFINE Labs == SubLabels
<1>1. valid \in [Worker -> BOOLEAN] /\ subPc \in [Worker -> Labs]
  BY DEF TypeOK, SubLabels
<1>2. /\ valid' = valid \/ valid' = [valid EXCEPT ![w] = FALSE]
      /\ subPc' = [subPc EXCEPT ![w] = "add"] \/ subPc' = [subPc EXCEPT ![w] = "returned"]
  BY DEF Configure, Unsubscribe
<1>3. valid' \in [Worker -> BOOLEAN]
  BY <1>1, <1>2, UpdateType, Zenon
<1>4. "add" \in Labs /\ "returned" \in Labs
  BY DEF SubLabels
<1>5. subPc' \in [Worker -> Labs]
  <2> HIDE DEF Labs
  <2> QED
    BY <1>1, <1>2, <1>4, UpdateType, Zenon
<1>6. faults' \in 0..MaxFaults
  BY DeliveryAssumption DEF Configure, Fault, TypeOK
<1>7. entry' \in [Message -> States] /\ consumer' \in BOOLEAN
  <2>1. DeleteConsumer \/ UNCHANGED <<entry, consumer>>
    BY DEF Configure, Unsubscribe
  <2> QED
    BY <2>1, DeleteType
<1> QED
  BY <1>3, <1>5, <1>6, <1>7

\* What a step of Close may disturb.
CloseTyped ==
    /\ valid \in [Worker -> BOOLEAN] /\ listed \in [Worker -> BOOLEAN]
    /\ connected \in [Worker -> BOOLEAN] /\ closeCh \in [Worker -> BOOLEAN]
    /\ closePc \in [Worker -> {"idle", "unsubscribe", "disconnect", "returned"}]
    /\ \A w \in Worker : /\ closeCh[w] = (closePc[w] # "idle")
                         /\ connected[w] = (closePc[w] # "returned")

LEMMA CloseType ==
    ASSUME CloseTyped, NEW w \in Worker, CloseStep(w)
    PROVE  CloseTyped'
<1>1. CASE CloseSignal(w)
  <2>1. /\ closeCh' = [closeCh EXCEPT ![w] = TRUE]
        /\ closePc' = [closePc EXCEPT ![w] = "unsubscribe"] /\ closePc[w] = "idle"
        /\ valid' = valid /\ listed' = listed /\ connected' = connected
    BY <1>1 DEF CloseSignal, queueVars
  <2> QED
    BY <2>1, Zenon DEF CloseTyped
<1>2. CASE CloseSubscriptions(w)
  <2>1. /\ closePc' = [closePc EXCEPT ![w] = "disconnect"]
        /\ closePc[w] = "unsubscribe"
        /\ closeCh' = closeCh /\ connected' = connected
    BY <1>2 DEF CloseSubscriptions
  <2>2. valid' \in [Worker -> BOOLEAN] /\ listed' \in [Worker -> BOOLEAN]
    <3>1. /\ valid' = valid \/ valid' = [valid EXCEPT ![w] = FALSE]
          /\ listed' = [listed EXCEPT ![w] = FALSE]
      BY <1>2 DEF CloseSubscriptions, Unsubscribe
    <3> QED
      BY <3>1, UpdateType, Zenon DEF CloseTyped
  <2> QED
    BY <2>1, <2>2, Zenon DEF CloseTyped
<1>3. CASE CloseConnection(w)
  <2>1. /\ closePc' = [closePc EXCEPT ![w] = "returned"] /\ closePc[w] = "disconnect"
        /\ connected' = [connected EXCEPT ![w] = FALSE]
        /\ valid' = [valid EXCEPT ![w] = FALSE]
        /\ closeCh' = closeCh /\ listed' = listed
    BY <1>3 DEF CloseConnection
  <2> QED
    BY <2>1, Zenon DEF CloseTyped
<1> QED
  BY <1>1, <1>2, <1>3 DEF CloseStep

\* Whoever creates the durable consumer owns it; nobody else becomes an owner.
LEMMA OwnerType ==
    ASSUME TypeOK, NEW w \in Worker,
           consumer' = TRUE \/ consumer' = consumer,
           owner' = owner \cup {w} \/ owner' = owner
    PROVE  consumer' \in BOOLEAN /\ owner' \subseteq Worker
<1>1. consumer \in BOOLEAN /\ owner \subseteq Worker
  BY DEF TypeOK
<1>2. consumer' \in BOOLEAN
  BY <1>1
<1>3. owner' \subseteq Worker
  BY <1>1
<1> QED
  BY <1>2, <1>3

LEMMA TypeStep == TypeOK /\ [Next]_vars => TypeOK'
<1> SUFFICES ASSUME TypeOK, [Next]_vars PROVE TypeOK'
  OBVIOUS
<1> USE DeliveryAssumption, IdleIsNoDelivery
    DEF TypeOK, serverVars, queueVars, loopVars, verdictVars, Fault, Goto
<1>1. ASSUME NEW m \in Message, Store(m) \/ ExpireEarly(m) \/ Expire(m)
      PROVE  TypeOK'
  BY <1>1 DEF Store, ExpireEarly, Expire
<1>2. ASSUME NEW s \in sending, Send(s) PROVE TypeOK'
  <2>1. s.d.msg \in Message /\ s.d.to \in Worker /\ s \in Requests
    BY DEF Requests, Delivered
  <2>2. entry' \in [Message -> {"unsent", "stored", "ready", "out", "gone"}]
    BY <1>2, <2>1 DEF Send, After
  <2> QED
    BY <1>2, <2>1, <2>2 DEF Send
<1>3. ASSUME NEW d \in aside, AsideActs(d) PROVE TypeOK'
  <2>1. done' \subseteq Delivered /\ sending' \subseteq Requests
    BY <1>3, FinishType DEF AsideActs
  <2> QED
    BY <1>3, <2>1 DEF AsideActs
<1>4. ASSUME NEW w \in Worker, LoopStep(w) PROVE TypeOK'
  <2>1. CASE Check(w)
    BY <2>1 DEF Check
  <2>2. CASE FetchMessage(w)
    <3>1. PICK m \in Message :
            /\ entry' = [entry EXCEPT ![m] = "out"]
            /\ attempt' = [attempt EXCEPT ![m] = @ + 1]
            /\ job' = [job EXCEPT ![w] = [msg |-> m, n |-> attempt[m] + 1, to |-> w]]
      BY <2>2 DEF FetchMessage
    <3>2. [msg |-> m, n |-> attempt[m] + 1, to |-> w] \in Delivered
      <4>1. attempt[m] + 1 \in Nat \ {0}
        BY <3>1
      <4> QED
        BY <4>1 DEF Delivered
    <3>a. pc' = [pc EXCEPT ![w] = "callback"]
      BY <2>2 DEF FetchMessage
    <3>b. job'[w] = [msg |-> m, n |-> attempt[m] + 1, to |-> w]
      BY <3>1
    <3>3. job'[w] \in Delivered /\ job'[w].to = w /\ pc'[w] = "callback"
      BY <3>a, <3>b, <3>2
    <3>4. \A x \in Worker : x # w => job'[x] = job[x] /\ pc'[x] = pc[x]
      BY <2>2, <3>1 DEF FetchMessage
    <3>5. entry' \in [Message -> {"unsent", "stored", "ready", "out", "gone"}]
          /\ attempt' \in [Message -> Nat] /\ job' \in [Worker -> Delivered \cup {Idle}]
          /\ pc' \in [Worker -> Labels]
      BY <3>a, <3>1, <3>2 DEF Labels
    <3>6. JobsOK'
      BY <3>3, <3>4 DEF JobsOK
    <3> QED
      BY <2>2, <3>5, <3>6 DEF FetchMessage, JobsOK, Labels
  <2>3. CASE FetchFails(w)
    BY <2>3 DEF FetchFails
  <2>4. CASE CallbackTerm(w)
    BY <2>4 DEF CallbackTerm, Request, Requests
  <2>5. CASE StartHandler(w)
    BY <2>5 DEF StartHandler
  <2>6. CASE HandlerActs(w)
    <3>1. job[w] \in Delivered
      BY <2>6 DEF HandlerActs
    <3>2. done' \subseteq Delivered /\ sending' \subseteq Requests
      BY <2>6, <3>1, FinishType DEF HandlerActs
    <3> QED
      BY <2>6, <3>1, <3>2 DEF HandlerActs
  <2>7. CASE HandOver(w)
    BY <2>7 DEF HandOver
  <2>8. CASE HandlerReturns(w)
    BY <2>8 DEF HandlerReturns
  <2>9. CASE ReadDone(w)
    BY <2>9 DEF ReadDone
  <2>10. CASE Complete(w)
    <3>1. job[w] \in Delivered /\ Verdict(result[w]) \in {"ack", "nak", "term"}
      BY <2>10 DEF Complete, Verdict
    <3>2. done' \subseteq Delivered /\ sending' \subseteq Requests
      BY <2>10, <3>1, FinishType DEF Complete
    <3> QED
      BY <2>10, <3>1, <3>2 DEF Complete
  <2> QED
    BY <1>4, <2>1, <2>2, <2>3, <2>4, <2>5, <2>6, <2>7, <2>8, <2>9, <2>10
    DEF LoopStep
<1>5. ASSUME NEW w \in Worker, SubscribeStep(w) PROVE TypeOK'
  <2> DEFINE Kept == UNCHANGED <<attempt, listed, connected, closeCh, closePc, job,
                                 result, late, verdictVars>>
  <2>k. ASSUME Kept, valid' \in [Worker -> BOOLEAN], subPc' \in [Worker -> SubLabels],
               faults' \in 0..MaxFaults, entry' \in [Message -> States],
               consumer' \in BOOLEAN, owner' \subseteq Worker,
               pc' = pc \/ pc' = [pc EXCEPT ![w] = "check"]
        PROVE  TypeOK'
    <3>1. pc' \in [Worker -> Labels] /\ JobsOK'
      BY <2>k DEF Labels, JobsOK
    <3> QED
      BY <2>k, <3>1, SMTT(30) DEF JobsOK, Labels, SubLabels, States
  <2>f. ASSUME SubscribeFails(w)
        PROVE  subPc' \in [Worker -> SubLabels] /\ faults' \in 0..MaxFaults
    BY <2>f DEF SubscribeFails, SubLabels
  <2>e. entry \in [Message -> States] /\ subPc \in [Worker -> SubLabels]
    BY DEF States, SubLabels
  <2>0. CASE LookUpConsumer(w)
    <3>1. subPc' \in [Worker -> SubLabels] /\ faults' \in 0..MaxFaults
      BY <2>0, <2>e, <2>f DEF LookUpConsumer, SubLabels
    <3>2. Kept /\ UNCHANGED <<valid, entry, consumer, owner, pc>>
      BY <2>0 DEF LookUpConsumer
    <3> QED
      BY <2>e, <2>k, <3>1, <3>2
  <2>1. CASE PullSubscribe(w)
    <3>1. Kept
      BY <2>1 DEF PullSubscribe
    <3>2. CASE SubscribeFails(w) /\ UNCHANGED <<entry, valid, owner, pc>>
               /\ consumer' \in BOOLEAN
      BY <2>e, <2>f, <2>k, <3>1, <3>2
    <3>3. CASE ~(SubscribeFails(w) /\ UNCHANGED <<entry, valid, owner, pc>>
                 /\ consumer' \in BOOLEAN)
      <4>1. /\ valid' = [valid EXCEPT ![w] = TRUE] /\ pc' = [pc EXCEPT ![w] = "check"]
            /\ subPc' = [subPc EXCEPT ![w] = "configure"]
            /\ UNCHANGED <<entry, faults>>
            /\ consumer' = TRUE \/ consumer' = consumer
            /\ owner' = owner \cup {w} \/ owner' = owner
        BY <2>1, <3>3 DEF PullSubscribe, CreateConsumer
      <4>2. consumer' \in BOOLEAN /\ owner' \subseteq Worker
        BY <4>1, OwnerType
      <4>3. "configure" \in SubLabels
        BY DEF SubLabels
      <4>4. valid' \in [Worker -> BOOLEAN] /\ subPc' \in [Worker -> SubLabels]
        BY <4>1, <4>3, <2>e, UpdateType, Zenon DEF TypeOK
      <4> QED
        BY <2>e, <2>k, <3>1, <4>1, <4>2, <4>4
    <3> QED
      BY <3>2, <3>3
  <2>2. CASE Configure(w)
    <3>1. /\ valid' \in [Worker -> BOOLEAN] /\ subPc' \in [Worker -> SubLabels]
          /\ faults' \in 0..MaxFaults
          /\ entry' \in [Message -> States] /\ consumer' \in BOOLEAN
      BY <2>2, ConfigureType
    <3>2. Kept /\ UNCHANGED <<owner, pc>>
      BY <2>2 DEF Configure
    <3> QED
      BY <2>k, <3>1, <3>2
  <2>3. CASE AddSubscription(w)
    BY <2>3 DEF AddSubscription
  <2> QED
    BY <1>5, <2>0, <2>1, <2>2, <2>3 DEF SubscribeStep
<1>6. ASSUME NEW w \in Worker, CloseStep(w) PROVE TypeOK'
  <2>1. CloseTyped'
    BY <1>6, CloseType, Zenon DEF CloseTyped
  <2>2. /\ UNCHANGED <<attempt, faults, owner, subPc, loopVars, verdictVars>>
        /\ DeleteConsumer \/ UNCHANGED <<entry, consumer>>
    BY <1>6 DEF CloseStep, CloseSignal, CloseSubscriptions, CloseConnection, Unsubscribe
  <2>3. entry' \in [Message -> States] /\ consumer' \in BOOLEAN
    BY <2>2, DeleteType
  <2> QED
    BY <2>1, <2>2, <2>3 DEF CloseTyped, States
<1>7. CASE UNCHANGED vars
  BY <1>7 DEF vars
<1> QED
  BY <1>1, <1>2, <1>3, <1>4, <1>5, <1>6, <1>7 DEF Next

\* Every variable keeps its type, and the close channel and the connection
\* follow the progress of Close (nats.go:390-419).
THEOREM TypeCorrect == Spec => []TypeOK
BY TypeInit, TypeStep, PTL DEF Spec
-----------------------------------------------------------------------------
(* One terminal request per delivery *)

\* No delivery is newer than its message's count: the next one is fresh.
Counted ==
    /\ \A w \in Worker : job[w] # Idle => job[w].n <= attempt[job[w].msg]
    /\ \A d \in done \cup aside : d.n <= attempt[d.msg]
    /\ \A s \in sending \cup sent : s.d.n <= attempt[s.d.msg]

\* A delivery the callback has not looked at yet has had no request; only
\* well-formed messages reach a handler, and Finish marks what it requests.
Untouched ==
    /\ \A w \in Worker : pc[w] = "callback" =>
         /\ job[w] \notin done \cup aside
         /\ \A s \in sending \cup sent : s.d # job[w]
    /\ \A w \in Worker : pc[w] \in {"handler", "complete", "finish"} =>
         job[w].msg \notin Malformed
    /\ \A d \in done \cup aside : d.msg \notin Malformed
    /\ \A s \in sending \cup sent : s.d \in done \/ s.d.msg \in Malformed

\* A handler that returned nil was recorded.
ResultsRecorded ==
    \A w \in Worker : pc[w] \in {"complete", "finish"} /\ result[w] = "ok"
        => job[w] \in decided

VerdictInv == Counted /\ Untouched /\ ResultsRecorded /\ OneVerdict /\ VerdictsAreDecided

LEMMA VerdictInit == Init => VerdictInv
<1> SUFFICES ASSUME Init PROVE VerdictInv
  OBVIOUS
<1> QED
  BY DEF Init, VerdictInv, Counted, Untouched, ResultsRecorded, OneVerdict,
     VerdictsAreDecided

\* What Finish keeps, called on a delivery that is not being decoded.
LEMMA FinishKeeps ==
    ASSUME TypeOK, VerdictInv, NEW d \in Delivered, NEW g \in {"loop", "aside"},
           NEW v \in {"ack", "nak", "term"}, Finish(d, v, g),
           d.n <= attempt[d.msg], d.msg \notin Malformed,
           \A w \in Worker : pc[w] = "callback" => job[w] # d,
           sent' = sent, v # "nak" => d \in decided', decided \subseteq decided'
    PROVE  /\ OneVerdict' /\ VerdictsAreDecided'
           /\ \A e \in done' : e \in done \/ e = d
           /\ \A s \in (sending \cup sent)' : s \in sending \cup sent \/ s.d = d
           /\ \A s \in (sending \cup sent)' : s.d \in done' \/ s.d.msg \in Malformed
<1> USE DEF VerdictInv, Untouched
<1>1. CASE d \in done
  BY <1>1 DEF Finish, OneVerdict, VerdictsAreDecided
<1>2. CASE d \notin done
  <2>1. /\ done' = done \cup {d}
        /\ sending' = sending \cup {Request(d, v, g)}
    BY <1>2 DEF Finish
  <2>2. \A s \in sending \cup sent : s.d # d
    BY <1>2
  <2>3. Request(d, v, g).d = d /\ Request(d, v, g).verdict = v
    BY DEF Request
  <2>4. OneVerdict'
    BY <2>1, <2>2, <2>3 DEF OneVerdict
  <2>5. VerdictsAreDecided'
    BY <2>1, <2>3 DEF VerdictsAreDecided
  <2> QED
    BY <2>1, <2>3, <2>4, <2>5
<1> QED
  BY <1>1, <1>2

LEMMA VerdictStep == TypeOK /\ VerdictInv /\ [Next]_vars => VerdictInv'
<1> SUFFICES ASSUME TypeOK, VerdictInv, [Next]_vars PROVE VerdictInv'
  OBVIOUS
<1>t. TypeOK'
  BY TypeStep
<1> USE DEF serverVars, queueVars, loopVars, verdictVars, Goto
<1>k. ASSUME UNCHANGED <<attempt, pc, job, result, done, aside, sending, sent, decided>>
      PROVE  VerdictInv'
  BY <1>k DEF VerdictInv, Counted, Untouched, ResultsRecorded, OneVerdict,
     VerdictsAreDecided
<1>1. ASSUME NEW m \in Message, Store(m) \/ ExpireEarly(m) \/ Expire(m)
      PROVE  VerdictInv'
  BY <1>1, <1>k DEF Store, ExpireEarly, Expire
<1>2. ASSUME NEW s \in sending, Send(s) PROVE VerdictInv'
  <2>1. (sending \cup sent)' = sending \cup sent
    BY <1>2 DEF Send
  <2>2. UNCHANGED <<attempt, pc, job, result, done, aside, decided>>
    BY <1>2 DEF Send
  <2> QED
    BY <2>1, <2>2 DEF VerdictInv, Counted, Untouched, ResultsRecorded, OneVerdict,
       VerdictsAreDecided
<1>3. ASSUME NEW d \in aside, AsideActs(d) PROVE VerdictInv'
  <2>1. PICK v \in {"ack", "nak"} :
          Finish(d, v, "aside") /\ (v # "nak" => d \in decided')
    BY <1>3 DEF AsideActs
  <2>2. /\ d \in Delivered /\ d.n <= attempt[d.msg] /\ d.msg \notin Malformed
        /\ \A w \in Worker : pc[w] = "callback" => job[w] # d
    BY DEF TypeOK, VerdictInv, Counted, Untouched
  <2>3. UNCHANGED <<attempt, pc, job, result, sent>> /\ aside' \subseteq aside
        /\ decided \subseteq decided'
    BY <1>3 DEF AsideActs
  <2>4. /\ OneVerdict' /\ VerdictsAreDecided'
        /\ \A e \in done' : e \in done \/ e = d
        /\ \A s \in (sending \cup sent)' : s \in sending \cup sent \/ s.d = d
        /\ \A s \in (sending \cup sent)' : s.d \in done' \/ s.d.msg \in Malformed
    BY <2>1, <2>2, <2>3, FinishKeeps
  <2> QED
    BY <2>2, <2>3, <2>4 DEF VerdictInv, Counted, Untouched, ResultsRecorded
<1>4. ASSUME NEW w \in Worker, LoopStep(w) PROVE VerdictInv'
  <2> USE <1>t
  <2>1. CASE Check(w)
    <3>1. /\ UNCHANGED <<attempt, result, done, aside, sending, sent, decided>>
          /\ pc'[w] \in {"done", "fetch"} /\ job'[w] = Idle
          /\ \A x \in Worker : x # w => pc'[x] = pc[x] /\ job'[x] = job[x]
      BY <2>1 DEF Check, TypeOK
    <3> QED
      BY <3>1 DEF VerdictInv, Counted, Untouched, ResultsRecorded, OneVerdict,
         VerdictsAreDecided
  <2>2. CASE FetchMessage(w)
    <3>1. PICK m \in Message :
            /\ attempt' = [attempt EXCEPT ![m] = @ + 1]
            /\ job' = [job EXCEPT ![w] = [msg |-> m, n |-> attempt[m] + 1, to |-> w]]
      BY <2>2 DEF FetchMessage
    <3>2. /\ UNCHANGED <<result, done, aside, sending, sent, decided>>
          /\ pc' = [pc EXCEPT ![w] = "callback"]
      BY <2>2 DEF FetchMessage
    <3>3. /\ \A x \in Message : attempt'[x] \in Nat /\ attempt[x] <= attempt'[x]
          /\ attempt'[m] = attempt[m] + 1
      BY <3>1 DEF TypeOK
    <3>4. /\ job'[w].msg = m /\ job'[w].n = attempt[m] + 1 /\ pc'[w] = "callback"
          /\ \A x \in Worker : x # w => pc'[x] = pc[x] /\ job'[x] = job[x]
      BY <3>1, <3>2 DEF TypeOK
    <3>5. \A d \in Delivered : d.n <= attempt[d.msg] => d # job'[w] /\ d.n <= attempt'[d.msg]
      BY <3>3, <3>4 DEF Delivered, TypeOK
    <3>6. /\ \A d \in done \cup aside : d \in Delivered
          /\ \A s \in sending \cup sent : s.d \in Delivered
          /\ \A x \in Worker : job[x] # Idle => job[x] \in Delivered
      BY DEF TypeOK, Requests
    <3>7. Counted'
      BY <3>2, <3>3, <3>4, <3>5, <3>6 DEF VerdictInv, Counted
    <3>8. Untouched'
      BY <3>2, <3>4, <3>5, <3>6 DEF VerdictInv, Counted, Untouched
    <3> QED
      BY <3>2, <3>4, <3>7, <3>8 DEF VerdictInv, ResultsRecorded, OneVerdict,
         VerdictsAreDecided
  <2>3. CASE FetchFails(w)
    BY <2>3 DEF FetchFails, TypeOK, VerdictInv, Counted, Untouched,
       ResultsRecorded, OneVerdict, VerdictsAreDecided
  <2>4. CASE CallbackTerm(w)
    <3>1. /\ sending' = sending \cup {Request(job[w], "term", "loop")}
          /\ decided' = decided \cup {job[w]} /\ pc'[w] = "check"
          /\ \A x \in Worker : x # w => pc'[x] = pc[x]
          /\ UNCHANGED <<attempt, job, result, done, aside, sent>>
      BY <2>4 DEF CallbackTerm, TypeOK
    <3>2. /\ Request(job[w], "term", "loop").d = job[w]
          /\ \A s \in sending \cup sent : s.d # job[w]
          /\ job[w].msg \in Malformed /\ job[w] \in Delivered /\ job[w].to = w
      BY <2>4 DEF CallbackTerm, Request, VerdictInv, Untouched, TypeOK
    <3>3. job[w].n <= attempt[job[w].msg]
      BY <3>2, IdleIsNoDelivery DEF VerdictInv, Counted
    <3>4. OneVerdict' /\ VerdictsAreDecided'
      BY <3>1, <3>2 DEF VerdictInv, OneVerdict, VerdictsAreDecided
    <3>5. Counted'
      BY <3>1, <3>2, <3>3 DEF VerdictInv, Counted
    <3>6. \A x \in Worker : pc'[x] = "callback" => x # w /\ job[x].to = x
      BY <3>1 DEF TypeOK
    <3>7. Untouched'
      BY <3>1, <3>2, <3>6 DEF VerdictInv, Untouched
    <3> QED
      BY <3>1, <3>4, <3>5, <3>7 DEF VerdictInv, ResultsRecorded
  <2>5. CASE StartHandler(w)
    BY <2>5 DEF StartHandler, TypeOK, VerdictInv, Counted, Untouched,
       ResultsRecorded, OneVerdict, VerdictsAreDecided
  <2>6. ASSUME NEW v \in {"ack", "nak", "term"}, Finish(job[w], v, "loop"),
               pc[w] \in {"handler", "finish"}, pc'[w] # "callback",
               pc'[w] \in {pc[w], "check"},
               \A x \in Worker : x # w => pc'[x] = pc[x],
               UNCHANGED <<attempt, job, result, aside, sent>>,
               v # "nak" => job[w] \in decided', decided \subseteq decided'
        PROVE  VerdictInv'
    <3>1. /\ job[w] \in Delivered /\ job[w].to = w /\ job[w].msg \notin Malformed
          /\ \A x \in Worker : pc[x] = "callback" => job[x].to = x /\ x # w
      BY <2>6 DEF TypeOK, VerdictInv, Untouched
    <3>2. job[w].n <= attempt[job[w].msg]
      BY <3>1, IdleIsNoDelivery DEF VerdictInv, Counted
    <3>3. \A x \in Worker : pc[x] = "callback" => job[x] # job[w]
      BY <3>1
    <3>4. /\ OneVerdict' /\ VerdictsAreDecided'
          /\ \A e \in done' : e \in done \/ e = job[w]
          /\ \A s \in (sending \cup sent)' : s \in sending \cup sent \/ s.d = job[w]
          /\ \A s \in (sending \cup sent)' : s.d \in done' \/ s.d.msg \in Malformed
      BY <2>6, <3>1, <3>2, <3>3, FinishKeeps
    <3>5. Counted'
      BY <2>6, <3>2, <3>4 DEF VerdictInv, Counted
    <3>6. Untouched'
      BY <2>6, <3>1, <3>3, <3>4 DEF VerdictInv, Untouched
    <3> QED
      BY <2>6, <3>4, <3>5, <3>6 DEF VerdictInv, ResultsRecorded
  <2>7. CASE HandlerActs(w)
    <3>1. PICK v \in {"ack", "nak", "term"} :
            Finish(job[w], v, "loop") /\ (v # "nak" => job[w] \in decided')
      BY <2>7 DEF HandlerActs
    <3>2. /\ pc[w] = "handler" /\ pc' = pc /\ decided \subseteq decided'
          /\ UNCHANGED <<attempt, job, result, aside, sent>>
      BY <2>7 DEF HandlerActs
    <3> QED
      BY <2>6, <3>1, <3>2
  <2>8. CASE HandOver(w)
    <3>1. /\ aside' = aside \cup {job[w]} /\ pc[w] = "handler"
          /\ UNCHANGED <<attempt, pc, job, result, done, sending, sent, decided>>
      BY <2>8 DEF HandOver
    <3>2. /\ job[w] \in Delivered /\ job[w].to = w /\ job[w].msg \notin Malformed
          /\ \A x \in Worker : pc[x] = "callback" => job[x].to = x /\ x # w
      BY <3>1 DEF TypeOK, VerdictInv, Untouched
    <3>3. job[w].n <= attempt[job[w].msg]
      BY <3>2, IdleIsNoDelivery DEF VerdictInv, Counted
    <3> QED
      BY <3>1, <3>2, <3>3 DEF VerdictInv, Counted, Untouched, ResultsRecorded,
         OneVerdict, VerdictsAreDecided
  <2>9. CASE HandlerReturns(w)
    <3>1. /\ pc' = [pc EXCEPT ![w] = "complete"] /\ pc[w] = "handler"
          /\ UNCHANGED <<attempt, job, done, aside, sending, sent>>
          /\ decided \subseteq decided'
      BY <2>9 DEF HandlerReturns
    <3>2. /\ \A x \in Worker : x # w => result'[x] = result[x]
          /\ result'[w] = "ok" => job[w] \in decided'
      BY <2>9 DEF HandlerReturns, TypeOK
    <3> QED
      BY <3>1, <3>2 DEF TypeOK, VerdictInv, Counted, Untouched, ResultsRecorded,
         OneVerdict, VerdictsAreDecided
  <2>10. CASE ReadDone(w)
    BY <2>10 DEF ReadDone, TypeOK, VerdictInv, Counted, Untouched,
       ResultsRecorded, OneVerdict, VerdictsAreDecided
  <2>11. CASE Complete(w)
    <3>1. /\ Finish(job[w], Verdict(result[w]), "loop") /\ pc[w] = "finish"
          /\ pc' = [pc EXCEPT ![w] = "check"]
          /\ UNCHANGED <<attempt, job, result, aside, sent, decided>>
      BY <2>11 DEF Complete
    <3>2. Verdict(result[w]) # "nak" => job[w] \in decided
      BY <3>1 DEF Verdict, VerdictInv, ResultsRecorded
    <3>3. Verdict(result[w]) \in {"ack", "nak", "term"}
      BY DEF Verdict
    <3>4. pc'[w] = "check" /\ \A x \in Worker : x # w => pc'[x] = pc[x]
      BY <3>1 DEF TypeOK
    <3> QED
      BY <2>6, <3>1, <3>2, <3>3, <3>4
  <2> QED
    BY <1>4, <2>1, <2>2, <2>3, <2>4, <2>5, <2>7, <2>8, <2>9, <2>10, <2>11
    DEF LoopStep
<1>5. ASSUME NEW w \in Worker, SubscribeStep(w) PROVE VerdictInv'
  <2>1. CASE PullSubscribe(w)
    <3>1. /\ UNCHANGED <<attempt, job, result, done, aside, sending, sent, decided>>
          /\ \A x \in Worker : pc'[x] = pc[x] \/ pc'[x] = "check"
      BY <2>1 DEF PullSubscribe, TypeOK
    <3> QED
      BY <3>1 DEF VerdictInv, Counted, Untouched, ResultsRecorded, OneVerdict,
         VerdictsAreDecided
  <2>2. CASE LookUpConsumer(w) \/ Configure(w) \/ AddSubscription(w)
    BY <2>2, <1>k DEF LookUpConsumer, Configure, AddSubscription
  <2> QED
    BY <1>5, <2>1, <2>2 DEF SubscribeStep
<1>6. ASSUME NEW w \in Worker, CloseStep(w) PROVE VerdictInv'
  BY <1>6, <1>k DEF CloseStep, CloseSignal, CloseSubscriptions, CloseConnection
<1>7. CASE UNCHANGED vars
  BY <1>7, <1>k DEF vars
<1> QED
  BY <1>1, <1>2, <1>3, <1>4, <1>5, <1>6, <1>7 DEF Next

\* However many goroutines a handler passes a message to, one terminal request
\* is made per delivery (sub_message.go:80-88, README.md:58).
THEOREM OneVerdictPerDelivery == Spec => []OneVerdict
<1>1. VerdictInv => OneVerdict
  BY DEF VerdictInv
<1> QED
  BY <1>1, TypeInit, TypeStep, VerdictInit, VerdictStep, PTL DEF Spec

\* A message is never acknowledged or terminated for a delivery whose handler
\* failed and asked for nothing (nats.go:248-257).
THEOREM VerdictsFollowHandlers == Spec => []VerdictsAreDecided
<1>1. VerdictInv => VerdictsAreDecided
  BY DEF VerdictInv
<1> QED
  BY <1>1, TypeInit, TypeStep, VerdictInit, VerdictStep, PTL DEF Spec

-----------------------------------------------------------------------------
(* Close *)

\* A subscription lives on an open connection; only a loop that looked at
\* closeCh before it was closed may start a handler after.
CloseInv ==
    \A w \in Worker :
        /\ valid[w] => connected[w]
        /\ late[w] <= 1
        /\ ~closeCh[w] \/ pc[w] \in {"fetch", "callback"} => late[w] = 0

LEMMA CloseInit == Init => CloseInv
BY DEF Init, CloseInv

LEMMA CloseInvStep == TypeOK /\ CloseInv /\ [Next]_vars => CloseInv'
<1> SUFFICES ASSUME TypeOK, CloseInv, [Next]_vars PROVE CloseInv'
  OBVIOUS
<1> USE DEF serverVars, queueVars, loopVars, verdictVars, Goto
<1>k. ASSUME UNCHANGED <<valid, connected, late, closeCh, pc>> PROVE CloseInv'
  BY <1>k DEF CloseInv
<1>1. ASSUME NEW m \in Message, Store(m) \/ ExpireEarly(m) \/ Expire(m)
      PROVE  CloseInv'
  BY <1>1, <1>k DEF Store, ExpireEarly, Expire
<1>2. ASSUME NEW s \in sending, Send(s) PROVE CloseInv'
  BY <1>2, <1>k DEF Send
<1>3. ASSUME NEW d \in aside, AsideActs(d) PROVE CloseInv'
  BY <1>3, <1>k DEF AsideActs
<1>4. ASSUME NEW w \in Worker, LoopStep(w) PROVE CloseInv'
  <2>1. CASE Check(w)
    BY <2>1 DEF Check, LoopEnds, CloseInv, TypeOK
  <2>2. CASE StartHandler(w)
    BY <2>2 DEF StartHandler, CloseInv, TypeOK
  <2>3. ASSUME UNCHANGED <<valid, connected, late, closeCh>>,
               \A x \in Worker : \/ pc'[x] = pc[x]
                                 \/ pc[x] = "fetch" /\ pc'[x] = "callback"
                                 \/ pc'[x] \notin {"fetch", "callback"}
        PROVE  CloseInv'
    BY <2>3 DEF CloseInv
  <2>4. CASE FetchMessage(w)
    BY <2>4, <2>3 DEF FetchMessage, TypeOK
  <2>5. CASE FetchFails(w) \/ CallbackTerm(w)
    BY <2>5, <2>3 DEF FetchFails, CallbackTerm, TypeOK
  <2>6. CASE HandlerActs(w) \/ HandOver(w)
    BY <2>6, <1>k DEF HandlerActs, HandOver
  <2>7. CASE HandlerReturns(w) \/ ReadDone(w) \/ Complete(w)
    BY <2>7, <2>3 DEF HandlerReturns, ReadDone, Complete, TypeOK
  <2> QED
    BY <1>4, <2>1, <2>2, <2>4, <2>5, <2>6, <2>7 DEF LoopStep
<1>5. ASSUME NEW w \in Worker, SubscribeStep(w) PROVE CloseInv'
  <2>1. CASE PullSubscribe(w)
    <3>1. CASE UNCHANGED <<valid, pc>>
      BY <2>1, <3>1, <1>k DEF PullSubscribe
    <3>2. CASE connected[w] /\ valid' = [valid EXCEPT ![w] = TRUE]
               /\ pc' = [pc EXCEPT ![w] = "check"]
      BY <2>1, <3>2 DEF PullSubscribe, CloseInv, TypeOK
    <3> QED
      BY <2>1, <3>1, <3>2 DEF PullSubscribe
  <2>2. CASE Configure(w)
    BY <2>2 DEF Configure, Unsubscribe, CloseInv, TypeOK
  <2>3. CASE LookUpConsumer(w) \/ AddSubscription(w)
    BY <2>3, <1>k DEF LookUpConsumer, AddSubscription
  <2> QED
    BY <1>5, <2>1, <2>2, <2>3 DEF SubscribeStep
<1>6. ASSUME NEW w \in Worker, CloseStep(w) PROVE CloseInv'
  BY <1>6 DEF CloseStep, CloseSignal, CloseSubscriptions, CloseConnection, Unsubscribe,
     CloseInv, TypeOK
<1>7. CASE UNCHANGED vars
  BY <1>7, <1>k DEF vars
<1> QED
  BY <1>1, <1>2, <1>3, <1>4, <1>5, <1>6, <1>7 DEF Next

\* After Close has returned nothing can be fetched, even from a subscription
\* opened or listed while Close ran (nats.go:390-419).
THEOREM CloseLeavesNothingOpen == Spec => []ClosedQueueIsQuiet
<1>1. TypeOK /\ CloseInv => ClosedQueueIsQuiet
  BY DEF TypeOK, CloseInv, ClosedQueueIsQuiet
<1> QED
  BY <1>1, TypeInit, TypeStep, CloseInit, CloseInvStep, PTL DEF Spec

\* A loop starts at most one handler after its queue began to close
\* (nats.go:333-355).
THEOREM AtMostOneLateHandler == Spec => []OneHandlerAfterClose
<1>1. CloseInv => OneHandlerAfterClose
  BY DEF CloseInv, OneHandlerAfterClose
<1> QED
  BY <1>1, TypeInit, TypeStep, CloseInit, CloseInvStep, PTL DEF Spec

-----------------------------------------------------------------------------
(* The loop of a closed queue runs down *)

Stage(label) ==
    CASE label \in {"off", "done"}     -> 0
      [] label = "check"               -> 1
      [] label \in {"fetch", "finish"} -> 2
      [] label = "complete"            -> 3
      [] label = "handler"             -> 4
      [] label = "callback"            -> 5

\* What the handler may still do with the delivery d: hand it over, and act on it.
ActsLeft(d) == IF d \in done THEN 0 ELSE IF d \in aside THEN 1 ELSE 2

\* How many steps the loop of w has left at most once its queue is closed.
StepsLeft(w) == 3 * Stage(pc[w]) + ActsLeft(job[w])

\* Every step of w's own loop takes it closer to its end, and nobody else's step
\* takes it farther away.
RunsDown(w) ==
    closePc[w] = "returned" =>
        /\ StepsLeft(w) \in 0 .. 17
        /\ IF LoopStep(w) THEN StepsLeft(w)' < StepsLeft(w)
                          ELSE StepsLeft(w)' <= StepsLeft(w)

\* A step that leaves the loop where it is can only use up what its delivery has left.
LEMMA OthersAreHarmless ==
    ASSUME TypeOK, NEW w \in Worker, UNCHANGED <<pc[w], job[w]>>,
           done \subseteq done', done \cup aside \subseteq done' \cup aside'
    PROVE  StepsLeft(w)' <= StepsLeft(w)
<1>1. PICK d : d = job[w] /\ d = job'[w]
  OBVIOUS
<1>2. ActsLeft(d)' <= ActsLeft(d)
  BY DEF ActsLeft
<1>3. ActsLeft(d) \in 0..2 /\ ActsLeft(d)' \in 0..2
  BY DEF ActsLeft
<1>4. Stage(pc[w]) \in 0..5 /\ Stage(pc[w])' = Stage(pc[w])
  BY DEF TypeOK, Stage
<1>5. /\ StepsLeft(w) = 3 * Stage(pc[w]) + ActsLeft(d)
      /\ StepsLeft(w)' = 3 * Stage(pc[w])' + ActsLeft(d)'
  BY <1>1 DEF StepsLeft, ActsLeft
<1> QED
  BY <1>2, <1>3, <1>4, <1>5

\* A loop that passes to an earlier stage has fewer steps left.
LEMMA StageDecides ==
    ASSUME NEW w \in Worker, Stage(pc[w]) \in 0..5, Stage(pc'[w]) \in 0..5,
           Stage(pc'[w]) < Stage(pc[w])
    PROVE  StepsLeft(w)' < StepsLeft(w)
<1>1. ActsLeft(job[w]) \in 0..2
  BY DEF ActsLeft
<1>2. ActsLeft(job[w])' \in 0..2
  BY DEF ActsLeft
<1>3. Stage(pc[w])' = Stage(pc'[w])
  BY DEF Stage
<1> QED
  BY <1>1, <1>2, <1>3 DEF StepsLeft

LEMMA LoopStepCounts ==
    ASSUME TypeOK, CloseInv, NEW w \in Worker, closePc[w] = "returned", LoopStep(w)
    PROVE  StepsLeft(w)' < StepsLeft(w)
<1>c. closeCh[w] /\ ~connected[w] /\ ~valid[w]
  BY DEF TypeOK, CloseInv
<1>a. ASSUME Stage(pc[w]) \in 0..5, Stage(pc'[w]) \in 0..5,
             Stage(pc'[w]) < Stage(pc[w])
      PROVE  StepsLeft(w)' < StepsLeft(w)
  BY <1>a, StageDecides
<1>1. CASE Check(w)
  <2>1. pc[w] = "check" /\ pc'[w] = "done"
    BY <1>1, <1>c DEF Check, LoopEnds, Goto, TypeOK
  <2> QED
    BY <2>1, <1>a DEF Stage
<1>2. CASE FetchMessage(w)
  BY <1>2, <1>c DEF FetchMessage
<1>3. CASE FetchFails(w)
  <2>1. pc[w] = "fetch" /\ pc'[w] = "done"
    BY <1>3, <1>c DEF FetchFails, Goto, TypeOK
  <2> QED
    BY <2>1, <1>a DEF Stage
<1>4. CASE CallbackTerm(w)
  <2>1. pc[w] = "callback" /\ pc'[w] = "check"
    BY <1>4 DEF CallbackTerm, Goto, TypeOK
  <2> QED
    BY <2>1, <1>a DEF Stage
<1>5. CASE StartHandler(w)
  <2>1. pc[w] = "callback" /\ pc'[w] = "handler"
    BY <1>5 DEF StartHandler, Goto, TypeOK
  <2> QED
    BY <2>1, <1>a DEF Stage
<1>6. CASE HandlerReturns(w)
  <2>1. pc[w] = "handler" /\ pc'[w] = "complete"
    BY <1>6 DEF HandlerReturns, Goto, TypeOK
  <2> QED
    BY <2>1, <1>a DEF Stage
<1>7. CASE ReadDone(w)
  <2>1. pc[w] = "complete" /\ pc'[w] \in {"check", "finish"}
    BY <1>7 DEF ReadDone, Goto, TypeOK
  <2> QED
    BY <2>1, <1>a DEF Stage
<1>8. CASE Complete(w)
  <2>1. pc[w] = "finish" /\ pc'[w] = "check"
    BY <1>8 DEF Complete, Goto, TypeOK
  <2> QED
    BY <2>1, <1>a DEF Stage
<1>9. ASSUME HandlerActs(w) \/ HandOver(w) PROVE StepsLeft(w)' < StepsLeft(w)
  <2>1. PICK d : d = job[w] /\ d = job'[w]
    BY <1>9 DEF HandlerActs, HandOver, loopVars
  <2>2. UNCHANGED pc
    BY <1>9 DEF HandlerActs, HandOver, loopVars
  <2>3. ActsLeft(d) \in 0..2 /\ ActsLeft(d)' \in 0..2
    BY DEF ActsLeft
  <2>4. ActsLeft(d)' < ActsLeft(d)
    <3>1. CASE HandlerActs(w)
      <4>1. d \notin done /\ done' = done \cup {d}
        BY <3>1, <2>1 DEF HandlerActs, Finish
      <4> QED
        BY <4>1 DEF ActsLeft
    <3>2. CASE HandOver(w)
      <4>1. d \notin done /\ d \notin aside /\ done' = done /\ aside' = aside \cup {d}
        BY <3>2, <2>1 DEF HandOver
      <4> QED
        BY <4>1 DEF ActsLeft
    <3> QED
      BY <1>9, <3>1, <3>2
  <2>5. Stage(pc[w]) \in 0..5 /\ Stage(pc[w])' = Stage(pc[w])
    BY <2>2 DEF TypeOK, Stage
  <2>6. /\ StepsLeft(w) = 3 * Stage(pc[w]) + ActsLeft(d)
        /\ StepsLeft(w)' = 3 * Stage(pc[w])' + ActsLeft(d)'
    BY <2>1 DEF StepsLeft, ActsLeft
  <2> QED
    BY <2>3, <2>4, <2>5, <2>6
<1> QED
  BY <1>1, <1>2, <1>3, <1>4, <1>5, <1>6, <1>7, <1>8, <1>9 DEF LoopStep

LEMMA RunsDownStep ==
    ASSUME TypeOK, CloseInv, [Next]_vars, NEW w \in Worker
    PROVE  RunsDown(w)
<1> SUFFICES ASSUME closePc[w] = "returned", ~LoopStep(w)
             PROVE  StepsLeft(w)' <= StepsLeft(w)
  <2>1. LoopStep(w) /\ closePc[w] = "returned" => StepsLeft(w)' < StepsLeft(w)
    BY LoopStepCounts
  <2>2. Stage(pc[w]) \in 0..5 /\ ActsLeft(job[w]) \in 0..2
    BY DEF TypeOK, Stage, ActsLeft
  <2>3. StepsLeft(w) \in 0 .. 17
    BY <2>2 DEF StepsLeft
  <2> QED
    BY <2>1, <2>3 DEF RunsDown
<1> USE DEF serverVars, queueVars, loopVars, verdictVars, Goto
<1>k. ASSUME UNCHANGED <<pc[w], job[w]>>, done \subseteq done',
             done \cup aside \subseteq done' \cup aside'
      PROVE  StepsLeft(w)' <= StepsLeft(w)
  BY <1>k, OthersAreHarmless
<1>1. ASSUME NEW m \in Message, Store(m) \/ ExpireEarly(m) \/ Expire(m)
      PROVE  StepsLeft(w)' <= StepsLeft(w)
  BY <1>1, <1>k DEF Store, ExpireEarly, Expire
<1>2. ASSUME NEW s \in sending, Send(s) PROVE StepsLeft(w)' <= StepsLeft(w)
  BY <1>2, <1>k DEF Send
<1>3. ASSUME NEW d \in aside, AsideActs(d) PROVE StepsLeft(w)' <= StepsLeft(w)
  <2>1. done' = done \cup {d} /\ aside' = aside \ {d}
    BY <1>3 DEF AsideActs, Finish
  <2> QED
    BY <1>3, <2>1, <1>k DEF AsideActs
<1>4. ASSUME NEW u \in Worker, LoopStep(u) PROVE StepsLeft(w)' <= StepsLeft(w)
  <2>1. u # w
    BY <1>4
  <2>2. pc'[w] = pc[w] /\ job'[w] = job[w]
    BY <1>4, <2>1 DEF LoopStep, Check, FetchMessage, FetchFails, CallbackTerm,
       StartHandler, HandlerActs, HandOver, HandlerReturns, ReadDone, Complete, TypeOK
  <2>3. done \subseteq done' /\ aside \subseteq aside'
    BY <1>4 DEF LoopStep, Check, FetchMessage, FetchFails, CallbackTerm,
       StartHandler, HandlerActs, HandOver, HandlerReturns, ReadDone, Complete, Finish
  <2> QED
    BY <2>2, <2>3, <1>k
<1>5. ASSUME NEW u \in Worker, SubscribeStep(u) PROVE StepsLeft(w)' <= StepsLeft(w)
  <2>1. ~connected[w]
    BY DEF TypeOK
  <2>2. UNCHANGED <<job, done, aside>>
    BY <1>5 DEF SubscribeStep, LookUpConsumer, PullSubscribe, Configure, AddSubscription
  <2>3. pc'[w] = pc[w]
    BY <1>5, <2>1 DEF SubscribeStep, LookUpConsumer, PullSubscribe, Configure,
       AddSubscription, TypeOK
  <2> QED
    BY <2>2, <2>3, <1>k
<1>6. ASSUME NEW u \in Worker, CloseStep(u) PROVE StepsLeft(w)' <= StepsLeft(w)
  BY <1>6, <1>k DEF CloseStep, CloseSignal, CloseSubscriptions, CloseConnection
<1>7. CASE UNCHANGED vars
  BY <1>7, <1>k DEF vars
<1> QED
  BY <1>1, <1>2, <1>3, <1>4, <1>5, <1>6, <1>7 DEF Next

\* Once Close has returned, a loop takes at most 17 steps more, whatever the server,
\* the handlers and the other workers do meanwhile (nats.go:333-355): the part of
\* CloseEndsLoops that needs no fairness, for any number of workers and messages.
THEOREM ClosedLoopsRunDown == Spec => [][\A w \in Worker : RunsDown(w)]_vars
<1>1. TypeOK /\ CloseInv /\ [Next]_vars => [\A w \in Worker : RunsDown(w)]_vars
  BY RunsDownStep
<1> QED
  BY <1>1, TypeInit, TypeStep, CloseInit, CloseInvStep, PTL DEF Spec

-----------------------------------------------------------------------------
(* Refinement of WorkQueue *)

\* A message that was delivered has been stored.
DeliveredWasStored == \A m \in Message : attempt[m] > 0 => entry[m] # "unsent"

InQueue == {m \in Message : entry[m] \in {"stored", "ready", "out"}}
Gone    == {m \in Message : entry[m] = "gone"}
Decided == {d.msg : d \in decided}

LEMMA StoredStep ==
    TypeOK /\ VerdictInv /\ DeliveredWasStored /\ [Next]_vars => DeliveredWasStored'
<1> SUFFICES ASSUME TypeOK, DeliveredWasStored, [Next]_vars PROVE DeliveredWasStored'
  OBVIOUS
<1> USE DEF serverVars, queueVars, loopVars, verdictVars, TypeOK, DeliveredWasStored
<1>1. ASSUME NEW m \in Message, Store(m) \/ ExpireEarly(m) \/ Expire(m)
      PROVE  DeliveredWasStored'
  BY <1>1 DEF Store, ExpireEarly, Expire
<1>2. ASSUME NEW s \in sending, Send(s) PROVE DeliveredWasStored'
  BY <1>2 DEF Send, After
<1>3. ASSUME NEW w \in Worker, FetchMessage(w) PROVE DeliveredWasStored'
  BY <1>3 DEF FetchMessage
<1>4. ASSUME UNCHANGED <<entry, attempt>> PROVE DeliveredWasStored'
  BY <1>4
<1>5. ASSUME NEW d \in aside, AsideActs(d) PROVE DeliveredWasStored'
  BY <1>5, <1>4 DEF AsideActs
<1>6. ASSUME NEW w \in Worker, LoopStep(w) PROVE DeliveredWasStored'
  BY <1>3, <1>4, <1>6 DEF LoopStep, Check, FetchFails, CallbackTerm, StartHandler,
     HandlerActs, HandOver, HandlerReturns, ReadDone, Complete
<1>8. ASSUME NEW w \in Worker, SubscribeStep(w) \/ CloseStep(w)
      PROVE  DeliveredWasStored'
  <2>1. CASE DeleteConsumer
    <3>1. attempt' = attempt
      BY <1>8 DEF SubscribeStep, LookUpConsumer, PullSubscribe, Configure,
         AddSubscription, CloseStep, CloseSignal, CloseSubscriptions, CloseConnection
    <3> QED
      BY <2>1, <3>1 DEF DeleteConsumer
  <2>2. CASE ~DeleteConsumer
    <3>1. UNCHANGED <<entry, attempt>>
      BY <1>8, <2>2 DEF SubscribeStep, LookUpConsumer, PullSubscribe, CreateConsumer,
         Configure, AddSubscription, CloseStep, CloseSignal, CloseSubscriptions,
         CloseConnection, Unsubscribe
    <3> QED
      BY <3>1, <1>4
  <2> QED
    BY <2>1, <2>2
<1>7. CASE UNCHANGED vars
  BY <1>7, <1>4 DEF vars
<1> QED
  BY <1>1, <1>2, <1>5, <1>6, <1>7, <1>8 DEF Next

LEMMA QueueInit == Init => Queue!Init
BY DEF Init, Queue!Init

\* A step that records a delivery of a stored message as decided.
LEMMA DecideMaps ==
    ASSUME NEW d, entry' = entry, d.msg \in Message, entry[d.msg] # "unsent",
           decided' = decided \cup {d}, TypeOK
    PROVE  Queue!Decide(d.msg)
<1>1. d.msg \in InQueue \cup Gone
  BY DEF InQueue, Gone, TypeOK
<1>2. Decided' = Decided \cup {d.msg}
  BY DEF Decided
<1> QED
  BY <1>1, <1>2 DEF Queue!Decide, InQueue, Gone, Decided

\* What the jobs and the goroutines hold was stored.
LEMMA HeldWasStored ==
    ASSUME TypeOK, VerdictInv, DeliveredWasStored
    PROVE  /\ \A w \in Worker : job[w] # Idle =>
                 job[w].msg \in Message /\ entry[job[w].msg] # "unsent"
           /\ \A d \in aside : d.msg \in Message /\ entry[d.msg] # "unsent"
           /\ \A s \in sending : s.d.msg \in Message /\ entry[s.d.msg] # "unsent"
<1> USE DEF TypeOK, VerdictInv, Counted, DeliveredWasStored
<1>1. \A d \in Delivered : d.n <= attempt[d.msg] =>
         d.msg \in Message /\ entry[d.msg] # "unsent"
  BY DEF Delivered
<1>2. \A s \in sending : s.d \in Delivered
  BY DEF Requests
<1> QED
  BY <1>1, <1>2

LEMMA QueueStep ==
    ASSUME TypeOK, VerdictInv, DeliveredWasStored, [Next]_vars
    PROVE  [Queue!Next]_(Queue!queueVars)
<1> DEFINE Same == UNCHANGED <<InQueue, Gone, Decided>>
           Goal == [Queue!Next]_(Queue!queueVars)
<1>s. ASSUME Same PROVE Goal
  BY <1>s DEF Queue!queueVars, InQueue, Gone, Decided
<1>e. ASSUME UNCHANGED <<entry, decided>> PROVE Goal
  BY <1>e, <1>s DEF InQueue, Gone, Decided
<1>d. ASSUME NEW d, entry' = entry, d.msg \in Message, entry[d.msg] # "unsent",
             decided' = decided \cup {d}
      PROVE  Goal
  BY <1>d, DecideMaps DEF Queue!Next
<1> HIDE DEF Goal
<1> USE DEF serverVars, queueVars, loopVars, verdictVars
<1>1. ASSUME NEW m \in Message, Store(m) PROVE Goal
  <2>1. InQueue' = InQueue \cup {m} /\ Gone' = Gone /\ Decided' = Decided
    BY <1>1 DEF Store, InQueue, Gone, Decided, TypeOK
  <2>2. m \notin InQueue \cup Gone
    BY <1>1 DEF Store, InQueue, Gone
  <2> QED
    BY <2>1, <2>2 DEF Goal, Queue!Next, Queue!Store, InQueue, Gone, Decided
<1>2. ASSUME NEW m \in Message, ExpireEarly(m) \/ Expire(m) PROVE Goal
  <2>1. entry[m] = "out" /\ entry' = [entry EXCEPT ![m] = "ready"] /\ decided' = decided
    BY <1>2 DEF ExpireEarly, Expire
  <2> QED
    BY <2>1, <1>s DEF InQueue, Gone, Decided, TypeOK
<1>3. ASSUME NEW s \in sending, Send(s) PROVE Goal
  <2> DEFINE m == s.d.msg
  <2>1. m \in Message /\ entry[m] # "unsent" /\ decided' = decided
    BY <1>3, HeldWasStored DEF Send
  <2>2. CASE entry' = entry
    BY <2>1, <2>2, <1>e
  <2>3. CASE entry' = [entry EXCEPT ![m] = After(s.verdict, @)]
    <3>1. CASE s.verdict = "nak" \/ entry[m] \in {"stored", "gone"}
      BY <2>1, <2>3, <3>1, <1>s DEF After, InQueue, Gone, Decided, TypeOK
    <3>2. CASE s.verdict # "nak" /\ entry[m] \notin {"stored", "gone"}
      <4>1. m \in InQueue
        BY <2>1, <3>2 DEF InQueue, TypeOK
      <4>2. m \in Decided
        BY <3>2 DEF VerdictInv, VerdictsAreDecided, Decided
      <4>3. InQueue' = InQueue \ {m} /\ Gone' = Gone \cup {m} /\ Decided' = Decided
        BY <2>1, <2>3, <3>2 DEF After, InQueue, Gone, Decided, TypeOK
      <4> QED
        BY <2>1, <4>1, <4>2, <4>3
        DEF Goal, Queue!Next, Queue!Settle, InQueue, Gone, Decided
    <3> QED
      BY <3>1, <3>2
  <2> QED
    BY <1>3, <2>2, <2>3 DEF Send
<1>4. ASSUME NEW d \in aside, AsideActs(d) PROVE Goal
  <2>1. entry' = entry /\ (decided' = decided \/ decided' = decided \cup {d})
    BY <1>4 DEF AsideActs
  <2> QED
    BY <2>1, <1>e, <1>d, HeldWasStored
<1>5. ASSUME NEW w \in Worker, LoopStep(w) PROVE Goal
  <2>1. CASE FetchMessage(w)
    BY <2>1, <1>s DEF FetchMessage, InQueue, Gone, Decided, TypeOK
  <2>2. CASE CallbackTerm(w) \/ HandlerActs(w) \/ HandlerReturns(w)
    <3>1. entry' = entry /\ (decided' = decided \/ decided' = decided \cup {job[w]})
      BY <2>2 DEF CallbackTerm, HandlerActs, HandlerReturns
    <3>2. job[w] # Idle
      BY <2>2, IdleIsNoDelivery DEF CallbackTerm, HandlerActs, HandlerReturns, TypeOK
    <3> QED
      BY <3>1, <3>2, <1>e, <1>d, HeldWasStored
  <2>3. CASE Check(w) \/ FetchFails(w) \/ StartHandler(w) \/ HandOver(w)
             \/ ReadDone(w) \/ Complete(w)
    BY <2>3, <1>e DEF Check, FetchFails, StartHandler, HandOver, ReadDone, Complete
  <2> QED
    BY <1>5, <2>1, <2>2, <2>3 DEF LoopStep
<1>6. ASSUME NEW w \in Worker, SubscribeStep(w) \/ CloseStep(w) PROVE Goal
  <2>1. decided' = decided
    BY <1>6 DEF SubscribeStep, LookUpConsumer, PullSubscribe, Configure,
       AddSubscription, CloseStep, CloseSignal, CloseSubscriptions, CloseConnection
  <2>2. CASE DeleteConsumer
    <3>1. InQueue' = InQueue \cup Gone /\ Gone' = {} /\ Decided' = Decided
      BY <2>1, <2>2 DEF DeleteConsumer, InQueue, Gone, Decided, TypeOK
    <3> QED
      BY <3>1 DEF Goal, Queue!Next, Queue!Rewind, InQueue, Gone, Decided
  <2>3. CASE ~DeleteConsumer
    <3>1. entry' = entry
      BY <1>6, <2>3 DEF SubscribeStep, LookUpConsumer, PullSubscribe, CreateConsumer,
         Configure, AddSubscription, CloseStep, CloseSignal, CloseSubscriptions,
         CloseConnection, Unsubscribe
    <3> QED
      BY <2>1, <3>1, <1>e
  <2> QED
    BY <2>2, <2>3
<1>7. ASSUME UNCHANGED vars PROVE Goal
  BY <1>7, <1>e DEF vars
<1> QED
  BY <1>1, <1>2, <1>3, <1>4, <1>5, <1>6, <1>7 DEF Next, Goal

\* The subscriptions implement the at-least-once queue: no stored message is
\* dropped before some handler succeeded, gave it up or asked for its removal.
THEOREM DeliveryIsWorkQueue == Spec => WorkQueueSpec
<1>1. Init => DeliveredWasStored
  BY DEF Init, DeliveredWasStored
<1>2. TypeOK /\ VerdictInv /\ DeliveredWasStored /\ [Next]_vars
        => [Queue!Next]_(Queue!queueVars)
  BY QueueStep
<1> QED
  BY <1>1, <1>2, QueueInit, StoredStep, TypeInit, TypeStep, VerdictInit, VerdictStep,
     PTL DEF Spec, WorkQueueSpec, Queue!Spec
====================================================================================
