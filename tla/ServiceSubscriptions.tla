---------------------------- MODULE ServiceSubscriptions ----------------------------
(***************************************************************************)
(* Client.SubscribeService and Client.Close (messaging/client.go) over     *)
(* natsQueue.Subscribe and Close (messaging/nats.go), for subscriptions of *)
(* every kind: what is open after calls that fail half-way and are made    *)
(* again, and while the client is closed.  Delivery has what a pull        *)
(* subscription does; the NATS server is external.                         *)
(***************************************************************************)
EXTENDS Integers, Sequences, FiniteSets

CONSTANTS
    List,       \* c.subscriptions
    Nil,        \* a nil entry of it
    Service,    \* the services for which a goroutine calls SubscribeService
    Other,      \* a service of other processes
    Every,      \* the empty service of an endpoint: every service serves it
    Handlers,   \* the methods these calls bring a handler for
    MaxCalls,   \* bound on the calls per service
    MaxRefusals \* bound on failures of the server and of pending limits

\* topic is FALSE for a topic Validate refuses.
Endpoint == [service : Service \cup {Other, Every}, method : STRING, topic : BOOLEAN]

ASSUME SubscriptionsAssumption ==
    /\ List \in Seq(Endpoint \cup {Nil})
    /\ IsFiniteSet(Service) /\ Service \cap {Other, Every} = {}
    /\ MaxCalls \in Nat /\ MaxRefusals \in Nat

Entry == DOMAIN List

VARIABLES
    at,         \* the entry SubscribeService is at, 0 when it does not run
    step,       \* and where Subscribe is: choose, open, configure, add
    outcome,    \* of the last call: none, ok, error
    raw,        \* callers whose NATS subscription is open but not yet listed
    live,       \* NATS subscriptions of an entry that receive messages, without those
    recorded,   \* entries of n.subscriptions made for an entry of the list
    closing,    \* where Close is: no, unsubscribe, disconnect, done
    refusals,   \* failures so far
    calls       \* calls of SubscribeService so far

serveVars == <<at, step, outcome>>
subVars == <<raw, live, recorded>>
serviceVars == <<serveVars, subVars, closing, refusals, calls>>

ServiceInit ==
    /\ at = [s \in Service |-> 0]
    /\ step = [s \in Service |-> "choose"]
    /\ outcome = [s \in Service |-> "none"]
    /\ raw = {}
    /\ live = [i \in Entry |-> 0] /\ recorded = [i \in Entry |-> 0]
    /\ closing = "no" /\ refusals = 0
    /\ calls = [s \in Service |-> 0]

Refusal == refusals < MaxRefusals /\ refusals' = refusals + 1

StepTo(s, label) == step' = [step EXCEPT ![s] = label]

EndCall(s, result) ==
    /\ at' = [at EXCEPT ![s] = 0]
    /\ StepTo(s, "choose")
    /\ outcome' = [outcome EXCEPT ![s] = result]

\* The loop goes on with the next entry, or is through.
Advance(s) ==
    IF at[s] = Len(List)
    THEN EndCall(s, "ok")
    ELSE at' = [at EXCEPT ![s] = @ + 1] /\ StepTo(s, "choose") /\ UNCHANGED outcome

-----------------------------------------------------------------------------
(* SubscribeService *)

\* The entry is for this service, or for every one.
Serves(s, i) == List[i] # Nil /\ List[i].service \in {Every, s}

Call(s) ==
    /\ at[s] = 0 /\ calls[s] < MaxCalls
    /\ calls' = [calls EXCEPT ![s] = @ + 1]
    /\ IF Len(List) = 0
       THEN EndCall(s, "ok")
       ELSE /\ at' = [at EXCEPT ![s] = 1]
            /\ outcome' = [outcome EXCEPT ![s] = "none"]
            /\ UNCHANGED step
    /\ UNCHANGED <<subVars, closing, refusals>>

\* A nil entry fails every call; an entry to serve needs a handler and a topic.
Refused(s) ==
    \/ List[at[s]] = Nil
    \/ Serves(s, at[s]) /\ (List[at[s]].method \notin Handlers \/ ~List[at[s]].topic)

RefuseEntry(s) ==
    /\ at[s] # 0 /\ step[s] = "choose" /\ Refused(s)
    /\ EndCall(s, "error")
    /\ UNCHANGED <<subVars, closing, refusals, calls>>

PassOver(s) ==
    /\ at[s] # 0 /\ step[s] = "choose" /\ ~Refused(s) /\ ~Serves(s, at[s])
    /\ Advance(s)
    /\ UNCHANGED <<subVars, closing, refusals, calls>>

Choose(s) ==
    /\ at[s] # 0 /\ step[s] = "choose" /\ ~Refused(s) /\ Serves(s, at[s])
    /\ StepTo(s, "open")
    /\ UNCHANGED <<at, outcome, subVars, closing, refusals, calls>>

-----------------------------------------------------------------------------
(* natsQueue.Subscribe: queueSubscribe or subscribe, configureSubscription and     *)
(* addSubscription                                                                 *)

Open(s) ==
    /\ step[s] = "open" /\ closing # "done"
    /\ raw' = raw \cup {s}
    /\ StepTo(s, "configure")
    /\ UNCHANGED <<at, outcome, live, recorded, closing, refusals, calls>>

\* Mutated form of OpenFails: the error is logged, and the loop goes on.
OpenFailsOn(s) ==
    /\ step[s] = "open"
    /\ IF closing = "done" THEN UNCHANGED refusals ELSE Refusal
    /\ Advance(s)
    /\ UNCHANGED <<subVars, closing, calls>>

\* The server refuses, or the connection is closed.  What was opened before stays.
OpenFails(s) ==
    /\ step[s] = "open"
    /\ IF closing = "done" THEN UNCHANGED refusals ELSE Refusal
    /\ EndCall(s, "error")
    /\ UNCHANGED <<subVars, closing, calls>>

\* The pending limits are set, or none were asked for.
Configure(s) ==
    /\ step[s] = "configure"
    /\ StepTo(s, "add")
    /\ UNCHANGED <<at, outcome, subVars, closing, refusals, calls>>

\* They are refused, certainly by a subscription that is closed, and it is undone.
ConfigureFails(s) ==
    /\ step[s] = "configure"
    /\ IF s \in raw THEN Refusal ELSE UNCHANGED refusals
    /\ raw' = raw \ {s}
    /\ EndCall(s, "error")
    /\ UNCHANGED <<live, recorded, closing, calls>>

Add(s) ==
    /\ step[s] = "add"
    /\ live' = [live EXCEPT ![at[s]] = IF s \in raw THEN @ + 1 ELSE @]
    /\ raw' = raw \ {s}
    /\ recorded' = [recorded EXCEPT ![at[s]] = @ + 1]
    /\ Advance(s)
    /\ UNCHANGED <<closing, refusals, calls>>

-----------------------------------------------------------------------------
(* Close, once *)

Close ==
    /\ closing = "no"
    /\ closing' = "unsubscribe"
    /\ UNCHANGED <<serveVars, subVars, refusals, calls>>

\* Those listed by now are unsubscribed.
CloseSubscriptions ==
    /\ closing = "unsubscribe"
    /\ live' = [i \in Entry |-> 0]
    /\ recorded' = [i \in Entry |-> 0]
    /\ closing' = "disconnect"
    /\ UNCHANGED <<serveVars, raw, refusals, calls>>

\* conn.Close ends the subscriptions that were opened or listed meanwhile.
Disconnect ==
    /\ closing = "disconnect"
    /\ raw' = {} /\ live' = [i \in Entry |-> 0]
    /\ closing' = "done"
    /\ UNCHANGED <<serveVars, recorded, refusals, calls>>

-----------------------------------------------------------------------------
ServiceNext ==
    \/ \E s \in Service :
         \/ Call(s) \/ RefuseEntry(s) \/ PassOver(s) \/ Choose(s)
         \/ Open(s) \/ OpenFails(s) \/ Configure(s) \/ ConfigureFails(s) \/ Add(s)
    \/ Close \/ CloseSubscriptions \/ Disconnect

ServiceSpec == ServiceInit /\ [][ServiceNext]_serviceVars

-----------------------------------------------------------------------------
(* Properties *)

\* The services an entry is for.
Users(i) == {s \in Service : List[i] # Nil /\ List[i].service \in {Every, s}}

\* Until Close is called every call that has passed an entry, and every one that
\* returned nil, has a subscription of its own open for it: no failure on the way is
\* passed over, and two services do not share one (client.go SubscribeService).
NilMeansServed ==
    closing = "no" =>
      \A i \in Entry :
        Cardinality({s \in Users(i) : outcome[s] = "ok" \/ i < at[s]}) <= live[i]
=====================================================================================
