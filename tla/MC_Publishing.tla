------------------------------ MODULE MC_Publishing ------------------------------
(***************************************************************************)
(* An instance of Publishing for TLC: two services and four deployments   *)
(* of them, each bringing one kind of interference about.                  *)
(***************************************************************************)
EXTENDS Publishing, TLC

CONSTANTS p1, p2, orders, audit, created, paid, shipped, i1, i2

Ask(name, subjects) == [name |-> name, subjects |-> subjects]
Msg(id) == [id |-> id]
Call1(topic, batch) == <<[topic |-> topic, batch |-> batch]>>
Both(f1, f2) == (p1 :> f1) @@ (p2 :> f2)
Held(subjects) == [subjects |-> subjects, limits |-> 0]
Empty == [n \in Name |-> Nil]

\* Two releases start together.  Both want the same orders stream, which an older
\* release left with other subjects, and disagree on the audit stream p1 uses.
Releases ==
    [jetStream |-> {p1, p2},
     streams |-> Both(<<Ask(orders, <<created, Blank>>), Ask(audit, <<paid>>)>>,
                      <<Ask(orders, <<created>>), Ask(audit, <<shipped>>)>>),
     jobs |-> Both(Call1(paid, <<Msg(i1)>>), <<>>),
     before |-> (orders :> Held(<<paid, created>>)) @@ (audit :> Nil)]

\* One stream and two publishers of batches, one ID used by both.
Publishers ==
    [jetStream |-> {p1, p2},
     streams |-> Both(<<Ask(orders, <<created, paid>>)>>, <<Ask(orders, <<created, paid>>)>>),
     jobs |-> Both(Call1(created, <<Msg(i1), Msg(Blank), Msg(i2)>>),
                   Call1(paid, <<Msg(i1), Unsendable>>)),
     before |-> Empty]

\* A Core NATS publisher beside a service whose second stream has no name.
Mixed ==
    [jetStream |-> {p2},
     streams |-> Both(<<>>, <<Ask(orders, <<created>>), Ask(Blank, <<paid>>)>>),
     jobs |-> Both(Call1(created, <<Msg(i1), Msg(i1)>>) \o Call1(Blank, <<Msg(i2)>>), <<>>),
     before |-> Empty]

\* A subject moves from one stream to another while the services start: the server
\* refuses to bind it twice.
Moves ==
    [jetStream |-> {p1, p2},
     streams |-> Both(<<Ask(orders, <<created>>), Ask(orders, <<paid>>)>>,
                      <<Ask(audit, <<shipped>>), Ask(audit, <<paid>>)>>),
     jobs |-> Both(<<>>, <<>>),
     before |-> (orders :> Nil) @@ (audit :> Held(<<created>>))]

AllDeployments == {Releases, Publishers, Mixed, Moves}
==================================================================================
