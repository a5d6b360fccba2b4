------------------------------- MODULE MCCloud ------------------------------
(***************************************************************************)
(* A small service: two accounts, four contents of three ids, days of two  *)
(* ticks.  Each scene is what the database holds when the service starts   *)
(* and who acts.                                                           *)
(***************************************************************************)
EXTENDS Cloud

MCIdOf == [c \in Contents |-> CASE c = "c1" -> 1 [] c = "c2" -> 2 [] OTHER -> 3]
MCAgentOf == [c \in Contents |-> IF c = "c2" THEN "g2" ELSE "g1"]
MCCustomerOf == [c \in Contents |-> None]
MCRetention == [p \in Plans |-> IF p = "team" THEN 1 ELSE 2]
MCIncluded == [p \in Plans |-> 1]

Paid(type, email, customer, subscription) ==
  [type |-> type, email |-> email, customer |-> customer, subscription |-> subscription]
MCPayload == [e \in Events |->
  CASE e = "checkout" -> Paid("checkout", "e3", "u1", "sub1")
    [] e = "again" -> Paid("checkout", "e3", "u2", None)
    [] e = "renewal" -> Paid("subscription", None, "u1", "sub2")
    [] OTHER -> Paid("other", None, "u1", None)]

Header(age, v1) == [age |-> age, v1 |-> v1]
MCHeaders ==   \* two that hold, at the edges of the window, and each way not to
  {Header(5, {"old", "new"}), Header(-5, {"old"}), Header(6, {"old"}), Header(-6, {"old"}),
   Header(0, {"new"}), Header(0, {}), Header(None, {"old"})}

Posting(account, content) == [account |-> account, content |-> content]
MCPost == [k \in Clients |->
  CASE k = "k1" -> Posting(1, "c3")
    [] k = "k2" -> Posting(1, "c3")
    [] k = "k3" -> Posting(2, "d3")
    [] k = "k4" -> Posting(2, "forged")
    [] OTHER -> Posting(1, "c1")]
MCMaxAttempts == [k \in Clients |-> IF k \in {"k1", "k6"} THEN 2 ELSE 1]
MCRequests == Clients \X {1, 2}
MCFilter == [agent |-> "g1", customer |-> None, from |-> 0, to |-> 99]

A1 == NewAccount("e1", "team", "p1")
A2 == NewAccount("e2", "enterprise", "p2")

Scene == [actors |-> {}, now |-> 0, accounts |-> <<A1, A2>>, keys |-> <<>>, rows |-> {},
          usage |-> <<>>, links |-> <<>>, rotten |-> {}]

Three == {NewRow("c1", 1, 0), NewRow("c3", 1, 0), NewRow("c2", 2, 1)}
Counted == (<<1, 0>> :> 3) @@ (<<2, 0>> :> 1)   \* one was swept before

Racing    == [Scene EXCEPT !.actors = {"k1", "k2"}]
Colliding == [Scene EXCEPT !.actors = {"k2", "k3", "k4", "clock"}]
Outliving == [Scene EXCEPT !.actors = {"k6", "sweeper", "clock"}, !.now = 2, !.accounts = <<A1>>,
                           !.rows = {NewRow("c1", 1, 0)}, !.usage = <<1, 0>> :> 1]
Expiring  == [Scene EXCEPT !.actors = {"k5", "walk", "sweeper", "clock"}, !.now = 2,
                           !.rows = Three, !.usage = Counted]
MCLinks == <<NewLink(1, <<1, 3>>, 4), NewLink(2, <<2>>, 4)>>
Showing   == [Scene EXCEPT !.actors = {"v1", "owner", "sweeper", "clock"}, !.now = 2,
                           !.rows = Three, !.usage = Counted, !.rotten = {"c2"},
                           !.links = MCLinks]
Sharing   == [Showing EXCEPT !.actors = {"maker", "sweeper", "clock"}, !.links = <<>>]
Joining   == [Scene EXCEPT !.actors = {"s1", "s2", "checkout"}]
Ordering  == [Scene EXCEPT !.actors = {"checkout", "again", "renewal", "invoice"}]
Keeping   == [Scene EXCEPT !.actors = {"v2", "v3", "s1"},
                           !.keys = <<NewKey(1, "h1"), NewKey(2, "h2")>>]
Owing     == [Scene EXCEPT !.actors = {"b1", "b2", "clock"}, !.now = 3,
                           !.rows = {NewRow("c1", 1, 0), NewRow("c2", 1, 2)},
                           !.usage = (<<1, 0>> :> 1) @@ (<<1, 1>> :> 2)]
Metering  == [Owing EXCEPT !.actors = {"b1", "b2", "k2"}]

MCEmailOf == [s \in Signups |-> "e3"]
MCPeriods ==   \* the month before, which the clock moves on, and overlaps of it
  {<<None, None>>, <<0, 2>>, <<1, 2>>, <<2, 2>>, <<None, 2>>}
MCTwoPuts == {Racing}
MCOwing == {Owing}
MCScenes == {Racing, Colliding, Outliving, Expiring, Showing, Sharing, Joining, Ordering,
             Keeping, Owing, Metering}
=============================================================================
