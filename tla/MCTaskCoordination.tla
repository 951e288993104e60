------------------------- MODULE MCTaskCoordination -------------------------
(* Instances of TaskCoordination for TLC: the calls an instance explores.    *)
EXTENDS TaskCoordination, TLC

CONSTANTS t1, t2, p1, p2, a1, a2

ThreeCalls == {<<p1, 1>>, <<p1, 2>>, <<p2, 1>>}

A(kind, ids, to, under, agent) == [kind |-> kind, ids |-> ids, to |-> to, parent |-> under, agent |-> agent]

Complete(ids) == A("update", ids, "completed", Keep, None)
ThreeCallsAsk ==
  <<p1, 1>> :> {Complete(<<t2, t1>>), A("update", <<t1>>, "completed", t2, None)} @@
  <<p1, 2>> :> {A("interactive", <<>>, "pending", Keep, None), A("claim", <<t1>>, Keep, Keep, a1)} @@
  <<p2, 1>> :> {A("items", <<t1, t2>>, "completed", Keep, None), A("claim", <<t1>>, Keep, Keep, a2)}
=============================================================================
