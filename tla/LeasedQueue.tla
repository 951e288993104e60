----------------------------- MODULE LeasedQueue -----------------------------
(***************************************************************************)
(* What the outbox promises, without deadlines, batches, databases or the  *)
(* inner states of processes: a queue of items taken under a lease.  An    *)
(* item holds the payload submitted last.  A taker keeps in its hand a     *)
(* copy of what it took; it settles the item, gives it back or records a   *)
(* failed try only while the item is still taken by it AND still holds the *)
(* payload in its hand.  Limit failed tries park the item, and only a new  *)
(* submission or its removal ends a parked or settled state.               *)
(***************************************************************************)
EXTENDS Integers

CONSTANTS Items, Payloads, Takers, Nobody, Nothing, Limit

VARIABLES
  item,   \* stage, payload, taker and failed tries of each item
  hand    \* what each taker has in its hand: items with the payload it took

Stages == {"none", "waiting", "taken", "lapsed", "settled", "parked"}
Copies == [entity: Items, content: Payloads]

LQTypeOK ==
  /\ item \in [Items -> [stage: Stages, payload: Payloads \cup {Nothing},
                         taker: Takers \cup {Nobody}, tries: 0..Limit]]
  /\ hand \in [Takers -> SUBSET Copies]

Absent == [stage |-> "none", payload |-> Nothing, taker |-> Nobody, tries |-> 0]
Waiting(c, n) == [stage |-> "waiting", payload |-> c, taker |-> Nobody, tries |-> n]
InTheHandOf(x, t) == x.stage \in {"taken", "lapsed"} /\ x.taker = t

LQInit ==
  /\ item = [i \in Items |-> Absent]
  /\ hand = [t \in Takers |-> {}]

-----------------------------------------------------------------------------
(* Steps of the owner of the queue, on any number of items, from row x to row y *)

\* A new payload, or the old one again once nobody has to work on it any more.
Submit(x, y) ==
  \E c \in Payloads : /\ y = Waiting(c, 0)
                      /\ c # x.payload \/ x.stage \in {"none", "settled", "parked"}
Remove(x, y) == y = Absent
Lapse(x, y) == x.stage = "taken" /\ y = [x EXCEPT !.stage = "lapsed"]
Reclaim(x, y) == x.stage = "lapsed" /\ y = Waiting(x.payload, x.tries)

OwnerStep ==
  /\ \A i \in Items : \/ item'[i] = item[i]
                      \/ Submit(item[i], item'[i]) \/ Remove(item[i], item'[i])
                      \/ Lapse(item[i], item'[i]) \/ Reclaim(item[i], item'[i])
  /\ item' = [i \in Items |-> item'[i]]
  /\ UNCHANGED hand

(* Steps of a taker *)
Take(t, S) ==
  /\ \A i \in S : item[i].stage \in {"waiting", "lapsed"}
  /\ item' = [i \in Items |-> IF i \in S THEN [item[i] EXCEPT !.stage = "taken", !.taker = t]
                              ELSE item[i]]
  /\ hand' = [hand EXCEPT ![t] = {[entity |-> i, content |-> item[i].payload] : i \in S}]

Settled(x) == [x EXCEPT !.stage = "settled", !.taker = Nobody]
Missed(x) == IF x.tries + 1 >= Limit
             THEN [x EXCEPT !.stage = "parked", !.taker = Nobody, !.tries = x.tries + 1]
             ELSE Waiting(x.payload, x.tries + 1)

\* The taker ends its work on one item, with an outcome.
Finish(t, j) ==
  LET x == item[j.entity]
  IN  /\ j \in hand[t] /\ InTheHandOf(x, t) /\ x.payload = j.content
      /\ \E y \in {Settled(x), Missed(x), Waiting(x.payload, x.tries)} :
            item' = [item EXCEPT ![j.entity] = y]
      /\ hand' = [hand EXCEPT ![t] = @ \ {j}]

\* The taker drops copies: the item is no longer its own, or it crashed.
Drop(t, H) ==
  /\ hand' = [hand EXCEPT ![t] = H]
  /\ UNCHANGED item

LQNext ==
  \/ OwnerStep
  \/ \E t \in Takers : \/ \E S \in SUBSET Items : Take(t, S)
                       \/ \E j \in hand[t] : Finish(t, j)
                       \/ \E H \in SUBSET hand[t] : Drop(t, H)

LQSpec == LQInit /\ [][LQNext]_<<item, hand>>
=============================================================================
