----------------------------- MODULE MCFulfilment ------------------------------
(* Fulfilment for TLC.  Two products of which both fit a robot only one at a *)
(* time, or together, depending on Capacity.                                 *)
EXTENDS Fulfilment

CONSTANTS c1, c2, r1, r2, light, heavy

OneCart   == {c1}
TwoCarts  == {c1, c2}
OneRobot  == {r1}
TwoRobots == {r1, r2}
TwoProducts == {light, heavy}

ProductWeight == [p \in TwoProducts |-> IF p = light THEN 1 ELSE 2]
ProductValue  == [p \in TwoProducts |-> 1]

Item(p, n) == [product |-> p, quantity |-> n]

\* One piece of each and two of a kind, from products given more than once: a
\* smaller quantity later on, and none in the end; and nothing to order.
SomeLists ==
  {<<Item(light, 2), Item(heavy, 1), Item(light, 1), Item(heavy, 0)>>,
   <<Item(light, 3), Item(light, 2), Item(heavy, -1), Item(light, 0)>>,
   <<Item(heavy, 0)>>}

\* Bound: two carts beside one plan, or two plans of which the second is asked
\* for once the only cart is confirmed.  Carts are alike and so are robots: c1
\* is sent first, and r1 asks first.
Bounded ==
  /\ nextPlan > 2 => cart[c1] = "created" /\ cart[c2] = "idle"
  /\ cart[c1] = "idle" => cart[c2] = "idle"
  /\ job[r1] = 0 => job[r2] = 0

BoundedSpec == Init /\ [][Next /\ Bounded']_vars

OneOfEach == {<<Item(light, 1), Item(heavy, 1)>>}
OneLight  == {<<Item(light, 1)>>}
================================================================================
