------------------------------ MODULE MCWorker ------------------------------
(* Worker on small instances: one customer; ticks of about half a minute,   *)
(* in which the recovery timeout is the longest delay.                      *)
EXTENDS Worker

CONSTANTS w1, w2, m1, m2, m3, m4, e1, e2, e3, c1

OneCustomer == [e \in Events |-> c1]
NoPoison    == {}
OnePoison   == {m3}

SameEvent  == [m \in Messages |-> e1]
OwnEvents  == [m \in Messages |-> IF m = m1 THEN e1 ELSE IF m = m4 THEN e3 ELSE e2]
=============================================================================
