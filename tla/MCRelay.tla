------------------------------- MODULE MCRelay -------------------------------
(* Relay on a small instance: one customer, the messages numbered by event. *)
EXTENDS Relay

CONSTANTS w1, c1, k1, p1, o1, o2

OneCustomer == [e \in Events |-> c1]
Requests    == 1..MaxRequests
Numbered    == Requests \X (1..MaxSends)
FirstOf     == [m \in Messages |-> m[1]]
=============================================================================
