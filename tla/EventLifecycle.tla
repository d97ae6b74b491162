--------------------------- MODULE EventLifecycle ---------------------------
(***************************************************************************)
(* What the worker promises about an event, without saying how: the states  *)
(* of worker/src/model.rs (EventStatus) and the moves a reader of           *)
(* webhook_events may see.                                                  *)
(*                                                                         *)
(*   - an event is pending until it is settled, once, as delivered or       *)
(*     failed, and a settled event never changes again;                     *)
(*   - attempts are counted one by one, only while the event is pending;    *)
(*   - two workers at one event, or one that starts from an older version,  *)
(*     make it contended: from then on each may write its own verdict and   *)
(*     its own count over the other's;                                      *)
(*   - in any case an event does not disappear, is delivered only if an     *)
(*     attempt was counted, and its count does not go back to nothing.      *)
(***************************************************************************)
EXTENDS Integers

CONSTANT Events

VARIABLES status, tries, contended

vars == <<status, tries, contended>>

Init ==
    /\ status = [e \in Events |-> "absent"]
    /\ tries = [e \in Events |-> 0]
    /\ contended = [e \in Events |-> FALSE]

(* The ingestion API stores the event.                                      *)
Create(e) ==
    /\ status[e] = "absent"
    /\ status' = [status EXCEPT ![e] = "pending"]
    /\ UNCHANGED <<tries, contended>>

(* One more attempt has been made and counted.                              *)
Attempt(e) ==
    /\ status[e] = "pending"
    /\ tries' = [tries EXCEPT ![e] = @ + 1]
    /\ UNCHANGED <<status, contended>>

Deliver(e) ==
    /\ status[e] = "pending" /\ tries[e] > 0
    /\ status' = [status EXCEPT ![e] = "delivered"]
    /\ UNCHANGED <<tries, contended>>

(* Failed without an attempt when the customer has no active config.        *)
Fail(e) ==
    /\ status[e] = "pending"
    /\ status' = [status EXCEPT ![e] = "failed"]
    /\ UNCHANGED <<tries, contended>>

(* A second worker takes the event up.                                      *)
Contend(e) ==
    /\ status[e] # "absent"
    /\ contended' = [contended EXCEPT ![e] = TRUE]
    /\ UNCHANGED <<status, tries>>

(* One of them counts its attempt, from what it read.                       *)
Recount(e) ==
    /\ contended[e] /\ status[e] # "absent"
    /\ tries'[e] \in Nat \ {0} /\ tries' = [tries EXCEPT ![e] = tries'[e]]
    /\ UNCHANGED <<status, contended>>

(* One of them writes its verdict, or that it will retry.                   *)
Overwrite(e) ==
    /\ contended[e] /\ status[e] # "absent"
    /\ \E s \in {"pending", "delivered", "failed"} :
         /\ s = "delivered" => tries[e] > 0
         /\ status' = [status EXCEPT ![e] = s]
    /\ UNCHANGED <<tries, contended>>

Next ==
    \E e \in Events :
        \/ Create(e) \/ Attempt(e) \/ Deliver(e) \/ Fail(e)
        \/ Contend(e) \/ Recount(e) \/ Overwrite(e)

Spec == Init /\ [][Next]_vars
=============================================================================
