-------------------------- MODULE Ingestion_proofs --------------------------
(***************************************************************************)
(* Theorems about Ingestion, for any number of keys, requests and           *)
(* reconcilers, and any number of failed calls, crashes and expiries.       *)
(***************************************************************************)
EXTENDS Ingestion, TLAPS

-----------------------------------------------------------------------------
(* Type correctness, in three parts.                                        *)

TablesOK ==
    /\ idempotency \in [Keys -> Requests \cup {NoEvent}]
    /\ events \in [Requests -> Item]
    /\ index \in [Requests -> Item]
    /\ orphaned \subseteq Requests /\ sent \subseteq Requests
    /\ faults \in Nat /\ crashes \in Nat
    /\ window \in [Requests -> Nat] /\ period \in [Keys -> Nat]

HandlersOK ==
    /\ started \in 0..MaxRequests /\ aged \in 0..started
    /\ pc \in [Requests -> HandlerSteps]
    /\ \A r \in Requests : pc[r] = "new" <=> r > started
    /\ key \in [Requests -> Keys]
    /\ answer \in [Requests -> Answer]

ReconcilersOK ==
    /\ rpc \in [Reconcilers -> ReconcilerSteps]
    /\ todo \in [Reconcilers -> SUBSET Requests]
    /\ \A p \in Reconcilers : rpc[p] = "fetch" <=> todo[p] = {}

(* A handler under way moves on or answers.                                 *)
LEMMA HandlerMoves ==
    ASSUME HandlersOK, NEW r \in Requests, pc[r] # "new",
           \/ \E step \in HandlerSteps \ {"new"} : GoTo(r, step)
           \/ \E code \in {0, 200, 202, 404, 422, 500},
                 e \in Requests \cup {NoEvent} : Respond(r, code, e),
           UNCHANGED <<started, aged, key>>
    PROVE  HandlersOK'
<1>1. PICK step \in HandlerSteps \ {"new"} : pc' = [pc EXCEPT ![r] = step]
  BY DEF GoTo, Respond, HandlerSteps
<1>2. pc' \in [Requests -> HandlerSteps]
  BY <1>1 DEF HandlersOK
<1>3. \A q \in Requests : pc'[q] = "new" <=> q > started
  BY <1>1 DEF HandlersOK
<1>4. answer' \in [Requests -> Answer]
  <2>1. CASE UNCHANGED answer
    BY <2>1 DEF HandlersOK
  <2>2. ASSUME NEW code \in {0, 200, 202, 404, 422, 500},
               NEW e \in Requests \cup {NoEvent}, Respond(r, code, e)
        PROVE  answer' \in [Requests -> Answer]
    <3>1. [code |-> code, event_id |-> e] \in Answer
      BY DEF Answer
    <3> QED  BY <2>2, <3>1 DEF Respond, HandlersOK
  <2> QED  BY <2>1, <2>2 DEF GoTo
<1> QED  BY <1>2, <1>3, <1>4 DEF HandlersOK

(* A reconciler's run ends.                                                 *)
LEMMA EndRunType ==
    ASSUME ReconcilersOK, NEW p \in Reconcilers, EndRun(p)
    PROVE  ReconcilersOK'
  BY DEF ReconcilersOK, EndRun, ReconcilerSteps

LEMMA TypeNext == TypeOK /\ [Next]_vars => TypeOK'
<1> SUFFICES ASSUME TablesOK, HandlersOK, ReconcilersOK, [Next]_vars
             PROVE  TablesOK' /\ HandlersOK' /\ ReconcilersOK'
  BY DEF TypeOK, TablesOK, HandlersOK, ReconcilersOK
<1>1. ASSUME NEW r \in Requests, Start(r)
      PROVE  TablesOK' /\ HandlersOK' /\ ReconcilersOK'
  <2>1. PICK step \in HandlerSteps \ {"new"} : pc' = [pc EXCEPT ![r] = step]
    BY <1>1 DEF Start, GoTo, Respond, HandlerSteps
  <2>2. r = started + 1 /\ started' = r /\ r \in 1..MaxRequests
    BY <1>1 DEF Start, Requests
  <2>3. \A q \in Requests : pc'[q] = "new" <=> q > started'
    <3>1. \A q \in Requests : q \in Nat
      BY IngestionAssumption DEF Requests
    <3> QED  BY <2>1, <2>2, <3>1, IngestionAssumption DEF HandlersOK
  <2>4. started' \in 0..MaxRequests /\ aged' \in 0..started'
    BY <1>1, <2>2, IngestionAssumption DEF Start, HandlersOK
  <2>5. answer' \in [Requests -> Answer]
    <3>1. [code |-> 422, event_id |-> NoEvent] \in Answer
      BY DEF Answer
    <3> QED  BY <1>1, <3>1 DEF Start, GoTo, Respond, HandlersOK
  <2> QED
    BY <1>1, <2>1, <2>3, <2>4, <2>5
    DEF Start, TablesOK, HandlersOK, ReconcilersOK, reconcilers
<1>2. ASSUME NEW r \in Requests, CheckAndRecord(r)
      PROVE  TablesOK' /\ HandlersOK' /\ ReconcilersOK'
  <2>1. key[r] \in Keys
    BY DEF HandlersOK
  <2>2. TablesOK'
    BY <1>2, <2>1 DEF CheckAndRecord, Fault, TablesOK
  <2>3. HandlersOK'
    BY <1>2, HandlerMoves DEF CheckAndRecord, HandlerSteps
  <2> QED
    BY <1>2, <2>2, <2>3 DEF CheckAndRecord, ReconcilersOK, reconcilers
<1>3. ASSUME NEW r \in Requests, GetExistingEventId(r)
      PROVE  TablesOK' /\ HandlersOK' /\ ReconcilersOK'
  <2>1. idempotency[key[r]] \in Requests \cup {NoEvent}
    BY DEF TablesOK, HandlersOK
  <2>2. HandlersOK'
    BY <1>3, <2>1, HandlerMoves DEF GetExistingEventId
  <2> QED
    BY <1>3, <2>2 DEF GetExistingEventId, Fault, TablesOK, ReconcilersOK, reconcilers
<1>4. ASSUME NEW r \in Requests, CreateEvent(r)
      PROVE  TablesOK' /\ HandlersOK' /\ ReconcilersOK'
  <2>1. HandlersOK'
    BY <1>4, HandlerMoves DEF CreateEvent, CreateFailed, HandlerSteps
  <2>2. events' \in [Requests -> Item]
    BY <1>4 DEF CreateEvent, TablesOK, Item
  <2> QED
    BY <1>4, <2>1, <2>2 DEF CreateEvent, Fault, TablesOK, ReconcilersOK, reconcilers
<1>5. ASSUME NEW r \in Requests, EnqueueEvent(r) \/ MarkEventOrphaned(r)
      PROVE  TablesOK' /\ HandlersOK' /\ ReconcilersOK'
  <2>1. HandlersOK'
    BY <1>5, HandlerMoves
    DEF EnqueueEvent, EnqueueFailed, MarkEventOrphaned, HandlerSteps
  <2> QED
    BY <1>5, <2>1 DEF EnqueueEvent, MarkEventOrphaned, Fault, TablesOK,
                      ReconcilersOK, reconcilers
<1>6. ASSUME NEW r \in Requests, CrashHandler(r)
      PROVE  TablesOK' /\ HandlersOK' /\ ReconcilersOK'
  <2>1. HandlersOK'
    BY <1>6, HandlerMoves DEF CrashHandler, HandlerSteps
  <2> QED
    BY <1>6, <2>1 DEF CrashHandler, TablesOK, ReconcilersOK, reconcilers
<1>7. ASSUME NEW r \in Requests, Touch(r) \/ Propagate(r)
      PROVE  TablesOK' /\ HandlersOK' /\ ReconcilersOK'
  <2>1. IndexEntry(r) \in Item
    BY DEF IndexEntry, TablesOK, Item
  <2> QED
    BY <1>7, <2>1 DEF Touch, Propagate, TablesOK, HandlersOK, ReconcilersOK,
                      Item, handlers, reconcilers
<1>8. ASSUME NEW p \in Reconcilers, FetchOrphanedEvents(p)
      PROVE  TablesOK' /\ HandlersOK' /\ ReconcilersOK'
  <2>1. {r \in Page : Eligible(index[r])} \subseteq Requests
    BY DEF Page
  <2>2. ReconcilersOK'
    BY <1>8, <2>1 DEF FetchOrphanedEvents, ReconcilersOK, ReconcilerSteps
  <2> QED
    BY <1>8, <2>2 DEF FetchOrphanedEvents, TablesOK, HandlersOK, handlers
<1>9. ASSUME NEW p \in Reconcilers, NEW r \in Requests,
             Requeue(p, r) \/ ClearOrphanedMarker(p, r)
      PROVE  TablesOK' /\ HandlersOK' /\ ReconcilersOK'
  <2>1. TablesOK' /\ HandlersOK'
    BY <1>9 DEF Requeue, ClearOrphanedMarker, Fault, TablesOK, HandlersOK, handlers
  <2>2. CASE EndRun(p)
    BY <2>1, <2>2, EndRunType
  <2>3. CASE rpc' = [rpc EXCEPT ![p] = "clear_orphaned_marker"] /\ UNCHANGED todo
    BY <1>9, <2>1, <2>3
    DEF Requeue, ClearOrphanedMarker, ReconcilersOK, ReconcilerSteps
  <2>4. CASE /\ todo' = [todo EXCEPT ![p] = @ \ {r}]
             /\ rpc' = [rpc EXCEPT ![p] =
                  IF todo'[p] = {} THEN "fetch" ELSE "enqueue_event"]
    BY <2>1, <2>4 DEF ReconcilersOK, ReconcilerSteps
  <2> QED
    BY <1>9, <2>2, <2>3, <2>4 DEF Requeue, RequeueFailed, ClearOrphanedMarker
<1>10. ASSUME NEW p \in Reconcilers, CrashReconciler(p)
       PROVE  TablesOK' /\ HandlersOK' /\ ReconcilersOK'
  BY <1>10, EndRunType DEF CrashReconciler, TablesOK, HandlersOK, handlers
<1>11. ASSUME NEW k \in Keys, Expire(k)
       PROVE  TablesOK' /\ HandlersOK' /\ ReconcilersOK'
  BY <1>11 DEF Expire, TablesOK, HandlersOK, ReconcilersOK, handlers, reconcilers
<1>12. CASE Age
  <2>1. aged' \in 0..started'
    BY <1>12, IngestionAssumption DEF Age, HandlersOK, handlers
  <2> QED
    BY <1>12, <2>1 DEF Age, TablesOK, HandlersOK, ReconcilersOK, handlers, reconcilers
<1>13. CASE UNCHANGED vars
  BY <1>13 DEF vars, TablesOK, HandlersOK, ReconcilersOK, handlers, reconcilers
<1> QED
  BY <1>1, <1>2, <1>3, <1>4, <1>5, <1>6, <1>7, <1>8, <1>9, <1>10, <1>11,
     <1>12, <1>13 DEF Next, Handle, Reconcile

(* The handlers and the reconcilers keep their tables, markers and loop     *)
(* variables well formed; in particular a reconciler is in its loop exactly *)
(* while it has events left (reconcile.rs 29-37).                           *)
THEOREM TypeCorrect == Spec => []TypeOK
<1>1. Init => TypeOK
  BY IngestionAssumption
  DEF Init, TypeOK, Requests, NoEvent, HandlerSteps, ReconcilerSteps, Item,
      Answer, NoAnswer
<1> QED  BY <1>1, TypeNext, PTL DEF Spec
=============================================================================
