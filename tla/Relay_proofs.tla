---------------------------- MODULE Relay_proofs ----------------------------
(***************************************************************************)
(* The whole relay runs the worker of Worker and implements Ingestion, so   *)
(* that what was proved of either holds of it; and what follows from both   *)
(* together: an accepted event is not lost, and of the requests that carry  *)
(* a key at most one is delivered.  For any number of requests, keys,       *)
(* workers, reconcilers, operators, failed calls and crashes.               *)
(***************************************************************************)
EXTENDS Relay, WorkerSafety_proofs

-----------------------------------------------------------------------------
(* What a step of the workers does to a message and to an item *)

(* A worker, or the redrive policy, takes a message out of the queue.       *)
LEMMA PlaceMoves ==
    ASSUME TypeInv, Serve, NEW m \in Messages
    PROVE  \/ queue'[m].place = queue[m].place
           \/ /\ queue[m].place = "queue"
              /\ queue'[m].place \in {"deleted", "dlq"}
<1>1. CASE queue' = queue
  BY <1>1
<1>2. ASSUME NEW w \in Workers, Receive(w)
      PROVE  queue'[m].place = queue[m].place
  <2>1. PICK batch \in SUBSET Messages :
          queue' = [k \in Messages |->
            IF k \in batch
            THEN [queue[k] EXCEPT !.hidden = HiddenFor(0), !.receives = @ + 1]
            ELSE queue[k]]
    BY <1>2 DEF Receive
  <2>2. queue[m] \in QueueEntry
    BY DEF TypeInv, TypeOK
  <2> QED  BY <2>1, <2>2 DEF QueueEntry
<1>3. ASSUME NEW w \in Workers, DeleteMessage(w)
      PROVE  \/ queue'[m].place = queue[m].place
             \/ queue[m].place = "queue" /\ queue'[m].place = "deleted"
  <2> DEFINE k == job[w].message
             gone == [queue[k] EXCEPT !.place = "deleted", !.hidden = 0]
  <2>1. \/ queue' = queue
        \/ queue[k].place = "queue" /\ queue' = [queue EXCEPT ![k] = gone]
    BY <1>3, Zenon DEF DeleteMessage
  <2>2. queue \in [Messages -> QueueEntry]
    BY DEF TypeInv, TypeOK
  <2>3. ASSUME k \in Messages PROVE gone.place = "deleted"
    BY <2>2, <2>3 DEF QueueEntry
  <2> HIDE DEF gone, k
  <2>4. CASE m = k
    BY <2>1, <2>2, <2>3, <2>4
  <2>5. CASE m # k
    BY <2>1, <2>2, <2>5
  <2> QED  BY <2>4, <2>5
<1>4. ASSUME NEW w \in Workers, ChangeVisibility(w)
      PROVE  queue'[m].place = queue[m].place
  <2> DEFINE d == HiddenFor(delay[w])
  <2>1. \/ queue' = queue
        \/ queue' = [queue EXCEPT ![job[w].message].hidden = d]
    BY <1>4 DEF ChangeVisibility
  <2> HIDE DEF d
  <2>2. queue[m] \in QueueEntry /\ queue \in [Messages -> QueueEntry]
    BY DEF TypeInv, TypeOK
  <2>3. [queue[m] EXCEPT !.hidden = d].place = queue[m].place
    BY <2>2 DEF QueueEntry
  <2> QED  BY <2>1, <2>2, <2>3
<1>5. ASSUME NEW k \in Messages, Redrive(k)
      PROVE  \/ queue'[m].place = queue[m].place
             \/ queue[m].place = "queue" /\ queue'[m].place = "dlq"
  <2>1. /\ queue[k].place = "queue"
        /\ queue' = [queue EXCEPT ![k] = [@ EXCEPT !.place = "dlq"]]
    BY <1>5 DEF Redrive, Visible
  <2>2. queue \in [Messages -> QueueEntry] /\ queue[k] \in QueueEntry
    BY DEF TypeInv, TypeOK
  <2>3. [queue[k] EXCEPT !.place = "dlq"].place = "dlq"
    BY <2>2 DEF QueueEntry
  <2> QED  BY <2>1, <2>2, <2>3
<1>6. ASSUME Tick PROVE queue'[m].place = queue[m].place
  <2>1. queue[m] \in QueueEntry
    BY DEF TypeInv, TypeOK
  <2> QED  BY <1>6, <2>1 DEF Tick, QueueEntry
<1>7. ASSUME NEW w \in Workers,
             \/ Crash(w) \/ Process(w) \/ GetEvent(w) \/ GetConfig(w) \/ GetBreaker(w)
             \/ PutBreaker(w) \/ Deliver(w) \/ RecordAttempt(w)
             \/ IncrementAttemptCount(w) \/ UpdateEventStatus(w)
      PROVE  queue' = queue
  BY <1>7 DEF Crash, Process, GetEvent, GetConfig, GetBreaker, PutBreaker, Deliver,
              RecordAttempt, IncrementAttemptCount, UpdateEventStatus
<1>8. ASSUME \/ \E e \in Events : Replicate(e)
             \/ \E c \in Customers : PutConfig(c)
      PROVE  queue' = queue
  BY <1>8 DEF Replicate, PutConfig
<1>9. \/ queue' = queue \/ Tick
      \/ \E w \in Workers : Receive(w) \/ DeleteMessage(w) \/ ChangeVisibility(w)
      \/ \E k \in Messages : Redrive(k)
  BY <1>7, <1>8 DEF Serve, Work
<1> QED  BY <1>1, <1>2, <1>3, <1>4, <1>5, <1>6, <1>9

(* A worker changes one item at most, of an event that exists and that a    *)
(* message was sent for.                                                    *)
LEMMA ServeTouches ==
    ASSUME TypeInv, InHandSent, Serve
    PROVE  \/ events' = events
           \/ \E e \in Events, item \in Event :
                /\ events[e] # NoItem /\ SentFor(e) # {}
                /\ events' = [events EXCEPT ![e] = item]
<1>1. ASSUME NEW w \in Workers, pc[w] \in AtItem
      PROVE  /\ Ev(w) \in Events /\ events[Ev(w)] # NoItem
             /\ events[Ev(w)] \in Event /\ SentFor(Ev(w)) # {}
  <2>1. Ev(w) \in Events /\ events[Ev(w)] # NoItem
    BY <1>1, JobType DEF TypeInv, AtItem
  <2>2. job[w].message \in Messages /\ Sent(job[w].message)
    BY <1>1, JobType DEF TypeInv, AtItem, Receipt, InHandSent
  <2>3. job[w].message \in SentFor(Ev(w))
    BY <2>2 DEF SentFor, Sent, Ev
  <2> QED  BY <2>1, <2>3 DEF TypeInv, TypeOK
<1>2. ASSUME NEW w \in Workers, IncrementAttemptCount(w), events' # events
      PROVE  \E e \in Events, item \in Event :
                /\ events[e] # NoItem /\ SentFor(e) # {}
                /\ events' = [events EXCEPT ![e] = item]
  <2> DEFINE item == [events[Ev(w)] EXCEPT !.attempt_count = CountedAttempts(event[w])]
  <2>1. events' = [events EXCEPT ![Ev(w)] = item]
    BY <1>2 DEF IncrementAttemptCount
  <2>2. pc[w] \in AtItem
    BY <1>2 DEF IncrementAttemptCount, AtItem, Steps
  <2>3. CountedAttempts(event[w]) \in Nat
    BY EventType DEF TypeInv, TypeOK
  <2>4. item \in Event
    BY <1>1, <2>2, <2>3 DEF Event
  <2> HIDE DEF item
  <2> QED  BY <1>1, <2>1, <2>2, <2>4
<1>3. ASSUME NEW w \in Workers, UpdateEventStatus(w), events' # events
      PROVE  \E e \in Events, item \in Event :
                /\ events[e] # NoItem /\ SentFor(e) # {}
                /\ events' = [events EXCEPT ![e] = item]
  <2> DEFINE item == Written(events[Ev(w)], event[w])
  <2>1. events' = [events EXCEPT ![Ev(w)] = item]
    BY <1>3 DEF UpdateEventStatus
  <2>2. pc[w] \in AtItem
    BY <1>3 DEF UpdateEventStatus, AtItem, Steps
  <2>3. event[w] \in Event
    BY DEF TypeInv, TypeOK
  <2>4. item \in Event
    BY <1>1, <2>2, <2>3, EventType
  <2> HIDE DEF item
  <2> QED  BY <1>1, <2>1, <2>2, <2>4
<1>4. ASSUME NEW w \in Workers,
             \/ Receive(w) \/ Crash(w) \/ Process(w) \/ GetEvent(w) \/ GetConfig(w)
             \/ GetBreaker(w) \/ PutBreaker(w) \/ Deliver(w)
             \/ RecordAttempt(w) \/ DeleteMessage(w) \/ ChangeVisibility(w)
      PROVE  events' = events
  BY <1>4 DEF Receive, Crash, Process, GetEvent, GetConfig, GetBreaker, PutBreaker,
              Deliver, RecordAttempt, DeleteMessage,
              ChangeVisibility, tables
<1>5. ASSUME \/ \E m \in Messages : Redrive(m)
             \/ \E e \in Events : Replicate(e)
             \/ \E c \in Customers : PutConfig(c)
             \/ Tick
      PROVE  events' = events
  BY <1>5 DEF Redrive, Replicate, PutConfig, Tick, tables
<1>6. \/ events' = events
      \/ \E w \in Workers : IncrementAttemptCount(w) \/ UpdateEventStatus(w)
  BY <1>4, <1>5 DEF Serve, Work
<1> QED  BY <1>2, <1>3, <1>6

-----------------------------------------------------------------------------
(* The counts of the messages and the runs of the script *)

(* What a run of the script selected was sent, and after it sent a copy of  *)
(* a message, that is not the last message of its event any more.           *)
RunsOK ==
    \A o \in Operators : replays[o] # NoItem =>
        /\ \A m \in replays[o].batch : m[2] <= sends[m[1]]
        /\ replays[o].copied # NoItem =>
             replays[o].copied[2] < sends[replays[o].copied[1]]

CountsOK ==
    /\ sends \in [Events -> 0..MaxSends]
    /\ replays \in [Operators -> Replay \cup {NoItem}]
    /\ RunsOK

(* A message that was removed from the dead-letter queue is not the last of *)
(* its event, either.                                                       *)
PlacesOK ==
    \A m \in Messages :
        /\ queue[m].place = "unsent" <=> m[2] > sends[m[1]]
        /\ queue[m].place = "removed" => m[2] < sends[m[1]]

RelayInv == CountsOK /\ PlacesOK

(* The message sent next.                                                   *)
LEMMA SlotIsMessage ==
    ASSUME NEW e \in Events, NEW n \in 1..MaxSends
    PROVE  <<e, n>> \in Messages /\ EventOf[<<e, n>>] = e
  BY RelayAssumption

LEMMA MessageType ==
    ASSUME NEW m \in Messages
    PROVE  /\ m[1] \in Events /\ m[2] \in 1..MaxSends /\ EventOf[m] = m[1]
           /\ m = <<m[1], m[2]>>
  BY RelayAssumption

(* What a step of the API does to the tables and the queue of the worker.   *)
LEMMA ApiCases ==
    ASSUME ApiStep
    PROVE  /\ UNCHANGED replays
           /\ \/ SendNothing
              \/ \E e \in Events : StoreEvent(e) /\ UNCHANGED sends
              \/ \E e \in Events : Send(e)
  BY DEF ApiStep, HandleStep, StoreStep, EnqueueStep, ReconcileStep, RequeueStep,
         PropagateStep, AgeStep, CrashOrExpiry, SendNothing

LEMMA SendType ==
    ASSUME CountsOK, NEW e \in Events, Send(e)
    PROVE  /\ sends[e] + 1 \in 1..MaxSends
           /\ <<e, sends[e] + 1>> \in Messages
           /\ sends' \in [Events -> 0..MaxSends]
           /\ \A f \in Events : sends[f] <= sends'[f]
           /\ sends'[e] = sends[e] + 1
           /\ \A f \in Events \ {e} : sends'[f] = sends[f]
<1>1. sends[e] \in 0..MaxSends /\ sends[e] < MaxSends /\ MaxSends \in Nat
  BY RelayAssumption DEF CountsOK, Send
<1>2. sends[e] + 1 \in 1..MaxSends
  BY <1>1
<1> QED
  BY <1>1, <1>2, SlotIsMessage DEF CountsOK, Send

(* A run of the script that is not the one that moves stays right as the    *)
(* counts grow.                                                             *)
LEMMA RunsStay ==
    ASSUME CountsOK, NEW o \in Operators, replays[o] # NoItem,
           replays'[o] = replays[o],
           \A e \in Events : sends[e] <= sends'[e] /\ sends'[e] \in Nat
    PROVE  /\ \A m \in replays'[o].batch : m[2] <= sends'[m[1]]
           /\ replays'[o].copied # NoItem =>
                replays'[o].copied[2] < sends'[replays'[o].copied[1]]
<1>1. replays[o] \in Replay
  BY DEF CountsOK
<1>2. ASSUME NEW m \in replays[o].batch PROVE m[2] <= sends'[m[1]]
  <2>1. m \in Messages
    BY <1>1 DEF Replay
  <2> QED
    BY <2>1, MessageType DEF CountsOK, RunsOK
<1>3. ASSUME replays[o].copied # NoItem
      PROVE  replays[o].copied[2] < sends'[replays[o].copied[1]]
  <2>1. replays[o].copied \in Messages
    BY <1>1, <1>3 DEF Replay
  <2> QED
    BY <1>3, <2>1, MessageType DEF CountsOK, RunsOK
<1> QED  BY <1>2, <1>3

LEMMA OperatorType ==
    ASSUME CountsOK, NEW o \in Operators, replays[o] # NoItem
    PROVE  /\ replays[o] \in Replay /\ replays[o].batch \subseteq Messages
           /\ replays[o].copied # NoItem => replays[o].copied \in Messages
  BY DEF CountsOK, Replay

LEMMA CopyBackType ==
    ASSUME CountsOK, NEW o \in Operators, CopyBack(o)
    PROVE  \E m \in replays[o].batch :
             /\ m \in Messages /\ m[2] <= sends[m[1]] /\ m[1] \in Events
             /\ Send(m[1])
             /\ replays' = [replays EXCEPT ![o] = AfterCopy(@, m)]
<1>1. PICK m \in replays[o].batch :
        Send(EventOf[m]) /\ replays' = [replays EXCEPT ![o] = AfterCopy(@, m)]
  BY DEF CopyBack
<1>2. m \in Messages
  BY OperatorType DEF CopyBack
<1> QED
  BY <1>1, <1>2, MessageType DEF CountsOK, RunsOK, CopyBack

LEMMA CountsNext ==
    CountsOK /\ PlacesOK /\ [RelayNext]_relayVars => CountsOK'
<1> SUFFICES ASSUME CountsOK, PlacesOK, [RelayNext]_relayVars PROVE CountsOK'
  OBVIOUS
<1>1. ASSUME UNCHANGED replays, sends' \in [Events -> 0..MaxSends],
             \A e \in Events : sends[e] <= sends'[e]
      PROVE  CountsOK'
  <2>1. \A e \in Events : sends'[e] \in Nat
    BY <1>1, RelayAssumption
  <2>2. RunsOK'
    BY <1>1, <2>1, RunsStay DEF RunsOK
  <2> QED  BY <1>1, <2>2 DEF CountsOK
<1>2. ASSUME UNCHANGED sends
      PROVE  /\ sends' \in [Events -> 0..MaxSends]
             /\ \A e \in Events : sends[e] <= sends'[e] /\ sends'[e] \in Nat
  BY <1>2, RelayAssumption DEF CountsOK
<1>3. ASSUME NEW o \in Operators, NEW run \in Replay \cup {NoItem},
             replays' = [replays EXCEPT ![o] = run],
             sends' \in [Events -> 0..MaxSends],
             \A e \in Events : sends[e] <= sends'[e],
             run # NoItem =>
               /\ \A m \in run.batch : m[2] <= sends'[m[1]]
               /\ run.copied # NoItem => run.copied[2] < sends'[run.copied[1]]
      PROVE  CountsOK'
  <2>1. replays' \in [Operators -> Replay \cup {NoItem}]
    BY <1>3 DEF CountsOK
  <2>2. \A e \in Events : sends'[e] \in Nat
    BY <1>3, RelayAssumption
  <2>3. ASSUME NEW q \in Operators, replays'[q] # NoItem
        PROVE  /\ \A m \in replays'[q].batch : m[2] <= sends'[m[1]]
               /\ replays'[q].copied # NoItem =>
                    replays'[q].copied[2] < sends'[replays'[q].copied[1]]
    <3>1. CASE q = o
      BY <1>3, <2>3, <3>1 DEF CountsOK
    <3>2. CASE q # o
      <4>1. replays'[q] = replays[q]
        BY <1>3, <3>2 DEF CountsOK
      <4> QED  BY <1>3, <2>2, <2>3, <4>1, RunsStay
    <3> QED  BY <3>1, <3>2
  <2>4. RunsOK'
    BY <2>3 DEF RunsOK
  <2> QED  BY <1>3, <2>1, <2>4 DEF CountsOK
<1>4. CASE ApiStep
  BY <1>1, <1>2, <1>4, ApiCases, SendType DEF SendNothing
<1>5. CASE WorkerStep
  BY <1>1, <1>2, <1>5 DEF WorkerStep, Undisturbed
<1>6. ASSUME NEW o \in Operators, Select(o) PROVE CountsOK'
  <2>1. PICK batch \in SUBSET {m \in Messages : queue[m].place = "dlq"},
             delete \in BOOLEAN :
          replays' = [replays EXCEPT ![o] =
            [batch |-> batch, copied |-> NoItem, delete_after_replay |-> delete]]
    BY <1>6 DEF Select
  <2> DEFINE run == [batch |-> batch, copied |-> NoItem, delete_after_replay |-> delete]
  <2>2. run \in Replay /\ run.batch = batch /\ run.copied = NoItem
    BY DEF Replay
  <2>3. ASSUME NEW m \in batch PROVE m[2] <= sends[m[1]]
    BY MessageType DEF PlacesOK, CountsOK
  <2>4. replays' = [replays EXCEPT ![o] = run]
    BY <2>1
  <2>5. UNCHANGED sends
    BY <1>6 DEF Select
  <2> HIDE DEF run
  <2>6. \A m \in run.batch : m[2] <= sends'[m[1]]
    BY <2>2, <2>3, <2>5
  <2> QED  BY <1>2, <1>3, <2>2, <2>4, <2>5, <2>6
<1>7. ASSUME NEW o \in Operators, CopyBack(o) PROVE CountsOK'
  <2>1. PICK m \in replays[o].batch :
          /\ m \in Messages /\ m[2] <= sends[m[1]] /\ m[1] \in Events
          /\ Send(m[1])
          /\ replays' = [replays EXCEPT ![o] = AfterCopy(@, m)]
    BY <1>7, CopyBackType
  <2>2. /\ sends' \in [Events -> 0..MaxSends]
        /\ \A e \in Events : sends[e] <= sends'[e]
        /\ sends'[m[1]] = sends[m[1]] + 1
    BY <2>1, SendType
  <2>3. replays[o] \in Replay /\ replays[o] # NoItem
    BY <1>7, OperatorType DEF CopyBack
  <2> DEFINE run == AfterCopy(replays[o], m)
  <2>4. /\ run \in Replay
        /\ run.batch = replays[o].batch \ {m}
        /\ run.copied \in {m, NoItem}
    BY <2>1, <2>3 DEF AfterCopy, Replay
  <2>5. replays' = [replays EXCEPT ![o] = run]
    BY <2>1
  <2> HIDE DEF run
  <2>6. ASSUME NEW k \in run.batch PROVE k[2] <= sends'[k[1]]
    <3>1. k \in replays[o].batch /\ k \in Messages
      BY <2>3, <2>4 DEF Replay
    <3>2. k[2] <= sends[k[1]]
      BY <2>3, <3>1 DEF CountsOK, RunsOK
    <3>3. k[1] \in Events /\ k[2] \in 1..MaxSends
      BY <3>1, MessageType
    <3> QED  BY <2>2, <3>2, <3>3, RelayAssumption DEF CountsOK
  <2>7. m[2] < sends'[m[1]]
    BY <2>1, <2>2, MessageType, RelayAssumption DEF CountsOK
  <2>8. run.copied # NoItem => run.copied[2] < sends'[run.copied[1]]
    BY <2>4, <2>7
  <2> QED  BY <1>3, <2>2, <2>4, <2>5, <2>6, <2>8
<1>8. ASSUME NEW o \in Operators, DeleteOriginal(o) PROVE CountsOK'
  <2>1. /\ replays[o] # NoItem /\ UNCHANGED sends
        /\ replays' = [replays EXCEPT ![o] = [@ EXCEPT !.copied = NoItem]]
    BY <1>8 DEF DeleteOriginal
  <2>2. replays[o] \in Replay
    BY <2>1, OperatorType
  <2> DEFINE run == [replays[o] EXCEPT !.copied = NoItem]
  <2>3. run \in Replay /\ run.batch = replays[o].batch /\ run.copied = NoItem
    BY <2>2 DEF Replay
  <2>4. replays' = [replays EXCEPT ![o] = run]
    BY <2>1
  <2> HIDE DEF run
  <2>5. \A m \in run.batch : m[2] <= sends'[m[1]]
    BY <2>1, <2>3 DEF CountsOK, RunsOK
  <2> QED  BY <1>2, <1>3, <2>1, <2>3, <2>4, <2>5
<1>9. ASSUME NEW o \in Operators, EndReplay(o) PROVE CountsOK'
  BY <1>2, <1>3, <1>9 DEF EndReplay
<1>10. CASE UNCHANGED relayVars
  BY <1>1, <1>2, <1>10 DEF relayVars
<1> QED
  BY <1>4, <1>5, <1>6, <1>7, <1>8, <1>9, <1>10 DEF RelayNext, OperatorStep

-----------------------------------------------------------------------------
(* A step of the relay is, to the tables and the queue, one of Worker.      *)
LEMMA SendIsSupply ==
    ASSUME CountsOK, NEW e \in Events, Send(e)
    PROVE  Next
  BY SendType DEF Send, Next, Supply

LEMMA WorkerSteps == CountsOK /\ [RelayNext]_relayVars => [Next]_vars
<1> SUFFICES ASSUME CountsOK, [RelayNext]_relayVars PROVE [Next]_vars
  OBVIOUS
<1>1. CASE ApiStep
  BY <1>1, ApiCases, SendIsSupply DEF SendNothing, Next, Supply
<1>2. CASE WorkerStep
  BY <1>2 DEF WorkerStep, Next
<1>3. ASSUME NEW o \in Operators, Select(o) \/ EndReplay(o) PROVE UNCHANGED vars
  BY <1>3 DEF Select, EndReplay
<1>4. ASSUME NEW o \in Operators, CopyBack(o) PROVE Next
  BY <1>4, CopyBackType, SendIsSupply
<1>5. ASSUME NEW o \in Operators, DeleteOriginal(o) PROVE [Next]_vars
  <2>1. replays[o].copied \in Messages
    BY <1>5, OperatorType DEF DeleteOriginal
  <2>2. RemoveFromDlq(replays[o].copied) \/ UNCHANGED vars
    BY <1>5 DEF DeleteOriginal
  <2> QED  BY <2>1, <2>2 DEF Next, Supply
<1>6. CASE UNCHANGED relayVars
  BY <1>6 DEF relayVars
<1> QED
  BY <1>1, <1>2, <1>3, <1>4, <1>5, <1>6 DEF RelayNext, OperatorStep

LEMMA PlaceOfNext ==
    ASSUME TypeInv, NEW m \in Messages, NEW place \in {"queue", "removed"},
           queue' = [queue EXCEPT ![m].place = place]
    PROVE  /\ queue'[m].place = place
           /\ \A k \in Messages \ {m} : queue'[k].place = queue[k].place
<1>1. queue \in [Messages -> QueueEntry] /\ queue[m] \in QueueEntry
  BY DEF TypeInv, TypeOK
<1>2. [queue[m] EXCEPT !.place = place].place = place
  BY <1>1 DEF QueueEntry
<1> QED  BY <1>1, <1>2

LEMMA SendPlaces ==
    ASSUME TypeInv, CountsOK, PlacesOK, NEW e \in Events, Send(e)
    PROVE  PlacesOK'
<1> DEFINE n == <<e, sends[e] + 1>>
<1>1. /\ n \in Messages /\ n[1] = e /\ n[2] = sends[e] + 1
      /\ sends'[e] = sends[e] + 1
      /\ \A f \in Events \ {e} : sends'[f] = sends[f]
      /\ sends[e] \in Nat
  BY SendType, RelayAssumption DEF CountsOK
<1>2. queue' = [queue EXCEPT ![n].place = "queue"]
  BY DEF Send, Enqueue
<1> HIDE DEF n
<1>3. /\ queue'[n].place = "queue"
      /\ \A k \in Messages \ {n} : queue'[k].place = queue[k].place
  BY <1>1, <1>2, PlaceOfNext
<1> SUFFICES ASSUME NEW m \in Messages
             PROVE  /\ queue'[m].place = "unsent" <=> m[2] > sends'[m[1]]
                    /\ queue'[m].place = "removed" => m[2] < sends'[m[1]]
  BY DEF PlacesOK
<1>4. m[1] \in Events /\ m[2] \in Nat /\ sends[m[1]] \in Nat /\ m = <<m[1], m[2]>>
  BY MessageType, RelayAssumption DEF CountsOK
<1>5. CASE m = n
  BY <1>1, <1>3, <1>4, <1>5
<1>6. CASE m # n
  <2>1. queue'[m].place = queue[m].place
    BY <1>3, <1>6
  <2>2. CASE m[1] # e
    BY <1>1, <1>4, <2>1, <2>2 DEF PlacesOK
  <2>3. CASE m[1] = e
    <3>1. m[2] # sends[e] + 1
      BY <1>4, <1>6, <2>3 DEF n
    <3> QED
      BY <1>1, <1>4, <2>1, <2>3, <3>1 DEF PlacesOK
  <2> QED  BY <2>2, <2>3
<1> QED  BY <1>5, <1>6

LEMMA PlacesNext ==
    TypeInv /\ CountsOK /\ PlacesOK /\ [RelayNext]_relayVars => PlacesOK'
<1> SUFFICES ASSUME TypeInv, CountsOK, PlacesOK, [RelayNext]_relayVars
             PROVE  PlacesOK'
  OBVIOUS
<1>1. ASSUME UNCHANGED <<queue, sends>> PROVE PlacesOK'
  BY <1>1 DEF PlacesOK
<1>2. CASE ApiStep
  BY <1>1, <1>2, ApiCases, SendPlaces DEF SendNothing, vars, StoreEvent
<1>3. CASE WorkerStep
  <2>1. UNCHANGED sends
    BY <1>3 DEF WorkerStep, Undisturbed
  <2>2. ASSUME NEW m \in Messages
        PROVE  /\ queue'[m].place = "unsent" <=> queue[m].place = "unsent"
               /\ queue'[m].place = "removed" => queue[m].place = "removed"
    BY <1>3, PlaceMoves DEF WorkerStep
  <2> QED  BY <2>1, <2>2 DEF PlacesOK
<1>4. ASSUME NEW o \in Operators, Select(o) \/ EndReplay(o) PROVE PlacesOK'
  BY <1>1, <1>4 DEF Select, EndReplay, vars
<1>5. ASSUME NEW o \in Operators, CopyBack(o) PROVE PlacesOK'
  BY <1>5, CopyBackType, SendPlaces
<1>6. ASSUME NEW o \in Operators, DeleteOriginal(o) PROVE PlacesOK'
  <2> DEFINE d == replays[o].copied
  <2>1. d \in Messages /\ d[2] < sends[d[1]] /\ UNCHANGED sends
    BY <1>6, OperatorType DEF DeleteOriginal, CountsOK, RunsOK
  <2>2. \/ UNCHANGED queue
        \/ queue[d].place = "dlq" /\ queue' = [queue EXCEPT ![d].place = "removed"]
    BY <1>6 DEF DeleteOriginal, RemoveFromDlq, vars
  <2> HIDE DEF d
  <2>3. CASE UNCHANGED queue
    BY <1>1, <2>1, <2>3
  <2>4. CASE queue[d].place = "dlq" /\ queue' = [queue EXCEPT ![d].place = "removed"]
    <3>1. /\ queue'[d].place = "removed"
          /\ \A k \in Messages \ {d} : queue'[k].place = queue[k].place
      BY <2>1, <2>4, PlaceOfNext
    <3>2. d[2] \in Nat /\ sends[d[1]] \in Nat
      BY <2>1, MessageType, RelayAssumption DEF CountsOK
    <3> QED
      BY <2>1, <3>1, <3>2 DEF PlacesOK
  <2> QED  BY <2>2, <2>3, <2>4
<1>7. CASE UNCHANGED relayVars
  BY <1>1, <1>7 DEF relayVars, vars
<1> QED
  BY <1>2, <1>3, <1>4, <1>5, <1>6, <1>7 DEF RelayNext, OperatorStep

LEMMA RelayInitInv == RelayInit => RelayInv
<1> SUFFICES ASSUME RelayInit PROVE CountsOK /\ PlacesOK
  BY DEF RelayInv
<1>1. sends = [e \in Events |-> 0] /\ replays = [o \in Operators |-> NoItem]
  BY DEF RelayInit
<1>2. CountsOK
  BY <1>1, RelayAssumption DEF CountsOK, RunsOK
<1>3. PlacesOK
  <2> SUFFICES ASSUME NEW m \in Messages
               PROVE  /\ queue[m].place = "unsent" <=> m[2] > sends[m[1]]
                      /\ queue[m].place = "removed" => m[2] < sends[m[1]]
    BY DEF PlacesOK
  <2>1. m[1] \in Events /\ m[2] \in Nat /\ m[2] > 0
    BY MessageType, RelayAssumption
  <2>2. queue[m].place = "unsent"
    BY DEF RelayInit, Init
  <2> QED  BY <1>1, <2>1, <2>2
<1> QED  BY <1>2, <1>3

(* The relay runs the worker, the queue and the tables of Worker: whatever  *)
(* was proved of Spec holds of the whole relay (webhook.rs 183-260,         *)
(* main.rs 102-372, dlq_ops.sh 290-330).                                    *)
THEOREM RelayRunsWorker == RelaySpec => Spec
<1>1. RelayInit => Init
  BY DEF RelayInit
<1>2. RelayInit => RelayInv
  BY RelayInitInv
<1>3. [Next]_vars /\ TypeInv /\ ReplicaBehind => (TypeInv /\ ReplicaBehind)'
  BY NextType, ReplicaNext
<1>4. Init => TypeInv /\ ReplicaBehind
  BY InitType DEF Init, ReplicaBehind
<1>5. RelayInv /\ TypeInv /\ [RelayNext]_relayVars => RelayInv' /\ [Next]_vars
  BY CountsNext, PlacesNext, WorkerSteps DEF RelayInv
<1> QED  BY <1>1, <1>2, <1>3, <1>4, <1>5, PTL DEF RelaySpec, Spec

LEMMA RelayInvariant == RelaySpec => [](RelayInv /\ TypeInv /\ InHandSent)
<1>1. RelayInit => RelayInv
  BY RelayInitInv
<1>2. RelayInv /\ TypeInv /\ [RelayNext]_relayVars => RelayInv'
  BY CountsNext, PlacesNext DEF RelayInv
<1> QED
  BY <1>1, <1>2, RelayRunsWorker, TypeInvariant, InHandInvariant, PTL DEF RelaySpec

(* A message leaves the dead-letter queue for good only after a later one   *)
(* was sent for its event: the script deletes what it copied, and a copy is *)
(* numbered after every message it selected -- for any number of runs of    *)
(* the script, wherever they end (dlq_ops.sh 278-345).                      *)
THEOREM RemovedWasReplayedHolds == RelaySpec => []RemovedWasReplayed
<1>1. RelayInv => RemovedWasReplayed
  <2> SUFFICES ASSUME RelayInv, NEW m \in Messages, queue[m].place = "removed"
               PROVE  \E n \in Messages : /\ EventOf[n] = EventOf[m] /\ n[2] > m[2]
                                          /\ queue[n].place # "unsent"
    BY DEF RemovedWasReplayed
  <2>1. m[1] \in Events /\ m[2] \in 1..MaxSends /\ EventOf[m] = m[1]
    BY MessageType, RelayAssumption
  <2> DEFINE e == m[1]
             n == <<e, sends[e]>>
  <2>2. sends[e] \in 1..MaxSends /\ m[2] < sends[e]
    <3>1. sends[e] \in 0..MaxSends /\ m[2] < sends[e]
      BY <2>1 DEF RelayInv, CountsOK, PlacesOK
    <3> QED  BY <2>1, <3>1, RelayAssumption
  <2>3. n \in Messages /\ EventOf[n] = e /\ n[1] = e /\ n[2] = sends[e]
    BY <2>1, <2>2, SlotIsMessage
  <2> HIDE DEF n
  <2>4. queue[n].place # "unsent"
    BY <2>2, <2>3, RelayAssumption DEF RelayInv, PlacesOK
  <2> QED  BY <2>1, <2>2, <2>3, <2>4
<1> QED  BY <1>1, RelayInvariant, PTL

-----------------------------------------------------------------------------
(* A step of the relay is, to the API, one of Ingestion.                    *)
LEMMA RequestsAreEvents == I!Requests = Events
  BY RelayAssumption DEF I!Requests

LEMMA ApiSteps == ApiStep => I!Next
<1> SUFFICES ASSUME ApiStep PROVE I!Next
  OBVIOUS
<1>1. ASSUME NEW r \in Events, HandleStep(r) PROVE I!Next
  <2>1. I!Handle(r)
    BY <1>1 DEF HandleStep, StoreStep, EnqueueStep, I!Handle
  <2> QED  BY <2>1, RequestsAreEvents DEF I!Next
<1>2. ASSUME NEW r \in Events, PropagateStep(r) PROVE I!Next
  BY <1>2, RequestsAreEvents DEF PropagateStep, I!Next
<1>3. ASSUME NEW p \in Reconcilers, ReconcileStep(p) PROVE I!Next
  <2>1. I!Reconcile(p)
    BY <1>3, RequestsAreEvents DEF ReconcileStep, RequeueStep, I!Reconcile
  <2> QED  BY <2>1 DEF I!Next
<1>4. CASE AgeStep
  BY <1>4 DEF AgeStep, I!Next
<1>5. CASE CrashOrExpiry
  BY <1>5, RequestsAreEvents DEF CrashOrExpiry, I!Next
<1> QED  BY <1>1, <1>2, <1>3, <1>4, <1>5 DEF ApiStep

(* A message that was sent is counted.                                      *)
LEMMA SentIsQueued ==
    ASSUME CountsOK, PlacesOK, NEW e \in Events, SentFor(e) # {}
    PROVE  e \in Queued
<1>1. PICK m \in Messages : EventOf[m] = e /\ queue[m].place # "unsent"
  BY DEF SentFor
<1>2. m[1] = e /\ m[2] \in 1..MaxSends /\ sends[e] \in Nat
  BY <1>1, MessageType, RelayAssumption DEF CountsOK
<1>3. ~(m[2] > sends[e])
  BY <1>1, <1>2 DEF PlacesOK
<1> QED  BY <1>2, <1>3 DEF Queued

LEMMA ItemOfEvent ==
    ASSUME NEW item, item # NoItem
    PROVE  ItemOf(item) \in {"pending", "touched"}
  BY DEF ItemOf

(* What the workers do to an event, Ingestion allows its environment.       *)
LEMMA WorkerTouches ==
    ASSUME CountsOK, PlacesOK, TypeInv, InHandSent, WorkerStep
    PROVE  [I!Next]_(I!vars)
<1>1. UNCHANGED <<api, sends>> /\ UNCHANGED Queued /\ Serve
  BY DEF WorkerStep, Undisturbed, Queued
<1>2. CASE events' = events
  <2>1. UNCHANGED Items
    BY <1>2 DEF Items
  <2> QED
    BY <1>1, <2>1 DEF api, I!vars, I!handlers, I!reconcilers
<1>3. ASSUME NEW e \in Events, NEW item \in Event,
             events[e] # NoItem, SentFor(e) # {},
             events' = [events EXCEPT ![e] = item]
      PROVE  [I!Next]_(I!vars)
  <2>1. item # NoItem
    BY <1>3, NoItemAssumption
  <2>2. ItemOf(item) \in {"pending", "touched"} /\ Items[e] \in {"pending", "touched"}
    BY <1>3, <2>1, ItemOfEvent DEF Items
  <2>3. Items' = [Items EXCEPT ![e] = ItemOf(item)]
    <3>1. events \in [Events -> Event \cup {NoItem}]
      BY DEF TypeInv, TypeOK
    <3>2. \A f \in Events : Items'[f] = IF f = e THEN ItemOf(item) ELSE Items[f]
      BY <1>3, <3>1 DEF Items
    <3> QED  BY <3>2 DEF Items
  <2>4. CASE Items[e] = ItemOf(item)
    <3>1. UNCHANGED Items
      BY <2>3, <2>4 DEF Items
    <3> QED
      BY <1>1, <3>1 DEF api, I!vars, I!handlers, I!reconcilers
  <2>5. CASE Items[e] # ItemOf(item)
    <3>1. e \in Queued /\ I!Stored(e)
      BY <1>3, <2>2, SentIsQueued DEF I!Stored
    <3>2. ItemOf(item) \in {"pending", "touched"} \ {Items[e]}
      BY <2>2, <2>5
    <3>3. I!Touch(e)
      BY <1>1, <2>3, <3>1, <3>2 DEF I!Touch, api, I!handlers, I!reconcilers
    <3> QED  BY <3>3, RequestsAreEvents DEF I!Next
  <2> QED  BY <2>4, <2>5
<1> QED  BY <1>1, <1>2, <1>3, ServeTouches

LEMMA IngestionSteps ==
    CountsOK /\ PlacesOK /\ TypeInv /\ InHandSent /\ [RelayNext]_relayVars
      => [I!Next]_(I!vars)
<1> SUFFICES ASSUME CountsOK, PlacesOK, TypeInv, InHandSent, [RelayNext]_relayVars
             PROVE  [I!Next]_(I!vars)
  OBVIOUS
<1> DEFINE Unseen == UNCHANGED <<events, api>> /\ UNCHANGED Queued
<1>1. ASSUME Unseen PROVE UNCHANGED I!vars
  <2>1. UNCHANGED Items
    BY <1>1 DEF Items
  <2> QED
    BY <1>1, <2>1 DEF api, I!vars, I!handlers, I!reconcilers
<1>2. ASSUME NEW o \in Operators, Select(o) \/ DeleteOriginal(o) \/ EndReplay(o)
      PROVE  Unseen
  BY <1>2 DEF Select, DeleteOriginal, EndReplay, RemoveFromDlq, vars, tables, Queued
<1>3. ASSUME NEW o \in Operators, CopyBack(o) PROVE Unseen
  <2>1. PICK e \in Events : Send(e) /\ sends[e] > 0
    <3>1. PICK m \in Messages : m[2] <= sends[m[1]] /\ m[1] \in Events /\ Send(m[1])
      BY <1>3, CopyBackType
    <3> QED
      BY <3>1, MessageType, RelayAssumption DEF CountsOK
  <2>2. UNCHANGED <<events, api>>
    BY <1>3, <2>1 DEF CopyBack, Send, Enqueue, tables
  <2>3. sends'[e] = sends[e] + 1 /\ sends[e] \in Nat
    <3>1. sends'[e] = sends[e] + 1
      BY <2>1, SendType
    <3>2. sends[e] \in 0..MaxSends
      BY <2>1 DEF CountsOK
    <3> QED  BY <3>1, <3>2
  <2>4. ASSUME NEW f \in Events PROVE sends'[f] > 0 <=> sends[f] > 0
    <3>1. f # e => sends'[f] = sends[f]
      BY <2>1, SendType
    <3> QED  BY <2>1, <2>3, <3>1
  <2> QED  BY <2>2, <2>4 DEF Queued
<1>4. ASSUME UNCHANGED relayVars PROVE Unseen
  BY <1>4 DEF relayVars, vars, tables, Queued
<1> HIDE DEF Unseen
<1> QED
  BY <1>1, <1>2, <1>3, <1>4, ApiSteps, WorkerTouches DEF RelayNext, OperatorStep

(* The relay implements Ingestion: the workers and the operators do to the  *)
(* events table and the queue nothing the API and the reconciler do not     *)
(* reckon with (webhook.rs 183-260, reconcile.rs 15-40, main.rs 136-297).   *)
THEOREM RelayImplementsIngestion == RelaySpec => I!Spec
<1>1. RelayInit => I!Init
  BY DEF RelayInit
<1>2. RelayInv /\ TypeInv /\ InHandSent /\ [RelayNext]_relayVars => [I!Next]_(I!vars)
  BY IngestionSteps DEF RelayInv
<1> QED
  BY <1>1, <1>2, RelayInvariant, PTL DEF RelaySpec, I!Spec

-----------------------------------------------------------------------------
(* The theorems of Ingestion, for what the API sees of the relay.  IP is I  *)
(* with its theorems; the actions of the two are the same.                  *)
IP == INSTANCE IngestionSafety_proofs WITH
        events <- Items, sent <- Queued, pc <- handler,
        faults <- api_faults, crashes <- api_crashes,
        MaxFaults <- MaxApiFaults, MaxCrashes <- MaxApiCrashes

LEMMA ApiConstants == IP!IngestionAssumption
  BY RelayAssumption DEF IP!IngestionAssumption

LEMMA SameRequests == I!Requests = IP!Requests /\ I!NoEvent = IP!NoEvent
  BY DEF I!Requests, IP!Requests, I!NoEvent, IP!NoEvent

LEMMA SameInit == I!Init => IP!Init
  BY DEF I!Init, IP!Init, I!Requests, IP!Requests, I!NoEvent, IP!NoEvent,
         I!NoAnswer, IP!NoAnswer

LEMMA SameStutter == UNCHANGED I!vars => UNCHANGED IP!vars
  BY DEF I!vars, IP!vars, I!handlers, IP!handlers, I!reconcilers, IP!reconcilers

LEMMA SameHandle == \A r : I!Handle(r) => IP!Handle(r)
<1> SUFFICES ASSUME NEW r, I!Handle(r) PROVE IP!Handle(r)
  OBVIOUS
<1> USE SameRequests DEF I!GoTo, IP!GoTo, I!Respond, IP!Respond, I!Fault, IP!Fault,
        I!reconcilers, IP!reconcilers
<1>1. I!Start(r) => IP!Start(r)
  BY DEF I!Start, IP!Start
<1>2. I!CheckAndRecord(r) => IP!CheckAndRecord(r)
  BY DEF I!CheckAndRecord, IP!CheckAndRecord, I!KeyFree, IP!KeyFree
<1>3. I!GetExistingEventId(r) => IP!GetExistingEventId(r)
  BY DEF I!GetExistingEventId, IP!GetExistingEventId
<1>4. I!CreateEvent(r) => IP!CreateEvent(r)
  BY DEF I!CreateEvent, IP!CreateEvent, I!CreateFailed, IP!CreateFailed
<1>5. I!EnqueueEvent(r) => IP!EnqueueEvent(r)
  BY DEF I!EnqueueEvent, IP!EnqueueEvent, I!EnqueueFailed, IP!EnqueueFailed
<1>6. I!MarkEventOrphaned(r) => IP!MarkEventOrphaned(r)
  BY DEF I!MarkEventOrphaned, IP!MarkEventOrphaned
<1> QED
  BY <1>1, <1>2, <1>3, <1>4, <1>5, <1>6 DEF I!Handle, IP!Handle

LEMMA SameSize == \A S : I!Cardinality(S) = IP!Cardinality(S)
  BY DEF I!Cardinality, IP!Cardinality

LEMMA SamePage == I!Page = IP!Page
  BY SameSize DEF I!Page, IP!Page, I!UpToCutoff, IP!UpToCutoff, I!Requests, IP!Requests

LEMMA SameReconcile == \A p : I!Reconcile(p) => IP!Reconcile(p)
<1> SUFFICES ASSUME NEW p, I!Reconcile(p) PROVE IP!Reconcile(p)
  OBVIOUS
<1> USE SameRequests DEF I!Fault, IP!Fault, I!handlers, IP!handlers, I!EndRun, IP!EndRun,
        I!Current, IP!Current
<1>1. I!FetchOrphanedEvents(p) => IP!FetchOrphanedEvents(p)
  BY SamePage DEF I!FetchOrphanedEvents, IP!FetchOrphanedEvents, I!Eligible, IP!Eligible
<1>2. \A r : I!Requeue(p, r) => IP!Requeue(p, r)
  BY DEF I!Requeue, IP!Requeue, I!RequeueFailed, IP!RequeueFailed
<1>3. \A r : I!ClearOrphanedMarker(p, r) => IP!ClearOrphanedMarker(p, r)
  BY DEF I!ClearOrphanedMarker, IP!ClearOrphanedMarker
<1> QED
  BY <1>1, <1>2, <1>3 DEF I!Reconcile, IP!Reconcile

LEMMA SameNext == I!Next => IP!Next
<1> USE SameRequests DEF I!handlers, IP!handlers, I!reconcilers, IP!reconcilers
<1>1. \A r : I!CrashHandler(r) => IP!CrashHandler(r)
  BY DEF I!CrashHandler, IP!CrashHandler, I!GoTo, IP!GoTo
<1>2. \A r : I!Touch(r) => IP!Touch(r)
  BY DEF I!Touch, IP!Touch, I!Stored, IP!Stored
<1>3. \A r : I!Propagate(r) => IP!Propagate(r)
  BY DEF I!Propagate, IP!Propagate, I!IndexEntry, IP!IndexEntry
<1>4. \A p : I!CrashReconciler(p) => IP!CrashReconciler(p)
  BY DEF I!CrashReconciler, IP!CrashReconciler, I!EndRun, IP!EndRun
<1>5. \A k : I!Expire(k) => IP!Expire(k)
  BY DEF I!Expire, IP!Expire
<1>6. I!Age => IP!Age
  BY DEF I!Age, IP!Age
<1> QED
  BY <1>1, <1>2, <1>3, <1>4, <1>5, <1>6, SameHandle, SameReconcile
  DEF I!Next, IP!Next

LEMMA ApiInvariants ==
    RelaySpec => [](IP!QueuedHasEvent /\ IP!AcceptedIsQueued /\ IP!OneEventPerKey)
<1>1. I!Init => IP!Init
  BY SameInit
<1>2. [I!Next]_(I!vars) => [IP!Next]_(IP!vars)
  BY SameNext, SameStutter
<1>3. I!Spec => IP!Spec
  BY <1>1, <1>2, PTL DEF I!Spec, IP!Spec
<1>4. IP!Spec => []IP!QueuedHasEvent
  BY IP!QueuedHasEventHolds, ApiConstants
<1>5. IP!Spec => []IP!AcceptedIsQueued
  BY IP!AcceptedIsQueuedHolds, ApiConstants
<1>6. IP!Spec => []IP!OneEventPerKey
  BY IP!OneEventPerKeyHolds, ApiConstants
<1> QED
  BY <1>3, <1>4, <1>5, <1>6, RelayImplementsIngestion, PTL

-----------------------------------------------------------------------------
(* An event whose acceptance was answered with 202 is not lost: until it is *)
(* settled there is a message for it in the queue or in the dead-letter     *)
(* queue.  The last message sent for it is never removed by an operator,    *)
(* and only deleted by a worker when the event is settled -- provided that  *)
(* reads of an event return what the table has (webhook.rs 183-260, main.rs *)
(* 299-372, dlq_ops.sh 290-330).                                            *)
THEOREM AcceptedNotLostHolds ==
    ASSUME ~ReadLag
    PROVE  RelaySpec => []AcceptedNotLost
<1>1. RelayInv /\ TypeInv /\ IP!QueuedHasEvent /\ IP!AcceptedIsQueued
        /\ DeletedOnlySettled => AcceptedNotLost
  <2> SUFFICES ASSUME RelayInv, TypeInv, IP!QueuedHasEvent, IP!AcceptedIsQueued,
                      DeletedOnlySettled, NEW e \in Events, answer[e].code = 202
               PROVE  settled[e] \/ \E m \in Messages : EventOf[m] = e /\ Alive(m)
    BY DEF AcceptedNotLost
  <2>1. e \in Queued /\ events[e] # NoItem
    BY SameRequests, RequestsAreEvents
    DEF IP!AcceptedIsQueued, IP!QueuedHasEvent, IP!Stored, Items, ItemOf
  <2> DEFINE m == <<e, sends[e]>>
  <2>2. sends[e] \in 1..MaxSends
    <3>1. sends[e] \in 0..MaxSends /\ sends[e] > 0
      BY <2>1 DEF RelayInv, CountsOK, Queued
    <3> QED  BY <3>1, RelayAssumption
  <2>3. m \in Messages /\ EventOf[m] = e /\ m[1] = e /\ m[2] = sends[e]
    BY <2>2, SlotIsMessage
  <2> HIDE DEF m
  <2>4. queue[m].place \notin {"unsent", "removed"}
    BY <2>2, <2>3, RelayAssumption DEF RelayInv, PlacesOK
  <2>5. queue[m].place \in {"unsent", "queue", "deleted", "dlq", "removed"}
    BY <2>3 DEF TypeInv, TypeOK, QueueEntry
  <2>6. CASE queue[m].place = "deleted"
    BY <2>1, <2>3, <2>6, RelayAssumption DEF DeletedOnlySettled
  <2>7. CASE queue[m].place \in {"queue", "dlq"}
    BY <2>3, <2>7 DEF Alive
  <2> QED  BY <2>4, <2>5, <2>6, <2>7
<1>2. Spec => []DeletedOnlySettled
  BY DeletedOnlySettledHolds
<1> QED
  BY <1>1, <1>2, RelayInvariant, RelayRunsWorker, ApiInvariants, PTL

-----------------------------------------------------------------------------
(* A request is only sent for an event that exists.                         *)
PostedExists == \A e \in Events : posts[e] > 0 => events[e] # NoItem

LEMMA PostedNext == TypeInv /\ PostedExists /\ [Next]_vars => PostedExists'
<1> SUFFICES ASSUME TypeInv, PostedExists, [Next]_vars,
                    NEW e \in Events, posts'[e] > 0
             PROVE  events'[e] # NoItem
  BY DEF PostedExists
<1>1. CASE posts' = posts
  BY <1>1, ItemsStay DEF PostedExists
<1>2. ASSUME NEW w \in Workers, Deliver(w) PROVE events'[e] # NoItem
  <2>1. Ev(w) \in Events /\ events[Ev(w)] # NoItem
    BY <1>2, JobType DEF Deliver, TypeInv, AtItem, Steps
  <2>2. e = Ev(w) \/ posts'[e] = posts[e]
    BY <1>2 DEF Deliver, TypeInv, TypeOK
  <2> QED
    BY <2>1, <2>2, ItemsStay DEF PostedExists
<1>3. ASSUME NEW w \in Workers,
             \/ Receive(w) \/ Crash(w) \/ Process(w) \/ GetEvent(w) \/ GetConfig(w)
             \/ GetBreaker(w) \/ PutBreaker(w) \/ RecordAttempt(w)
             \/ IncrementAttemptCount(w) \/ UpdateEventStatus(w) \/ DeleteMessage(w)
             \/ ChangeVisibility(w)
      PROVE  posts' = posts
  BY <1>3 DEF Receive, Crash, Process, GetEvent, GetConfig, GetBreaker, PutBreaker,
              RecordAttempt, IncrementAttemptCount, UpdateEventStatus,
              DeleteMessage, ChangeVisibility, history
<1>4. ASSUME \/ \E m \in Messages : Enqueue(m) \/ Redrive(m) \/ RemoveFromDlq(m)
             \/ \E f \in Events : StoreEvent(f) \/ Replicate(f)
             \/ \E c \in Customers : PutConfig(c)
             \/ Tick \/ UNCHANGED vars
      PROVE  posts' = posts
  BY <1>4 DEF Enqueue, Redrive, RemoveFromDlq, StoreEvent, Replicate, PutConfig, Tick,
              vars, processes, history
<1>5. posts' = posts \/ \E w \in Workers : Deliver(w)
  BY <1>3, <1>4 DEF Next, Serve, Supply, Work
<1> QED  BY <1>1, <1>2, <1>5

(* Of the requests that carry the same idempotency key within the life of   *)
(* its record, at most one reaches the customer's endpoint, however many    *)
(* messages, workers and replays there are (idempotency.rs 98-124, main.rs  *)
(* 136-149).                                                                *)
THEOREM OneDeliveredPerKeyHolds == RelaySpec => []OneDeliveredPerKey
<1>1. Init => PostedExists
  BY DEF Init, PostedExists
<1>2. Spec => []PostedExists
  BY <1>1, PostedNext, TypeInvariant, PTL DEF Spec
<1>3. PostedExists /\ IP!OneEventPerKey => OneDeliveredPerKey
  BY SameRequests, RequestsAreEvents
  DEF PostedExists, IP!OneEventPerKey, IP!Stored, Items, ItemOf, OneDeliveredPerKey
<1> QED
  BY <1>2, <1>3, RelayRunsWorker, ApiInvariants, PTL

(* The audit trail and the acknowledged deliveries of the worker hold of    *)
(* the whole relay, replays included (main.rs 195-297, dlq_ops.sh 297-326). *)
THEOREM RelayAuditHolds == RelaySpec => [](AuditTrail /\ DeliveredOnlyIfAcked)
  BY RelayRunsWorker, AuditTrailHolds, DeliveredOnlyIfAckedHolds, PTL

(* The whole relay implements EventLifecycle: no request, reconciler or     *)
(* replay, repeated or overlapping, and however many messages they send for *)
(* an event, reopens it once settled or counts an attempt twice, as long as *)
(* no two workers are at it together and none from an older version of it   *)
(* (webhook.rs 139-242, reconcile.rs 17-52, main.rs 136-297).               *)
THEOREM RelayImplementsLifecycle == RelaySpec => ImplementsLifecycle
  BY RelayRunsWorker, LifecycleImplemented, PTL
=============================================================================
