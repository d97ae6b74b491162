------------------------ MODULE WorkerBreaker_proofs ------------------------
(***************************************************************************)
(* What Worker promises about the breaker states in the table and in the    *)
(* workers' caches: for any number of workers that no cache is ahead of the  *)
(* table, and for a worker alone what the table is behind and that the      *)
(* breaker knows what the endpoint did.                                     *)
(***************************************************************************)
EXTENDS WorkerSafety_proofs

-----------------------------------------------------------------------------
(* Versions.  Nobody knows a version that the table has not reached, neither *)
(* in a cache nor in the copy it works on.                                  *)

HoldsBreaker ==
    {"put_gate", "deliver", "record_attempt", "increment_attempt_count",
     "put_outcome"}

VersionOf(b) == IF b = NoItem THEN 0 ELSE b.version

VersionsBehind ==
    /\ \A c \in Customers : breakers[c] # NoItem => breakers[c].version > 0
    /\ \A w \in Workers, c \in Customers :
         breaker_states[w][c] # NoItem =>
           breaker_states[w][c].version <= VersionOf(breakers[c])
    /\ \A w \in Workers :
         pc[w] \in HoldsBreaker => breaker[w].version <= VersionOf(breakers[Cu(w)])

CacheInv == faults = 0 => VersionsBehind

(* A worker keeps the version of its copy in a step, or gives the copy up.  *)
KeepsVersion(w) ==
    pc'[w] \in HoldsBreaker =>
        /\ pc[w] \in HoldsBreaker /\ job'[w] = job[w]
        /\ breaker'[w].version = breaker[w].version

(* What only failed calls and crashes count.                                *)
LEMMA CallsCounted ==
    ASSUME [Next]_vars
    PROVE  /\ faults' = faults \/ (faults < MaxFaults /\ faults' = faults + 1)
           /\ crashes' = crashes \/ (crashes < MaxCrashes /\ crashes' = crashes + 1)
<1> DEFINE Counted ==
             /\ faults' = faults \/ (faults < MaxFaults /\ faults' = faults + 1)
             /\ crashes' = crashes \/ (crashes < MaxCrashes /\ crashes' = crashes + 1)
<1>1. ASSUME NEW w \in Workers,
             \/ Receive(w) \/ Crash(w) \/ Process(w) \/ GetEvent(w) \/ GetConfig(w)
             \/ Deliver(w) \/ RecordAttempt(w)
             \/ IncrementAttemptCount(w) \/ UpdateEventStatus(w)
             \/ DeleteMessage(w) \/ ChangeVisibility(w)
      PROVE  Counted
  BY <1>1 DEF Receive, Crash, Process, GetEvent, GetConfig, Deliver, RecordAttempt,
              IncrementAttemptCount, UpdateEventStatus, DeleteMessage, ChangeVisibility,
              Fault
<1>2. ASSUME NEW w \in Workers, GetBreaker(w) PROVE Counted
  BY <1>2 DEF GetBreaker, BreakerRead, Fault
<1>3. ASSUME NEW w \in Workers, PutBreaker(w) PROVE Counted
  BY <1>3 DEF PutBreaker, Fault
<1>4. ASSUME \/ \E m \in Messages : Enqueue(m) \/ Redrive(m) \/ RemoveFromDlq(m)
             \/ \E e \in Events : Replicate(e) \/ StoreEvent(e)
             \/ \E c \in Customers : PutConfig(c)
             \/ Tick \/ UNCHANGED vars
      PROVE  Counted
  BY <1>4 DEF Enqueue, Redrive, RemoveFromDlq, Replicate, StoreEvent, PutConfig, Tick,
              vars, processes
<1> QED
  BY <1>1, <1>2, <1>3, <1>4 DEF Next, Serve, Supply, Work

LEMMA FaultsStay ==
    ASSUME TypeInv, [Next]_vars
    PROVE  faults' = 0 => faults = 0 /\ faults' = faults
  BY CallsCounted DEF TypeInv, TypeOK, Fault

LEMMA NoFault ==
    ASSUME TypeInv, faults' = 0
    PROVE  ~Fault
  BY DEF Fault, TypeInv, TypeOK

LEMMA VersionType == \A b \in HeldBreaker \cup {NoItem} : VersionOf(b) \in Nat
  BY DEF VersionOf, HeldBreaker

LEMMA BreakerTypes ==
    ASSUME TypeInv, NEW w \in Workers, NEW c \in Customers
    PROVE  /\ breakers[c] \in HeldBreaker \cup {NoItem}
           /\ breaker_states[w][c] \in HeldBreaker \cup {NoItem}
           /\ breaker[w] \in HeldBreaker
  BY DEF TypeInv, TypeOK

(* The entry of the cache may go or be replaced by the table's state, or by *)
(* itself.                                                                  *)
LEMMA CacheQuiet ==
    ASSUME TypeInv, CacheInv, breakers' = breakers, faults' = 0 => faults = 0,
           \A w \in Workers : KeepsVersion(w),
           \A w \in Workers, c \in Customers :
               breaker_states'[w][c] \in {breaker_states[w][c], breakers[c], NoItem}
    PROVE  CacheInv'
<1>1. ASSUME faults' = 0 PROVE VersionsBehind'
  <2>1. VersionsBehind
    BY <1>1 DEF CacheInv
  <2>2. \A c \in Customers : VersionOf(breakers'[c]) = VersionOf(breakers[c])
    BY DEF VersionOf
  <2>3. ASSUME NEW w \in Workers, NEW c \in Customers, breaker_states'[w][c] # NoItem
        PROVE  breaker_states'[w][c].version <= VersionOf(breakers[c])
    <3>1. CASE breaker_states'[w][c] = breaker_states[w][c]
      BY <2>1, <2>3, <3>1 DEF VersionsBehind
    <3>2. CASE breaker_states'[w][c] = breakers[c] /\ breakers[c] # NoItem
      BY <3>2, BreakerTypes DEF VersionOf, HeldBreaker
    <3> QED  BY <2>3, <3>1, <3>2
  <2>4. ASSUME NEW w \in Workers, pc'[w] \in HoldsBreaker
        PROVE  breaker'[w].version <= VersionOf(breakers'[Cu(w)'])
    <3>1. /\ pc[w] \in HoldsBreaker /\ Cu(w)' = Cu(w)
          /\ breaker'[w].version = breaker[w].version
      BY <2>4 DEF KeepsVersion, Cu, Ev
    <3> QED  BY <2>1, <3>1 DEF VersionsBehind
  <2>5. \A w \in Workers : pc'[w] \in HoldsBreaker => Cu(w)' \in Customers
    <3> SUFFICES ASSUME NEW w \in Workers, pc'[w] \in HoldsBreaker
                 PROVE  Cu(w)' \in Customers
      OBVIOUS
    <3>1. pc[w] \in HoldsBreaker /\ Cu(w)' = Cu(w)
      BY DEF KeepsVersion, Cu, Ev
    <3> QED  BY <3>1, JobType DEF TypeInv, HoldsBreaker
  <2> QED
    BY <2>1, <2>2, <2>3, <2>4, <2>5 DEF VersionsBehind, VersionOf
<1> QED  BY <1>1 DEF CacheInv

LEMMA DoneVersions ==
    ASSUME TypeInv, NEW w \in Workers, Done(w)
    PROVE  \A v \in Workers : KeepsVersion(v)
  BY DEF KeepsVersion, Done, GoTo, TypeInv, TypeOK, HoldsBreaker

LEMMA WrittenVersions ==
    ASSUME TypeInv, NEW w \in Workers, pc[w] \in HoldsBreaker,
           UNCHANGED <<job, breaker>>,
           \E step \in Steps : pc' = [pc EXCEPT ![w] = step]
    PROVE  \A v \in Workers : KeepsVersion(v)
  BY DEF KeepsVersion, TypeInv, TypeOK

(* A step that neither reads nor writes a breaker state.                    *)
LEMMA CacheIdle ==
    ASSUME TypeInv, [Next]_vars, CacheInv, UNCHANGED <<breakers, breaker_states>>,
           \A w \in Workers : KeepsVersion(w)
    PROVE  CacheInv'
  BY FaultsStay, CacheQuiet

(* What get_breaker_state returns, when no call fails, is in the cache, in  *)
(* the table or in neither.                                                 *)
LEMMA CacheFilled ==
    ASSUME TypeInv, TypeInv', CacheInv, [Next]_vars, NEW w \in Workers, GetBreaker(w)
    PROVE  CacheInv'
<1>1. /\ Cu(w) \in Customers /\ UNCHANGED <<breakers, job>>
      /\ pc' = [pc EXCEPT ![w] = "put_gate"]
  BY JobType DEF GetBreaker, GoTo, TypeInv, tables
<1>2. PICK read \in {breaker_states[w][Cu(w)], breakers[Cu(w)], NoItem} :
        LET b == IF read = NoItem THEN ClosedBreakerState ELSE read
        IN /\ IF breaker_states[w][Cu(w)] # NoItem
              THEN read = breaker_states[w][Cu(w)] /\ UNCHANGED faults
              ELSE BreakerRead(Cu(w), read)
           /\ breaker_states' = [breaker_states EXCEPT ![w][Cu(w)] = b]
           /\ breaker' = [breaker EXCEPT ![w] = AfterGate(b, 0)]
  BY DEF GetBreaker
<1> DEFINE b == IF read = NoItem THEN ClosedBreakerState ELSE read
<1>3. b \in HeldBreaker /\ b # NoItem
  <2>1. b \in HeldBreaker
    BY <1>1, <1>2, BreakerTypes, ClosedType
  <2> QED  BY <2>1, NoItemAssumption
<1>4. faults' = 0 => \/ breaker_states[w][Cu(w)] # NoItem /\ b = breaker_states[w][Cu(w)]
                     \/ breakers[Cu(w)] # NoItem /\ b = breakers[Cu(w)]
                     \/ breakers[Cu(w)] = NoItem /\ b = ClosedBreakerState
  BY <1>2, NoFault DEF BreakerRead
<1>5. /\ breaker_states' = [breaker_states EXCEPT ![w][Cu(w)] = b]
      /\ breaker' = [breaker EXCEPT ![w] = AfterGate(b, 0)]
  BY <1>2
<1> HIDE DEF b
<1>6. \A v \in Workers, c \in Customers :
        breaker_states'[v][c] = IF v = w /\ c = Cu(w) THEN b ELSE breaker_states[v][c]
  BY <1>1, <1>5 DEF TypeInv, TypeOK
<1>7. AfterGate(b, 0).version = b.version
  BY <1>3 DEF AfterGate, HeldBreaker
<1>8. \A c \in Customers : VersionOf(breakers'[c]) = VersionOf(breakers[c])
  BY <1>1 DEF VersionOf
<1>9. ASSUME faults' = 0 PROVE VersionsBehind'
  <2>1. VersionsBehind
    BY <1>9, FaultsStay DEF CacheInv
  <2>2. b.version <= VersionOf(breakers[Cu(w)])
    <3>1. CASE breaker_states[w][Cu(w)] # NoItem /\ b = breaker_states[w][Cu(w)]
      BY <1>1, <2>1, <3>1 DEF VersionsBehind
    <3>2. CASE breakers[Cu(w)] # NoItem /\ b = breakers[Cu(w)]
      BY <1>3, <3>2 DEF VersionOf, HeldBreaker
    <3>3. CASE breakers[Cu(w)] = NoItem /\ b = ClosedBreakerState
      BY <3>3 DEF VersionOf, ClosedBreakerState
    <3> QED  BY <1>4, <1>9, <3>1, <3>2, <3>3
  <2>3. ASSUME NEW v \in Workers, NEW c \in Customers, breaker_states'[v][c] # NoItem
        PROVE  breaker_states'[v][c].version <= VersionOf(breakers[c])
    BY <1>6, <2>1, <2>2, <2>3 DEF VersionsBehind
  <2>4. ASSUME NEW v \in Workers, pc'[v] \in HoldsBreaker
        PROVE  Cu(v)' \in Customers /\ breaker'[v].version <= VersionOf(breakers'[Cu(v)'])
    <3>1. Cu(v)' = Cu(v)
      BY <1>1 DEF Cu, Ev
    <3>2. CASE v = w
      BY <1>1, <1>5, <1>7, <2>2, <3>1, <3>2 DEF TypeInv, TypeOK
    <3>3. CASE v # w
      <4>1. pc[v] \in HoldsBreaker /\ breaker'[v] = breaker[v]
        BY <1>1, <1>5, <2>4, <3>3 DEF TypeInv, TypeOK
      <4>2. Cu(v) \in Customers
        BY <4>1, JobType DEF TypeInv, HoldsBreaker
      <4> QED  BY <1>1, <2>1, <3>1, <4>1, <4>2 DEF VersionsBehind
    <3> QED  BY <3>2, <3>3
  <2> QED
    BY <1>1, <1>8, <2>1, <2>3, <2>4 DEF VersionsBehind
<1> QED  BY <1>9 DEF CacheInv

(* A put that is not refused makes a version nobody has seen; a refused one *)
(* leaves the table ahead.                                                  *)
LEMMA CachePut ==
    ASSUME TypeInv, TypeInv', CacheInv, [Next]_vars, NEW w \in Workers, PutBreaker(w)
    PROVE  CacheInv'
<1> DEFINE next == NextVersion(breaker[w])
<1>1. /\ Cu(w) \in Customers /\ pc[w] \in HoldsBreaker /\ UNCHANGED <<job, breaker>>
  BY JobType DEF PutBreaker, TypeInv, HoldsBreaker
<1>2. \E step \in Steps : pc' = [pc EXCEPT ![w] = step]
  BY BreakerWrittenType DEF PutBreaker, TypeInv, Steps
<1>3. \A v \in Workers : KeepsVersion(v)
  BY <1>1, <1>2, WrittenVersions
<1>4. /\ breaker[w] \in HeldBreaker /\ next \in HeldBreaker /\ next # NoItem
      /\ next.version = breaker[w].version + 1
  <2>1. breaker[w] \in HeldBreaker /\ next \in HeldBreaker
    BY VersionAndTickType DEF TypeInv, TypeOK
  <2> QED  BY <2>1, NoItemAssumption DEF NextVersion, HeldBreaker
<1>6. CASE faults' # 0
  BY <1>6 DEF CacheInv
<1>7. ASSUME faults' = 0,
             breaker_states' = [breaker_states EXCEPT ![w][Cu(w)] = next],
             \/ /\ ConditionHolds(Cu(w), breaker[w])
                /\ breakers' = [breakers EXCEPT ![Cu(w)] = next]
             \/ ~ConditionHolds(Cu(w), breaker[w]) /\ breakers' = breakers
      PROVE  CacheInv'
  <2> HIDE DEF next
  <2>1. VersionsBehind /\ faults = 0
    BY <1>7, FaultsStay DEF CacheInv
  <2>2. \A v \in Workers, c \in Customers :
          breaker_states'[v][c] = IF v = w /\ c = Cu(w) THEN next ELSE breaker_states[v][c]
    BY <1>1, <1>7 DEF TypeInv, TypeOK
  <2>3. /\ breaker[w].version <= VersionOf(breakers[Cu(w)])
        /\ breaker[w].version \in Nat /\ VersionOf(breakers[Cu(w)]) \in Nat
    <3>1. breakers[Cu(w)] \in HeldBreaker \cup {NoItem}
      BY <1>1, BreakerTypes
    <3> QED
      BY <1>1, <1>4, <2>1, <3>1, VersionType DEF VersionsBehind, HeldBreaker
  <2>5. \A c \in Customers :
          VersionOf(breakers[c]) \in Nat /\ VersionOf(breakers'[c]) \in Nat
    <3>1. \A c \in Customers : /\ breakers[c] \in HeldBreaker \cup {NoItem}
                               /\ breakers'[c] \in HeldBreaker \cup {NoItem}
      BY DEF TypeInv, TypeOK
    <3> QED  BY <3>1, VersionType
  <2>4. /\ \A c \in Customers : breakers'[c] # NoItem => breakers'[c].version > 0
        /\ \A c \in Customers : VersionOf(breakers[c]) <= VersionOf(breakers'[c])
        /\ next.version <= VersionOf(breakers'[Cu(w)])
    <3>1. CASE /\ ConditionHolds(Cu(w), breaker[w])
               /\ breakers' = [breakers EXCEPT ![Cu(w)] = next]
      <4>1. breakers'[Cu(w)] = next /\ VersionOf(breakers'[Cu(w)]) = next.version
        BY <1>1, <1>4, <3>1 DEF VersionOf, TypeInv, TypeOK
      <4>2. \A c \in Customers \ {Cu(w)} :
              breakers'[c] = breakers[c] /\ VersionOf(breakers'[c]) = VersionOf(breakers[c])
        BY <3>1 DEF VersionOf, TypeInv, TypeOK
      <4>3. VersionOf(breakers[Cu(w)]) <= next.version /\ next.version > 0
        BY <1>4, <2>3, <3>1 DEF ConditionHolds, VersionOf
      <4> QED
        BY <1>4, <2>1, <2>3, <4>1, <4>2, <2>5, <4>3 DEF VersionsBehind, HeldBreaker
    <3>2. CASE ~ConditionHolds(Cu(w), breaker[w]) /\ breakers' = breakers
      <4>1. \A c \in Customers : VersionOf(breakers'[c]) = VersionOf(breakers[c])
        BY <3>2 DEF VersionOf
      <4>2. breaker[w].version # VersionOf(breakers[Cu(w)])
        BY <3>2 DEF ConditionHolds, VersionOf
      <4> QED
        BY <1>4, <2>1, <2>3, <3>2, <4>1, <2>5, <4>2 DEF VersionsBehind
    <3> QED  BY <1>7, <3>1, <3>2
  <2>6. ASSUME NEW v \in Workers, NEW c \in Customers, breaker_states'[v][c] # NoItem
        PROVE  breaker_states'[v][c].version <= VersionOf(breakers'[c])
    <3>1. CASE v = w /\ c = Cu(w)
      BY <2>2, <2>4, <3>1
    <3>2. CASE ~(v = w /\ c = Cu(w))
      <4>1. breaker_states[v][c] # NoItem /\ breaker_states'[v][c] = breaker_states[v][c]
        BY <2>2, <2>6, <3>2
      <4>2. breaker_states[v][c].version \in Nat
        BY <4>1, BreakerTypes DEF HeldBreaker
      <4> QED
        BY <2>1, <2>4, <2>5, <4>1, <4>2 DEF VersionsBehind
    <3> QED  BY <3>1, <3>2
  <2>7. ASSUME NEW v \in Workers, pc'[v] \in HoldsBreaker
        PROVE  breaker'[v].version <= VersionOf(breakers'[Cu(v)'])
    <3>1. /\ pc[v] \in HoldsBreaker /\ Cu(v)' = Cu(v) /\ breaker' = breaker
      BY <1>1, <1>3, <2>7 DEF KeepsVersion, Cu, Ev
    <3>2. Cu(v) \in Customers /\ breaker[v].version \in Nat
      BY <3>1, JobType, BreakerTypes, <1>1 DEF TypeInv, HoldsBreaker, HeldBreaker
    <3>3. /\ breaker[v].version <= VersionOf(breakers[Cu(v)])
          /\ VersionOf(breakers[Cu(v)]) <= VersionOf(breakers'[Cu(v)])
      BY <2>1, <2>4, <3>1, <3>2 DEF VersionsBehind, VersionOf
    <3>4. VersionOf(breakers[Cu(v)]) \in Nat /\ VersionOf(breakers'[Cu(v)]) \in Nat
      BY <2>5, <3>1, <3>2 DEF VersionOf
    <3> QED
      BY <3>1, <3>2, <3>3, <3>4
  <2>8. VersionsBehind'
    BY <2>4, <2>6, <2>7 DEF VersionsBehind
  <2> QED  BY <2>8 DEF CacheInv
<1>8. CASE Fault
  BY <1>6, <1>8, NoFault
<1> QED
  BY <1>1, <1>6, <1>7, <1>8 DEF PutBreaker

(* Time leaves versions alone and treats equal states equally.              *)
LEMMA TickState ==
    ASSUME NEW b \in HeldBreaker \cup {NoItem}
    PROVE  /\ OneTickOn(b) \in HeldBreaker \cup {NoItem}
           /\ OneTickOn(b) = NoItem <=> b = NoItem
           /\ b # NoItem => OneTickOn(b).version = b.version
           /\ VersionOf(OneTickOn(b)) = VersionOf(b)
<1>1. CASE b = NoItem
  BY <1>1 DEF OneTickOn, Waiting
<1>2. CASE b # NoItem
  <2>1. b \in HeldBreaker /\ OneTickOn(b) \in HeldBreaker
    BY <1>2, VersionAndTickType
  <2>2. OneTickOn(b) # NoItem
    BY <2>1, NoItemAssumption
  <2>3. OneTickOn(b).version = b.version
    BY <2>1 DEF OneTickOn, HeldBreaker
  <2> QED  BY <1>2, <2>1, <2>2, <2>3 DEF VersionOf
<1> QED  BY <1>1, <1>2

LEMMA CacheTick ==
    ASSUME TypeInv, CacheInv, Tick
    PROVE  CacheInv'
<1>1. /\ \A c \in Customers : breakers'[c] = OneTickOn(breakers[c])
      /\ \A w \in Workers : breaker'[w] = OneTickOn(breaker[w])
      /\ \A w \in Workers, c \in Customers :
           breaker_states'[w][c] = OneTickOn(breaker_states[w][c])
      /\ UNCHANGED <<pc, job, faults>>
  BY DEF Tick
<1>2. ASSUME faults' = 0 PROVE VersionsBehind'
  <2>1. VersionsBehind
    BY <1>1, <1>2 DEF CacheInv
  <2>2. ASSUME NEW c \in Customers
        PROVE  /\ breakers'[c] # NoItem => breakers'[c].version > 0
               /\ VersionOf(breakers'[c]) = VersionOf(breakers[c])
    <3>1. breakers[c] \in HeldBreaker \cup {NoItem}
      BY DEF TypeInv, TypeOK
    <3> QED  BY <1>1, <2>1, <3>1, TickState DEF VersionsBehind
  <2>3. ASSUME NEW w \in Workers, NEW c \in Customers, breaker_states'[w][c] # NoItem
        PROVE  breaker_states'[w][c].version <= VersionOf(breakers'[c])
    <3>1. breaker_states[w][c] \in HeldBreaker \cup {NoItem}
      BY DEF TypeInv, TypeOK
    <3>2. /\ breaker_states[w][c] # NoItem
          /\ breaker_states'[w][c].version = breaker_states[w][c].version
      BY <1>1, <2>3, <3>1, TickState
    <3> QED  BY <2>1, <2>2, <3>2 DEF VersionsBehind
  <2>4. ASSUME NEW w \in Workers, pc'[w] \in HoldsBreaker
        PROVE  breaker'[w].version <= VersionOf(breakers'[Cu(w)'])
    <3>1. pc[w] \in HoldsBreaker /\ Cu(w)' = Cu(w) /\ Cu(w) \in Customers
      BY <1>1, <2>4, JobType DEF TypeInv, Cu, Ev, HoldsBreaker
    <3>2. breaker[w] \in HeldBreaker /\ breaker[w] # NoItem
      BY NoItemAssumption DEF TypeInv, TypeOK
    <3>3. breaker'[w].version = breaker[w].version
      BY <1>1, <3>2, TickState
    <3> QED  BY <2>1, <2>2, <3>1, <3>3 DEF VersionsBehind
  <2> QED  BY <2>2, <2>3, <2>4 DEF VersionsBehind
<1> QED  BY <1>2 DEF CacheInv

(* The outcome changes the copy, not its version.                           *)
LEMMA OutcomeVersion ==
    ASSUME NEW b \in HeldBreaker
    PROVE  OnSuccess(b).version = b.version /\ OnFailure(b, 0).version = b.version
<1>1. OnSuccess(b).version = b.version
  BY DEF OnSuccess, HeldBreaker
<1>2. OnFailure(b, 0).version = b.version
  BY DEF OnFailure, HeldBreaker
<1> QED  BY <1>1, <1>2

LEMMA CacheNext == TypeInv /\ TypeInv' /\ CacheInv /\ [Next]_vars => CacheInv'
<1> SUFFICES ASSUME TypeInv, TypeInv', CacheInv, [Next]_vars PROVE CacheInv'
  OBVIOUS
<1> DEFINE Idle == /\ UNCHANGED <<breakers, breaker_states>>
                   /\ \A w \in Workers : KeepsVersion(w)
<1>1. ASSUME Idle PROVE CacheInv'
  BY <1>1, CacheIdle
<1>2. ASSUME NEW w \in Workers, Receive(w) \/ Process(w) PROVE Idle
  <2>1. CASE Receive(w)
    BY <2>1 DEF Receive, KeepsVersion, tables, local
  <2>2. CASE Process(w)
    <3>1. PICK r \in held[w] :
            /\ job' = [job EXCEPT ![w] = r]
            /\ GoTo(w, IF r.message \in Poison THEN "delete_message" ELSE "get_event")
      BY <2>2 DEF Process
    <3>2. UNCHANGED <<breakers, breaker_states, breaker>>
      BY <2>2 DEF Process, tables, local
    <3> QED
      BY <3>1, <3>2 DEF GoTo, KeepsVersion, TypeInv, TypeOK, HoldsBreaker
  <2> QED  BY <1>2, <2>1, <2>2
<1>3. ASSUME NEW w \in Workers, GetEvent(w) \/ GetConfig(w) PROVE Idle
  <2>1. UNCHANGED <<breakers, breaker_states>>
    BY <1>3 DEF GetEvent, GetConfig, tables
  <2>2. CASE Done(w)
    BY <2>1, <2>2, DoneVersions
  <2>3. CASE /\ \E step \in {"delete_message", "get_config", "get_breaker",
                             "update_event_status"} : GoTo(w, step)
             /\ UNCHANGED <<job, breaker>>
    BY <2>1, <2>3 DEF GoTo, KeepsVersion, TypeInv, TypeOK, HoldsBreaker
  <2> QED
    BY <1>3, <2>2, <2>3, AbandonIsDone, DecodeErrorDeletes DEF GetEvent, GetConfig, local
<1>4. ASSUME NEW w \in Workers, Deliver(w) \/ RecordAttempt(w) PROVE Idle
  <2>1. UNCHANGED <<breakers, breaker_states>> /\ pc[w] \in HoldsBreaker
    BY <1>4 DEF Deliver, RecordAttempt, tables, HoldsBreaker
  <2>2. CASE Done(w)
    BY <2>1, <2>2, DoneVersions
  <2>3. CASE /\ \E step \in {"record_attempt", "increment_attempt_count"} : GoTo(w, step)
             /\ UNCHANGED <<job, breaker>>
    BY <2>1, <2>3, WrittenVersions DEF GoTo, Steps
  <2> QED
    BY <1>4, <2>2, <2>3, AbandonIsDone DEF Deliver, RecordAttempt, local
<1>5. ASSUME NEW w \in Workers, IncrementAttemptCount(w) PROVE Idle
  <2>1. UNCHANGED <<breakers, breaker_states>> /\ pc[w] \in HoldsBreaker
    BY <1>5 DEF IncrementAttemptCount, HoldsBreaker
  <2>2. CASE Done(w)
    BY <2>1, <2>2, DoneVersions
  <2>3. CASE /\ breaker' = [breaker EXCEPT ![w] =
                  IF policy[w] = "Succeed" THEN OnSuccess(@) ELSE OnFailure(@, 0)]
             /\ GoTo(w, "put_outcome") /\ UNCHANGED job
    <3>1. breaker[w] \in HeldBreaker
      BY DEF TypeInv, TypeOK
    <3>2. breaker'[w].version = breaker[w].version
      BY <2>3, <3>1, OutcomeVersion DEF TypeInv, TypeOK
    <3>3. KeepsVersion(w)
      BY <2>1, <2>3, <3>2 DEF KeepsVersion
    <3>4. ASSUME NEW v \in Workers, v # w PROVE KeepsVersion(v)
      BY <2>3, <3>4 DEF GoTo, KeepsVersion, TypeInv, TypeOK
    <3> QED  BY <2>1, <3>3, <3>4
  <2> QED
    BY <1>5, <2>2, <2>3, AbandonIsDone DEF IncrementAttemptCount
<1>6. ASSUME NEW w \in Workers,
             UpdateEventStatus(w) \/ DeleteMessage(w) \/ ChangeVisibility(w)
      PROVE  Idle
  <2>1. UNCHANGED <<breakers, breaker_states>>
    BY <1>6 DEF UpdateEventStatus, DeleteMessage, ChangeVisibility, tables
  <2>2. CASE Done(w)
    BY <2>1, <2>2, DoneVersions
  <2>3. CASE /\ \E step \in {"delete_message", "change_visibility"} : GoTo(w, step)
             /\ UNCHANGED <<job, breaker>>
    BY <2>1, <2>3 DEF GoTo, KeepsVersion, TypeInv, TypeOK, HoldsBreaker
  <2> QED
    BY <1>6, <2>2, <2>3, AbandonIsDone
    DEF UpdateEventStatus, DeleteMessage, ChangeVisibility, local
<1>7. ASSUME NEW w \in Workers, Crash(w) PROVE CacheInv'
  <2>1. \A v \in Workers : KeepsVersion(v)
    BY <1>7, DoneVersions DEF Crash
  <2>2. \A v \in Workers, c \in Customers :
          breaker_states'[v][c] \in {breaker_states[v][c], breakers[c], NoItem}
    BY <1>7 DEF Crash, TypeInv, TypeOK
  <2> QED
    BY <1>7, <2>1, <2>2, FaultsStay, CacheQuiet DEF Crash, tables
<1>8. ASSUME \/ \E m \in Messages : Enqueue(m) \/ Redrive(m) \/ RemoveFromDlq(m)
             \/ \E e \in Events : Replicate(e) \/ StoreEvent(e)
             \/ \E c \in Customers : PutConfig(c)
             \/ UNCHANGED vars
      PROVE  Idle
  <2>1. UNCHANGED <<breakers, breaker_states, pc, job, breaker>>
    BY <1>8 DEF Enqueue, Redrive, RemoveFromDlq, Replicate, StoreEvent, PutConfig, vars,
                tables, processes, local
  <2> QED  BY <2>1 DEF KeepsVersion
<1> QED
  BY <1>1, <1>2, <1>3, <1>4, <1>5, <1>6, <1>7, <1>8, CacheFilled, CachePut, CacheTick
  DEF Next, Serve, Supply, Work

LEMMA CacheInvariant == Spec => []CacheInv
<1>1. Init => CacheInv
  BY DEF Init, CacheInv, VersionsBehind, HoldsBreaker
<1>2. TypeInv /\ TypeInv' /\ CacheInv /\ [Next]_vars => CacheInv'
  BY CacheNext
<1> QED  BY <1>1, <1>2, TypeInvariant, PTL DEF Spec

(* Until a call fails, no cached breaker state is ahead of the table, for   *)
(* any number of workers and crashes (main.rs 375-458).                     *)
THEOREM CacheNeverAheadHolds == Spec => []CacheNeverAhead
<1>1. TypeInv /\ CacheInv => CacheNeverAhead
  <2> SUFFICES ASSUME TypeInv, CacheInv, faults = 0,
                      NEW c \in Customers, NEW w \in Workers,
                      breaker_states[w][c] # NoItem, breaker_states[w][c].version > 0
               PROVE  /\ breakers[c] # NoItem
                      /\ breaker_states[w][c].version <= breakers[c].version
    BY DEF CacheNeverAhead
  <2>1. breaker_states[w][c].version <= VersionOf(breakers[c])
    BY DEF CacheInv, VersionsBehind
  <2>2. breaker_states[w][c].version \in Nat
    BY BreakerTypes DEF HeldBreaker
  <2> QED  BY <2>1, <2>2 DEF VersionOf
<1> QED  BY <1>1, CacheInvariant, TypeInvariant, PTL

-----------------------------------------------------------------------------
(* A worker alone, until a call fails.  The gate's put is always accepted,  *)
(* the outcome's always refused, so that the table is one outcome behind.   *)

OneWorker == \A v, w \in Workers : v = w

Asked == {"deliver", "record_attempt", "increment_attempt_count", "put_outcome"}

OneOutcome(b) == {Gist(b), Gist(OnSuccess(b)), Gist(OnFailure(b, 0))}

CacheBehind(w, c) ==
    breaker_states[w][c] # NoItem =>
        \/ /\ breakers[c] # NoItem
           /\ breaker_states[w][c].version = breakers[c].version
           /\ Gist(breaker_states[w][c]) \in OneOutcome(breakers[c])
        \/ /\ breakers[c] = NoItem /\ breaker_states[w][c].version = 0
           /\ pc[w] = "put_gate" /\ Cu(w) = c

CopyBehind(w) ==
    /\ pc[w] = "put_gate" => breaker[w].version = VersionOf(breakers[Cu(w)])
    /\ pc[w] \in Asked =>
         /\ breakers[Cu(w)] # NoItem
         /\ breakers[Cu(w)].version = breaker[w].version + 1
         /\ IF pc[w] = "put_outcome"
            THEN Gist(NextVersion(breaker[w])) \in OneOutcome(breakers[Cu(w)])
            ELSE Gist(NextVersion(breaker[w])) = Gist(breakers[Cu(w)])

TableInv ==
    faults = 0 =>
        \A w \in Workers : CopyBehind(w) /\ \A c \in Customers : CacheBehind(w, c)

(* What the gist of a state is, and that of what becomes of it.             *)
LEMMA GistFields ==
    ASSUME NEW a \in HeldBreaker, NEW b \in HeldBreaker
    PROVE  Gist(a) = Gist(b) <=> /\ a.mode = b.mode
                                 /\ a.consecutive_failures = b.consecutive_failures
                                 /\ a.half_open_in_flight = b.half_open_in_flight
                                 /\ a.version = b.version
<1>1. /\ Gist(a).mode = a.mode /\ Gist(b).mode = b.mode
      /\ Gist(a).consecutive_failures = a.consecutive_failures
      /\ Gist(b).consecutive_failures = b.consecutive_failures
      /\ Gist(a).half_open_in_flight = a.half_open_in_flight
      /\ Gist(b).half_open_in_flight = b.half_open_in_flight
      /\ Gist(a).version = a.version /\ Gist(b).version = b.version
  BY DEF Gist, HeldBreaker
<1>2. /\ a.mode = b.mode /\ a.consecutive_failures = b.consecutive_failures
      /\ a.half_open_in_flight = b.half_open_in_flight /\ a.version = b.version
      => Gist(a) = Gist(b)
  BY DEF Gist, HeldBreaker
<1> QED  BY <1>1, <1>2

(* The failure that opens the breaker.                                      *)
Opens(b) ==
    \/ b.mode = "HalfOpen"
    \/ b.mode = "Closed" /\ b.consecutive_failures + 1 >= FailureThreshold

LEMMA FailureFields ==
    ASSUME NEW b \in HeldBreaker
    PROVE  /\ OnFailure(b, 0) \in HeldBreaker /\ OnFailure(b, 0).version = b.version
           /\ OnFailure(b, 0).consecutive_failures = b.consecutive_failures + 1
           /\ OnFailure(b, 0).mode = IF Opens(b) THEN "Open" ELSE b.mode
           /\ OnFailure(b, 0).half_open_in_flight =
                IF Opens(b) THEN FALSE ELSE b.half_open_in_flight
<1> DEFINE counted == [b EXCEPT !.consecutive_failures = @ + 1]
           opened == [counted EXCEPT !.mode = "Open", !.next_probe_at = 0 + RecoveryTimeout,
                                     !.half_open_in_flight = FALSE]
<1>1. /\ counted \in HeldBreaker
      /\ counted.consecutive_failures = b.consecutive_failures + 1
      /\ counted.mode = b.mode /\ counted.version = b.version
      /\ counted.half_open_in_flight = b.half_open_in_flight
  BY DEF HeldBreaker
<1>2. /\ opened \in HeldBreaker /\ opened.mode = "Open" /\ opened.version = b.version
      /\ opened.consecutive_failures = b.consecutive_failures + 1
      /\ opened.half_open_in_flight = FALSE
  <2>1. 0 + RecoveryTimeout \in Nat
    BY ResilienceConfig
  <2> HIDE DEF counted
  <2> QED  BY <1>1, <2>1 DEF HeldBreaker, BreakerMode
<1>3. OnFailure(b, 0) = IF Opens(b) THEN opened ELSE counted
  BY <1>1 DEF OnFailure, Opens
<1> HIDE DEF counted, opened
<1>4. CASE Opens(b)
  BY <1>2, <1>3, <1>4
<1>5. CASE ~Opens(b)
  BY <1>1, <1>3, <1>5
<1> QED  BY <1>4, <1>5

LEMMA SuccessFields ==
    ASSUME NEW b \in HeldBreaker
    PROVE  /\ OnSuccess(b) \in HeldBreaker /\ OnSuccess(b).version = b.version
           /\ OnSuccess(b).consecutive_failures = 0
           /\ OnSuccess(b).mode = IF b.mode = "HalfOpen" THEN "Closed" ELSE b.mode
           /\ OnSuccess(b).half_open_in_flight =
                IF b.mode = "HalfOpen" THEN FALSE ELSE b.half_open_in_flight
  BY DEF OnSuccess, HeldBreaker, BreakerMode

LEMMA NextFields ==
    ASSUME NEW b \in HeldBreaker
    PROVE  /\ NextVersion(b) \in HeldBreaker /\ NextVersion(b) # NoItem
           /\ NextVersion(b).version = b.version + 1
           /\ NextVersion(b).mode = b.mode
           /\ NextVersion(b).consecutive_failures = b.consecutive_failures
           /\ NextVersion(b).half_open_in_flight = b.half_open_in_flight
<1>1. NextVersion(b) \in HeldBreaker
  BY VersionAndTickType
<1>2. NextVersion(b) # NoItem
  BY <1>1, NoItemAssumption
<1> QED  BY <1>1, <1>2 DEF NextVersion, HeldBreaker

LEMMA TickFields ==
    ASSUME NEW b \in HeldBreaker
    PROVE  /\ OneTickOn(b) \in HeldBreaker /\ OneTickOn(b).version = b.version
           /\ OneTickOn(b).mode = b.mode
           /\ OneTickOn(b).consecutive_failures = b.consecutive_failures
           /\ OneTickOn(b).half_open_in_flight = b.half_open_in_flight
<1>1. OneTickOn(b) \in HeldBreaker
  BY VersionAndTickType
<1> QED  BY <1>1 DEF OneTickOn, HeldBreaker

(* States of the same gist have the same outcomes, ...                      *)
LEMMA SameOutcomes ==
    ASSUME NEW a \in HeldBreaker, NEW b \in HeldBreaker, Gist(a) = Gist(b)
    PROVE  OneOutcome(a) = OneOutcome(b)
<1>1. /\ a.mode = b.mode /\ a.consecutive_failures = b.consecutive_failures
      /\ a.half_open_in_flight = b.half_open_in_flight /\ a.version = b.version
  BY GistFields
<1>2. Gist(OnSuccess(a)) = Gist(OnSuccess(b))
  <2> DEFINE x == OnSuccess(a)
             y == OnSuccess(b)
  <2>1. /\ x \in HeldBreaker /\ y \in HeldBreaker
        /\ x.mode = y.mode /\ x.consecutive_failures = y.consecutive_failures
        /\ x.half_open_in_flight = y.half_open_in_flight /\ x.version = y.version
    <3>1. /\ x \in HeldBreaker /\ x.version = a.version
          /\ y \in HeldBreaker /\ y.version = b.version
      BY SuccessFields
    <3>2. /\ x.mode = y.mode /\ x.consecutive_failures = y.consecutive_failures
          /\ x.half_open_in_flight = y.half_open_in_flight
      BY <1>1, SuccessFields
    <3> QED  BY <1>1, <3>1, <3>2
  <2> HIDE DEF x, y
  <2>2. Gist(x) = Gist(y)
    BY <2>1, GistFields
  <2> QED  BY <2>2 DEF x, y
<1>3. Gist(OnFailure(a, 0)) = Gist(OnFailure(b, 0))
  <2> DEFINE x == OnFailure(a, 0)
             y == OnFailure(b, 0)
  <2>1. /\ x \in HeldBreaker /\ y \in HeldBreaker
        /\ x.mode = y.mode /\ x.consecutive_failures = y.consecutive_failures
        /\ x.half_open_in_flight = y.half_open_in_flight /\ x.version = y.version
    <3>1. /\ x \in HeldBreaker /\ x.version = a.version
          /\ y \in HeldBreaker /\ y.version = b.version
      BY FailureFields
    <3>2. /\ x.mode = y.mode /\ x.consecutive_failures = y.consecutive_failures
          /\ x.half_open_in_flight = y.half_open_in_flight
      <4>1. Opens(a) <=> Opens(b)
        BY <1>1 DEF Opens
      <4>2. /\ x.consecutive_failures = a.consecutive_failures + 1
            /\ y.consecutive_failures = b.consecutive_failures + 1
            /\ x.mode = IF Opens(a) THEN "Open" ELSE a.mode
            /\ y.mode = IF Opens(b) THEN "Open" ELSE b.mode
        BY FailureFields
      <4>3. /\ x.half_open_in_flight = IF Opens(a) THEN FALSE ELSE a.half_open_in_flight
            /\ y.half_open_in_flight = IF Opens(b) THEN FALSE ELSE b.half_open_in_flight
        BY FailureFields
      <4> HIDE DEF x, y
      <4>4. x.half_open_in_flight = y.half_open_in_flight
        BY <1>1, <4>1, <4>3, Zenon
      <4> QED  BY <1>1, <4>1, <4>2, <4>4
    <3> QED  BY <1>1, <3>1, <3>2
  <2> HIDE DEF x, y
  <2>2. Gist(x) = Gist(y)
    BY <2>1, GistFields
  <2> QED  BY <2>2 DEF x, y
<1> QED  BY <1>2, <1>3 DEF OneOutcome

(* ... an outcome written one version up is one of what the gate wrote, ... *)
LEMMA OutcomeWrittenUp ==
    ASSUME NEW a \in HeldBreaker, NEW b \in HeldBreaker, Gist(NextVersion(a)) = Gist(b)
    PROVE  /\ Gist(NextVersion(OnSuccess(a))) \in OneOutcome(b)
           /\ Gist(NextVersion(OnFailure(a, 0))) \in OneOutcome(b)
<1>1. /\ a.mode = b.mode /\ a.consecutive_failures = b.consecutive_failures
      /\ a.half_open_in_flight = b.half_open_in_flight /\ a.version + 1 = b.version
  <2>1. NextVersion(a) \in HeldBreaker
    BY NextFields
  <2> QED  BY <2>1, NextFields, GistFields
<1>2. Gist(NextVersion(OnSuccess(a))) = Gist(OnSuccess(b))
  <2> DEFINE x == OnSuccess(a)
             y == OnSuccess(b)
  <2>1. /\ x \in HeldBreaker /\ y \in HeldBreaker
        /\ x.mode = y.mode /\ x.consecutive_failures = y.consecutive_failures
        /\ x.half_open_in_flight = y.half_open_in_flight /\ x.version + 1 = y.version
    <3>1. /\ x \in HeldBreaker /\ x.version = a.version
          /\ y \in HeldBreaker /\ y.version = b.version
      BY SuccessFields
    <3>2. /\ x.mode = y.mode /\ x.consecutive_failures = y.consecutive_failures
          /\ x.half_open_in_flight = y.half_open_in_flight
      BY <1>1, SuccessFields
    <3> QED  BY <1>1, <3>1, <3>2
  <2> HIDE DEF x, y
  <2>2. Gist(NextVersion(x)) = Gist(y)
    <3>1. NextVersion(x) \in HeldBreaker
      BY <2>1, NextFields
    <3> QED  BY <2>1, <3>1, NextFields, GistFields
  <2> QED  BY <2>2 DEF x, y
<1>3. Gist(NextVersion(OnFailure(a, 0))) = Gist(OnFailure(b, 0))
  <2> DEFINE x == OnFailure(a, 0)
             y == OnFailure(b, 0)
  <2>1. /\ x \in HeldBreaker /\ y \in HeldBreaker
        /\ x.mode = y.mode /\ x.consecutive_failures = y.consecutive_failures
        /\ x.half_open_in_flight = y.half_open_in_flight /\ x.version + 1 = y.version
    <3>1. /\ x \in HeldBreaker /\ x.version = a.version
          /\ y \in HeldBreaker /\ y.version = b.version
      BY FailureFields
    <3>2. /\ x.mode = y.mode /\ x.consecutive_failures = y.consecutive_failures
          /\ x.half_open_in_flight = y.half_open_in_flight
      <4>1. Opens(a) <=> Opens(b)
        BY <1>1 DEF Opens
      <4>2. /\ x.consecutive_failures = a.consecutive_failures + 1
            /\ y.consecutive_failures = b.consecutive_failures + 1
            /\ x.mode = IF Opens(a) THEN "Open" ELSE a.mode
            /\ y.mode = IF Opens(b) THEN "Open" ELSE b.mode
        BY FailureFields
      <4>3. /\ x.half_open_in_flight = IF Opens(a) THEN FALSE ELSE a.half_open_in_flight
            /\ y.half_open_in_flight = IF Opens(b) THEN FALSE ELSE b.half_open_in_flight
        BY FailureFields
      <4> HIDE DEF x, y
      <4>4. x.half_open_in_flight = y.half_open_in_flight
        BY <1>1, <4>1, <4>3, Zenon
      <4> QED  BY <1>1, <4>1, <4>2, <4>4
    <3> QED  BY <1>1, <3>1, <3>2
  <2> HIDE DEF x, y
  <2>2. Gist(NextVersion(x)) = Gist(y)
    <3>1. NextVersion(x) \in HeldBreaker
      BY <2>1, NextFields
    <3> QED  BY <2>1, <3>1, NextFields, GistFields
  <2> QED  BY <2>2 DEF x, y
<1> QED  BY <1>2, <1>3 DEF OneOutcome

(* ... and time changes none of this.                                       *)
LEMMA GistTicks ==
    ASSUME NEW b \in HeldBreaker
    PROVE  /\ Gist(OneTickOn(b)) = Gist(b)
           /\ OneOutcome(OneTickOn(b)) = OneOutcome(b)
           /\ Gist(NextVersion(OneTickOn(b))) = Gist(NextVersion(b))
<1>1. OneTickOn(b) \in HeldBreaker /\ Gist(OneTickOn(b)) = Gist(b)
  BY TickFields, GistFields
<1>2. NextVersion(b) \in HeldBreaker /\ NextVersion(OneTickOn(b)) \in HeldBreaker
  BY <1>1, NextFields
<1>3. Gist(NextVersion(OneTickOn(b))) = Gist(NextVersion(b))
  BY <1>1, <1>2, TickFields, NextFields, GistFields
<1> QED  BY <1>1, <1>3, SameOutcomes

(* Nothing of this changes while the worker has no copy.                    *)
LEMMA AwayBehind ==
    ASSUME NEW w \in Workers, pc[w] \notin HoldsBreaker, pc'[w] \notin HoldsBreaker,
           UNCHANGED <<breakers, breaker_states>>,
           \A c \in Customers : CacheBehind(w, c)
    PROVE  CopyBehind(w)' /\ \A c \in Customers : CacheBehind(w, c)'
<1>1. CopyBehind(w)'
  BY DEF CopyBehind, HoldsBreaker, Asked
<1>2. ASSUME NEW c \in Customers PROVE CacheBehind(w, c)'
  BY DEF CacheBehind, HoldsBreaker
<1> QED  BY <1>1, <1>2

(* The cache does not matter to the copy.                                   *)
LEMMA CacheStays ==
    ASSUME NEW w \in Workers, pc[w] # "put_gate", UNCHANGED <<breakers, breaker_states>>,
           \A c \in Customers : CacheBehind(w, c)
    PROVE  \A c \in Customers : CacheBehind(w, c)'
  BY DEF CacheBehind

(* What get_breaker_state returns to a worker alone has the table's version. *)
LEMMA TableRead ==
    ASSUME TypeInv, NEW w \in Workers, GetBreaker(w), ~Fault,
           \A c \in Customers : CacheBehind(w, c)
    PROVE  CopyBehind(w)' /\ \A c \in Customers : CacheBehind(w, c)'
<1>1. /\ Cu(w) \in Customers /\ Cu(w)' = Cu(w) /\ pc[w] = "get_breaker"
      /\ pc'[w] = "put_gate" /\ breakers' = breakers
  BY JobType DEF GetBreaker, GoTo, TypeInv, TypeOK, tables, Cu, Ev
<1>2. PICK read \in {breaker_states[w][Cu(w)], breakers[Cu(w)], NoItem} :
        LET b == IF read = NoItem THEN ClosedBreakerState ELSE read
        IN /\ IF breaker_states[w][Cu(w)] # NoItem
              THEN read = breaker_states[w][Cu(w)] /\ UNCHANGED faults
              ELSE BreakerRead(Cu(w), read)
           /\ breaker_states' = [breaker_states EXCEPT ![w][Cu(w)] = b]
           /\ breaker' = [breaker EXCEPT ![w] = AfterGate(b, 0)]
  BY DEF GetBreaker
<1> DEFINE b == IF read = NoItem THEN ClosedBreakerState ELSE read
<1>3. b \in HeldBreaker
  BY <1>1, <1>2, BreakerTypes, ClosedType
<1>4. /\ breaker_states' = [breaker_states EXCEPT ![w][Cu(w)] = b]
      /\ breaker' = [breaker EXCEPT ![w] = AfterGate(b, 0)]
  BY <1>2
<1>5. \/ /\ breakers[Cu(w)] # NoItem /\ b.version = breakers[Cu(w)].version
         /\ Gist(b) \in OneOutcome(breakers[Cu(w)])
      \/ breakers[Cu(w)] = NoItem /\ b.version = 0
  <2>1. CASE breaker_states[w][Cu(w)] # NoItem
    <3>1. b = breaker_states[w][Cu(w)]
      BY <1>2, <2>1
    <3> QED  BY <1>1, <2>1, <3>1 DEF CacheBehind
  <2>2. CASE breaker_states[w][Cu(w)] = NoItem /\ breakers[Cu(w)] # NoItem
    <3>1. b = breakers[Cu(w)]
      BY <1>2, <2>2 DEF BreakerRead
    <3> QED  BY <2>2, <3>1 DEF OneOutcome
  <2>3. CASE breaker_states[w][Cu(w)] = NoItem /\ breakers[Cu(w)] = NoItem
    <3>1. b = ClosedBreakerState
      BY <1>2, <2>3
    <3> QED  BY <2>3, <3>1 DEF ClosedBreakerState
  <2> QED  BY <2>1, <2>2, <2>3
<1> HIDE DEF b
<1>6. AfterGate(b, 0).version = b.version
  BY <1>3 DEF AfterGate, HeldBreaker
<1>7. /\ breaker'[w].version = b.version
      /\ \A c \in Customers :
           breaker_states'[w][c] = IF c = Cu(w) THEN b ELSE breaker_states[w][c]
  BY <1>1, <1>4, <1>6 DEF TypeInv, TypeOK
<1>8. CopyBehind(w)'
  BY <1>1, <1>5, <1>7 DEF CopyBehind, VersionOf, Asked
<1>9. ASSUME NEW c \in Customers PROVE CacheBehind(w, c)'
  BY <1>1, <1>5, <1>7 DEF CacheBehind
<1> QED  BY <1>8, <1>9

(* The gate's put is accepted, the outcome's refused.                       *)
LEMMA TablePut ==
    ASSUME TypeInv, NEW w \in Workers, PutBreaker(w), ~Fault, CopyBehind(w),
           \A c \in Customers : CacheBehind(w, c)
    PROVE  CopyBehind(w)' /\ \A c \in Customers : CacheBehind(w, c)'
<1> DEFINE next == NextVersion(breaker[w])
<1>1. /\ Cu(w) \in Customers /\ Cu(w)' = Cu(w) /\ breaker' = breaker
      /\ pc[w] \in {"put_gate", "put_outcome"}
      /\ breaker_states' = [breaker_states EXCEPT ![w][Cu(w)] = next]
  BY JobType DEF PutBreaker, TypeInv, Cu, Ev
<1>2. /\ breaker[w] \in HeldBreaker /\ breaker[w].version \in Nat
      /\ next \in HeldBreaker /\ next # NoItem /\ next.version = breaker[w].version + 1
  <2>1. breaker[w] \in HeldBreaker
    BY DEF TypeInv, TypeOK
  <2> QED  BY <2>1, NextFields DEF HeldBreaker
<1>3. /\ pc'[w] \in {"deliver", "update_event_status"}
      /\ pc[w] = "put_outcome" => pc'[w] = "update_event_status"
  BY DEF PutBreaker, BreakerWritten, GateWritten, OutcomeWritten, GoTo, TypeInv, TypeOK
<1> HIDE DEF next
<1>4. \A c \in Customers :
        breaker_states'[w][c] = IF c = Cu(w) THEN next ELSE breaker_states[w][c]
  BY <1>1 DEF TypeInv, TypeOK
<1>5. CASE pc[w] = "put_gate"
  <2>1. ConditionHolds(Cu(w), breaker[w])
    BY <1>5 DEF ConditionHolds, CopyBehind, VersionOf
  <2>2. breakers' = [breakers EXCEPT ![Cu(w)] = next]
    BY <2>1 DEF PutBreaker, next
  <2>3. /\ breakers'[Cu(w)] = next
        /\ \A c \in Customers \ {Cu(w)} : breakers'[c] = breakers[c]
    BY <1>1, <2>2 DEF TypeInv, TypeOK
  <2>4. CopyBehind(w)'
    BY <1>1, <1>2, <1>3, <2>3 DEF CopyBehind, Asked, next
  <2>5. ASSUME NEW c \in Customers PROVE CacheBehind(w, c)'
    <3>1. CASE c = Cu(w)
      BY <1>2, <1>4, <2>3, <3>1 DEF CacheBehind, OneOutcome
    <3>2. CASE c # Cu(w)
      BY <1>4, <2>3, <3>2 DEF CacheBehind
    <3> QED  BY <3>1, <3>2
  <2> QED  BY <2>4, <2>5
<1>6. CASE pc[w] = "put_outcome"
  <2>1. /\ breakers[Cu(w)] # NoItem
        /\ breakers[Cu(w)].version = breaker[w].version + 1
        /\ Gist(next) \in OneOutcome(breakers[Cu(w)])
    BY <1>6 DEF CopyBehind, Asked, next
  <2>2. breakers' = breakers
    BY <1>2, <2>1 DEF PutBreaker, ConditionHolds
  <2>3. CopyBehind(w)'
    BY <1>3, <1>6 DEF CopyBehind, Asked
  <2>4. ASSUME NEW c \in Customers PROVE CacheBehind(w, c)'
    BY <1>2, <1>4, <1>6, <2>1, <2>2 DEF CacheBehind
  <2> QED  BY <2>3, <2>4
<1> QED  BY <1>1, <1>5, <1>6

LEMMA TableTick ==
    ASSUME TypeInv, NEW w \in Workers, Tick, CopyBehind(w),
           \A c \in Customers : CacheBehind(w, c)
    PROVE  CopyBehind(w)' /\ \A c \in Customers : CacheBehind(w, c)'
<1>1. /\ \A c \in Customers : breakers'[c] = OneTickOn(breakers[c])
      /\ breaker'[w] = OneTickOn(breaker[w])
      /\ \A c \in Customers : breaker_states'[w][c] = OneTickOn(breaker_states[w][c])
      /\ UNCHANGED <<pc, job>>
  BY DEF Tick
<1>2. Cu(w)' = Cu(w) /\ (pc[w] \in HoldsBreaker => Cu(w) \in Customers)
  BY <1>1, JobType DEF Cu, Ev, HoldsBreaker, TypeInv
<1>3. \A c \in Customers :
        /\ breakers'[c] = NoItem <=> breakers[c] = NoItem
        /\ breakers[c] # NoItem => /\ breakers[c] \in HeldBreaker
                                   /\ breakers'[c].version = breakers[c].version
                                   /\ Gist(breakers'[c]) = Gist(breakers[c])
                                   /\ OneOutcome(breakers'[c]) = OneOutcome(breakers[c])
  BY <1>1, BreakerTypes, TickState, GistTicks
<1>4. /\ breaker'[w].version = breaker[w].version
      /\ Gist(NextVersion(breaker'[w])) = Gist(NextVersion(breaker[w]))
  <2>1. breaker[w] \in HeldBreaker
    BY DEF TypeInv, TypeOK
  <2> QED  BY <1>1, <2>1, TickFields, GistTicks
<1>5. CopyBehind(w)'
  <2>1. ASSUME pc[w] = "put_gate"
        PROVE  breaker'[w].version = VersionOf(breakers'[Cu(w)])
    BY <1>2, <1>3, <1>4, <2>1 DEF CopyBehind, VersionOf, HoldsBreaker
  <2>2. ASSUME pc[w] \in Asked
        PROVE  /\ breakers'[Cu(w)] # NoItem
               /\ breakers'[Cu(w)].version = breaker'[w].version + 1
               /\ IF pc[w] = "put_outcome"
                  THEN Gist(NextVersion(breaker'[w])) \in OneOutcome(breakers'[Cu(w)])
                  ELSE Gist(NextVersion(breaker'[w])) = Gist(breakers'[Cu(w)])
    <3>1. Cu(w) \in Customers
      BY <1>2, <2>2 DEF Asked, HoldsBreaker
    <3> QED  BY <1>3, <1>4, <2>2, <3>1 DEF CopyBehind
  <2> QED  BY <1>1, <1>2, <2>1, <2>2 DEF CopyBehind
<1>6. ASSUME NEW c \in Customers PROVE CacheBehind(w, c)'
  <2> SUFFICES ASSUME breaker_states'[w][c] # NoItem
               PROVE  CacheBehind(w, c)'
    BY DEF CacheBehind
  <2>1. /\ breaker_states[w][c] # NoItem
        /\ breaker_states'[w][c].version = breaker_states[w][c].version
        /\ Gist(breaker_states'[w][c]) = Gist(breaker_states[w][c])
    BY <1>1, BreakerTypes, TickState, GistTicks
  <2> QED  BY <1>1, <1>2, <1>3, <2>1 DEF CacheBehind
<1> QED  BY <1>5, <1>6

LEMMA TableNext ==
    ASSUME OneWorker
    PROVE  TypeInv /\ TypeInv' /\ TableInv /\ [Next]_vars => TableInv'
<1> SUFFICES ASSUME TypeInv, TypeInv', TableInv, [Next]_vars, faults' = 0,
                    NEW w \in Workers
             PROVE  CopyBehind(w)' /\ \A c \in Customers : CacheBehind(w, c)'
  BY DEF TableInv
<1>1. CopyBehind(w) /\ (\A c \in Customers : CacheBehind(w, c)) /\ ~Fault
  BY FaultsStay, NoFault DEF TableInv
<1>2. /\ pc \in [Workers -> Steps]
      /\ breaker \in [Workers -> HeldBreaker]
      /\ breaker_states \in [Workers -> [Customers -> HeldBreaker \cup {NoItem}]]
  BY DEF TypeInv, TypeOK
<1>3. \A v \in Workers : v = w
  BY DEF OneWorker
<1>4. CASE Receive(w) \/ Process(w) \/ GetEvent(w) \/ GetConfig(w)
  <2>1. UNCHANGED <<breakers, breaker_states>>
    BY <1>4 DEF Receive, Process, GetEvent, GetConfig, tables
  <2>2. pc[w] \in {"idle", "get_event", "get_config"}
    BY <1>4 DEF Receive, Process, GetEvent, GetConfig
  <2>3. pc'[w] \in {"idle", "get_event", "delete_message", "get_config", "get_breaker",
                    "update_event_status"}
    BY <1>1, <1>2, <1>4, AbandonIsDone, DecodeErrorDeletes
    DEF Receive, Process, GetEvent, GetConfig, GoTo, Done
  <2> QED  BY <1>1, <2>1, <2>2, <2>3, AwayBehind DEF HoldsBreaker
<1>5. CASE UpdateEventStatus(w) \/ DeleteMessage(w) \/ ChangeVisibility(w)
  <2>1. UNCHANGED <<breakers, breaker_states>>
    BY <1>5 DEF UpdateEventStatus, DeleteMessage, ChangeVisibility, tables
  <2>2. pc[w] \in {"update_event_status", "delete_message", "change_visibility"}
    BY <1>5 DEF UpdateEventStatus, DeleteMessage, ChangeVisibility
  <2>3. pc'[w] \in {"idle", "delete_message", "change_visibility"}
    BY <1>1, <1>2, <1>5, AbandonIsDone
    DEF UpdateEventStatus, DeleteMessage, ChangeVisibility, GoTo, Done
  <2> QED  BY <1>1, <2>1, <2>2, <2>3, AwayBehind DEF HoldsBreaker
<1>6. CASE GetBreaker(w)
  BY <1>1, <1>6, TableRead
<1>7. CASE PutBreaker(w)
  BY <1>1, <1>7, TablePut
<1>8. CASE Deliver(w) \/ RecordAttempt(w)
  <2>1. /\ pc[w] \in {"deliver", "record_attempt"}
        /\ pc'[w] \in {"record_attempt", "increment_attempt_count"}
        /\ UNCHANGED <<breakers, breaker_states, breaker, job>>
    BY <1>1, <1>2, <1>8 DEF Deliver, RecordAttempt, GoTo, tables, local
  <2>2. Cu(w)' = Cu(w)
    BY <2>1 DEF Cu, Ev
  <2>3. CopyBehind(w)'
    BY <1>1, <2>1, <2>2 DEF CopyBehind, Asked
  <2> QED  BY <1>1, <2>1, <2>3, CacheStays
<1>9. CASE IncrementAttemptCount(w)
  <2>1. /\ pc[w] = "increment_attempt_count" /\ pc'[w] = "put_outcome"
        /\ UNCHANGED <<breakers, breaker_states, job>>
        /\ breaker'[w] \in {OnSuccess(breaker[w]), OnFailure(breaker[w], 0)}
    BY <1>1, <1>2, <1>9 DEF IncrementAttemptCount, GoTo
  <2>2. Cu(w)' = Cu(w) /\ Cu(w) \in Customers
    BY <2>1, JobType DEF Cu, Ev, TypeInv
  <2>3. /\ breakers[Cu(w)] # NoItem /\ breakers[Cu(w)] \in HeldBreaker
        /\ breakers[Cu(w)].version = breaker[w].version + 1
        /\ Gist(NextVersion(breaker[w])) = Gist(breakers[Cu(w)])
    BY <1>1, <2>1, <2>2, BreakerTypes DEF CopyBehind, Asked
  <2>4. /\ breaker'[w].version = breaker[w].version
        /\ Gist(NextVersion(breaker'[w])) \in OneOutcome(breakers[Cu(w)])
    BY <1>2, <2>1, <2>3, OutcomeVersion, OutcomeWrittenUp
  <2>5. CopyBehind(w)'
    BY <2>1, <2>2, <2>3, <2>4 DEF CopyBehind
  <2> QED  BY <1>1, <2>1, <2>5, CacheStays
<1>10. CASE Crash(w)
  <2>1. pc'[w] = "idle" /\ \A c \in Customers : breaker_states'[w][c] = NoItem
    BY <1>2, <1>10 DEF Crash, Done, GoTo
  <2> QED  BY <2>1 DEF CopyBehind, CacheBehind, Asked
<1>11. CASE Tick
  BY <1>1, <1>11, TableTick
<1>12. CASE \/ \E m \in Messages : Enqueue(m) \/ Redrive(m) \/ RemoveFromDlq(m)
            \/ \E e \in Events : Replicate(e) \/ StoreEvent(e)
            \/ \E c \in Customers : PutConfig(c)
            \/ UNCHANGED vars
  <2>1. UNCHANGED <<pc, job, breakers, breaker_states, breaker>>
    BY <1>12 DEF Enqueue, Redrive, RemoveFromDlq, Replicate, StoreEvent, PutConfig,
                 vars, tables, processes, local
  <2>2. Cu(w)' = Cu(w)
    BY <2>1 DEF Cu, Ev
  <2>3. CopyBehind(w)'
    BY <1>1, <2>1, <2>2 DEF CopyBehind
  <2>4. ASSUME NEW c \in Customers PROVE CacheBehind(w, c)'
    BY <1>1, <2>1, <2>2 DEF CacheBehind
  <2> QED  BY <2>3, <2>4
<1> QED
  BY <1>3, <1>4, <1>5, <1>6, <1>7, <1>8, <1>9, <1>10, <1>11, <1>12
  DEF Next, Serve, Supply, Work

(* A worker alone leaves a table that, until a call fails, is exactly one   *)
(* outcome behind: what it would load after a restart is what the last gate *)
(* wrote, however often it restarted before and whatever was answered       *)
(* (main.rs 193-297 and 375-458).                                           *)
THEOREM TableOneOutcomeBehindHolds ==
    ASSUME OneWorker
    PROVE  Spec => []TableOneOutcomeBehind
<1>1. Init => TableInv
  BY DEF Init, TableInv, CopyBehind, CacheBehind, Asked
<1>2. TypeInv /\ TypeInv' /\ TableInv /\ [Next]_vars => TableInv'
  BY TableNext
<1>3. TableInv => TableOneOutcomeBehind
  BY DEF TableInv, TableOneOutcomeBehind, CacheBehind, OneOutcome
<1> QED  BY <1>1, <1>2, <1>3, TypeInvariant, PTL DEF Spec

-----------------------------------------------------------------------------
(* The breaker of a worker alone, when no call fails and no process dies.   *)
(* The cache counts what the endpoint answered, except while a request of   *)
(* this customer is under way; then the copy does.                          *)

(* A state that agrees with an endpoint that failed s times in a row, ...   *)
Tracks(b, s) ==
    /\ b.consecutive_failures = s
    /\ b.mode = IF s < FailureThreshold THEN "Closed" ELSE "Open"
    /\ ~b.half_open_in_flight

(* ... and one the gate let a request to such an endpoint through with.     *)
Passed(b, s) ==
    /\ b.consecutive_failures = s
    /\ b.mode = IF s < FailureThreshold THEN "Closed" ELSE "HalfOpen"
    /\ s < FailureThreshold => ~b.half_open_in_flight

EntryFollows(w, c) ==
    \/ breaker_states[w][c] = NoItem /\ breakers[c] = NoItem /\ streak[c] = 0
    \/ /\ breaker_states[w][c] # NoItem
       /\ \/ pc[w] \in Asked /\ Cu(w) = c
          \/ Tracks(breaker_states[w][c], streak[c])

CopyFollows(w) ==
    /\ pc[w] \in HoldsBreaker => breaker_states[w][Cu(w)] # NoItem
    /\ pc[w] = "put_gate" =>
         IF policy[w] = "Blocked" THEN Tracks(breaker[w], streak[Cu(w)])
                                  ELSE Passed(breaker[w], streak[Cu(w)])
    /\ pc[w] = "deliver" => Passed(breaker[w], streak[Cu(w)])
    /\ pc[w] \in {"record_attempt", "increment_attempt_count"} =>
         \E s \in Nat : /\ Passed(breaker[w], s)
                        /\ streak[Cu(w)] = IF policy[w] = "Succeed" THEN 0 ELSE s + 1
    /\ pc[w] = "put_outcome" => Tracks(breaker[w], streak[Cu(w)])

BreakerInv ==
    faults = 0 /\ crashes = 0 =>
        \A w \in Workers : CopyFollows(w) /\ \A c \in Customers : EntryFollows(w, c)

(* The gate, the outcome, a put and the passing of time keep them so.       *)
LEMMA GateFollows ==
    ASSUME NEW b \in HeldBreaker, NEW s \in Nat, Tracks(b, s)
    PROVE  IF ShouldAllow(b, 0) THEN Passed(AfterGate(b, 0), s) ELSE AfterGate(b, 0) = b
  BY ResilienceConfig DEF Tracks, Passed, ShouldAllow, AfterGate, HeldBreaker, BreakerMode

LEMMA OutcomeFollows ==
    ASSUME FailureThreshold > 0, NEW b \in HeldBreaker, NEW s \in Nat, Passed(b, s)
    PROVE  Tracks(OnSuccess(b), 0) /\ Tracks(OnFailure(b, 0), s + 1)
<1>1. FailureThreshold \in Nat
  BY ResilienceConfig
<1>2. Tracks(OnSuccess(b), 0)
  BY <1>1 DEF Tracks, Passed, OnSuccess, HeldBreaker, BreakerMode
<1>3. Tracks(OnFailure(b, 0), s + 1)
  <2> DEFINE counted == [b EXCEPT !.consecutive_failures = @ + 1]
             opened == [counted EXCEPT !.mode = "Open",
                                       !.next_probe_at = 0 + RecoveryTimeout,
                                       !.half_open_in_flight = FALSE]
  <2>1. /\ counted \in HeldBreaker /\ counted.consecutive_failures = s + 1
        /\ counted.mode = b.mode /\ counted.half_open_in_flight = b.half_open_in_flight
    BY DEF Passed, HeldBreaker
  <2>2. /\ opened.consecutive_failures = s + 1 /\ opened.mode = "Open"
        /\ ~opened.half_open_in_flight
    <3> HIDE DEF counted
    <3> QED  BY <2>1 DEF HeldBreaker
  <2>3. OnFailure(b, 0) = IF b.mode = "HalfOpen" \/ s + 1 >= FailureThreshold
                          THEN opened ELSE counted
    <3>1. b.mode \in {"HalfOpen", "Closed"}
      BY DEF Passed
    <3> QED  BY <2>1, <3>1 DEF OnFailure
  <2> HIDE DEF counted, opened
  <2>4. CASE s < FailureThreshold
    BY <1>1, <2>1, <2>2, <2>3, <2>4 DEF Tracks, Passed
  <2>5. CASE ~(s < FailureThreshold)
    BY <1>1, <2>1, <2>2, <2>3, <2>5 DEF Tracks, Passed
  <2> QED  BY <2>4, <2>5
<1> QED  BY <1>2, <1>3

LEMMA KeepFollowing ==
    ASSUME NEW b \in HeldBreaker
    PROVE  \A s \in Nat :
             /\ Tracks(b, s) => Tracks(NextVersion(b), s) /\ Tracks(OneTickOn(b), s)
             /\ Passed(b, s) => Passed(OneTickOn(b), s)
<1>1. /\ NextVersion(b).consecutive_failures = b.consecutive_failures
      /\ NextVersion(b).mode = b.mode
      /\ NextVersion(b).half_open_in_flight = b.half_open_in_flight
  BY DEF NextVersion, HeldBreaker
<1>2. /\ OneTickOn(b).consecutive_failures = b.consecutive_failures
      /\ OneTickOn(b).mode = b.mode
      /\ OneTickOn(b).half_open_in_flight = b.half_open_in_flight
  BY DEF OneTickOn, HeldBreaker
<1> QED  BY <1>1, <1>2 DEF Tracks, Passed

LEMMA Calm ==
    ASSUME TypeInv, [Next]_vars, faults' = 0, crashes' = 0
    PROVE  faults = 0 /\ crashes = 0 /\ ~Fault /\ \A w \in Workers : ~Crash(w)
  BY CallsCounted DEF Fault, Crash, TypeInv, TypeOK

(* Nothing of this changes while the worker has no copy.                    *)
LEMMA AwayFollows ==
    ASSUME NEW w \in Workers, pc[w] \notin HoldsBreaker, pc'[w] \notin HoldsBreaker,
           UNCHANGED <<breakers, breaker_states, streak>>,
           CopyFollows(w), \A c \in Customers : EntryFollows(w, c)
    PROVE  CopyFollows(w)' /\ \A c \in Customers : EntryFollows(w, c)'
<1>1. CopyFollows(w)'
  BY DEF CopyFollows, HoldsBreaker
<1>2. ASSUME NEW c \in Customers PROVE EntryFollows(w, c)'
  BY DEF EntryFollows, HoldsBreaker, Asked
<1> QED  BY <1>1, <1>2

LEMMA BreakerNext ==
    ASSUME OneWorker, FailureThreshold > 0
    PROVE  TypeInv /\ TypeInv' /\ BreakerInv /\ [Next]_vars => BreakerInv'
<1> SUFFICES ASSUME TypeInv, TypeInv', BreakerInv, [Next]_vars,
                    faults' = 0, crashes' = 0, NEW w \in Workers
             PROVE  CopyFollows(w)' /\ \A c \in Customers : EntryFollows(w, c)'
  BY DEF BreakerInv
<1>1. /\ CopyFollows(w) /\ \A c \in Customers : EntryFollows(w, c)
      /\ ~Fault /\ ~Crash(w)
  BY Calm DEF BreakerInv
<1>2. /\ pc \in [Workers -> Steps]
      /\ breaker \in [Workers -> HeldBreaker] /\ policy \in [Workers -> Policies]
      /\ breaker_states \in [Workers -> [Customers -> HeldBreaker \cup {NoItem}]]
      /\ streak \in [Customers -> Nat]
  BY DEF TypeInv, TypeOK
<1>3. \A v \in Workers : v = w
  BY DEF OneWorker
<1>4. CASE Receive(w) \/ Process(w) \/ GetEvent(w) \/ GetConfig(w)
  <2>1. UNCHANGED <<breakers, breaker_states, streak>>
    BY <1>4 DEF Receive, Process, GetEvent, GetConfig, tables, history
  <2>2. pc[w] \in {"idle", "get_event", "get_config"}
    BY <1>4 DEF Receive, Process, GetEvent, GetConfig
  <2>3. pc'[w] \in {"idle", "get_event", "delete_message", "get_config", "get_breaker",
                    "update_event_status"}
    BY <1>1, <1>2, <1>4, AbandonIsDone, DecodeErrorDeletes
    DEF Receive, Process, GetEvent, GetConfig, GoTo, Done
  <2> QED  BY <1>1, <2>1, <2>2, <2>3, AwayFollows DEF HoldsBreaker
<1>5. CASE UpdateEventStatus(w) \/ DeleteMessage(w) \/ ChangeVisibility(w)
  <2>1. UNCHANGED <<breakers, breaker_states, streak>>
    BY <1>5 DEF UpdateEventStatus, DeleteMessage, ChangeVisibility, tables, history
  <2>2. pc[w] \in {"update_event_status", "delete_message", "change_visibility"}
    BY <1>5 DEF UpdateEventStatus, DeleteMessage, ChangeVisibility
  <2>3. pc'[w] \in {"idle", "delete_message", "change_visibility"}
    BY <1>1, <1>2, <1>5, AbandonIsDone
    DEF UpdateEventStatus, DeleteMessage, ChangeVisibility, GoTo, Done
  <2> QED  BY <1>1, <2>1, <2>2, <2>3, AwayFollows DEF HoldsBreaker
<1>6. CASE GetBreaker(w)
  <2>1. /\ Cu(w) \in Customers /\ Cu(w)' = Cu(w) /\ pc[w] = "get_breaker"
        /\ pc'[w] = "put_gate" /\ UNCHANGED <<breakers, streak>>
    BY <1>2, <1>6, JobType DEF GetBreaker, GoTo, TypeInv, tables, history, Cu, Ev
  <2>2. EntryFollows(w, Cu(w)) /\ pc[w] \notin Asked
    BY <1>1, <2>1 DEF Asked
  <2>3. PICK b \in HeldBreaker :
          /\ Tracks(b, streak[Cu(w)])
          /\ breaker_states' = [breaker_states EXCEPT ![w][Cu(w)] = b]
          /\ breaker' = [breaker EXCEPT ![w] = AfterGate(b, 0)]
          /\ policy' = [policy EXCEPT ![w] =
               IF ShouldAllow(b, 0) THEN "Allowed" ELSE "Blocked"]
    <3>1. PICK read \in {breaker_states[w][Cu(w)], breakers[Cu(w)], NoItem} :
            LET b == IF read = NoItem THEN ClosedBreakerState ELSE read
            IN /\ IF breaker_states[w][Cu(w)] # NoItem
                  THEN read = breaker_states[w][Cu(w)] /\ UNCHANGED faults
                  ELSE BreakerRead(Cu(w), read)
               /\ breaker_states' = [breaker_states EXCEPT ![w][Cu(w)] = b]
               /\ breaker' = [breaker EXCEPT ![w] = AfterGate(b, 0)]
               /\ policy' = [policy EXCEPT ![w] =
                    IF ShouldAllow(b, 0) THEN "Allowed" ELSE "Blocked"]
      BY <1>6 DEF GetBreaker
    <3> DEFINE b == IF read = NoItem THEN ClosedBreakerState ELSE read
    <3>2. CASE breaker_states[w][Cu(w)] # NoItem
      <4>1. b = breaker_states[w][Cu(w)] /\ b \in HeldBreaker
        BY <1>2, <2>1, <3>1, <3>2
      <4> QED  BY <2>2, <3>1, <3>2, <4>1 DEF EntryFollows
    <3>3. CASE breaker_states[w][Cu(w)] = NoItem
      <4>1. breakers[Cu(w)] = NoItem /\ streak[Cu(w)] = 0
        BY <2>2, <3>3 DEF EntryFollows
      <4>2. b = ClosedBreakerState
        BY <1>1, <3>1, <3>3, <4>1 DEF BreakerRead
      <4>3. Tracks(ClosedBreakerState, 0)
        BY DEF Tracks, ClosedBreakerState
      <4> QED  BY <3>1, <4>1, <4>2, <4>3, ClosedType
    <3> QED  BY <3>2, <3>3
  <2>4. \A c \in Customers :
          breaker_states'[w][c] = IF c = Cu(w) THEN b ELSE breaker_states[w][c]
    BY <1>2, <2>1, <2>3
  <2>5. b # NoItem
    BY <2>3, NoItemAssumption
  <2>6. \A c \in Customers : EntryFollows(w, c)'
    BY <1>1, <2>1, <2>2, <2>3, <2>4, <2>5 DEF EntryFollows
  <2>7. /\ breaker'[w] = AfterGate(b, 0)
        /\ policy'[w] = IF ShouldAllow(b, 0) THEN "Allowed" ELSE "Blocked"
    BY <1>2, <2>3
  <2>8. IF policy'[w] = "Blocked" THEN Tracks(breaker'[w], streak[Cu(w)])
                                  ELSE Passed(breaker'[w], streak[Cu(w)])
    <3>1. streak[Cu(w)] \in Nat
      BY <1>2, <2>1
    <3> QED  BY <2>3, <2>7, <3>1, GateFollows
  <2>9. CopyFollows(w)'
    BY <2>1, <2>4, <2>5, <2>8 DEF CopyFollows
  <2> QED  BY <2>6, <2>9
<1>7. CASE PutBreaker(w)
  <2>1. /\ Cu(w) \in Customers /\ Cu(w)' = Cu(w)
        /\ pc[w] \in {"put_gate", "put_outcome"}
        /\ UNCHANGED <<streak, breaker>>
    BY <1>7, JobType DEF PutBreaker, TypeInv, history, Cu, Ev
  <2>2. /\ breaker_states' = [breaker_states EXCEPT ![w][Cu(w)] = NextVersion(breaker[w])]
        /\ BreakerWritten(w)
        /\ \A c \in Customers \ {Cu(w)} : breakers'[c] = breakers[c]
    <3>1. breakers \in [Customers -> HeldBreaker \cup {NoItem}]
      BY DEF TypeInv, TypeOK
    <3> QED  BY <1>1, <1>7, <3>1 DEF PutBreaker
  <2>3. /\ NextVersion(breaker[w]) \in HeldBreaker
        /\ NextVersion(breaker[w]) # NoItem
    BY <1>2, VersionAndTickType, NoItemAssumption
  <2>4. \A c \in Customers : breaker_states'[w][c] =
          IF c = Cu(w) THEN NextVersion(breaker[w]) ELSE breaker_states[w][c]
    BY <1>2, <2>1, <2>2
  <2>5. \A c \in Customers : streak[c] \in Nat
    BY <1>2
  <2>6. CASE pc[w] = "put_gate" /\ policy[w] # "Blocked"
    <3>1. pc'[w] = "deliver" /\ Passed(breaker[w], streak[Cu(w)])
      BY <1>1, <1>2, <2>2, <2>6 DEF BreakerWritten, GateWritten, GoTo, CopyFollows
    <3>2. CopyFollows(w)'
      BY <2>1, <2>3, <2>4, <3>1 DEF CopyFollows
    <3>3. ASSUME NEW c \in Customers PROVE EntryFollows(w, c)'
      <4>1. CASE c = Cu(w)
        BY <2>1, <2>3, <2>4, <3>1, <4>1 DEF EntryFollows, Asked
      <4>2. CASE c # Cu(w)
        BY <1>1, <2>1, <2>2, <2>4, <2>6, <4>2 DEF EntryFollows, Asked
      <4> QED  BY <4>1, <4>2
    <3> QED  BY <3>2, <3>3
  <2>7. CASE (pc[w] = "put_gate" /\ policy[w] = "Blocked") \/ pc[w] = "put_outcome"
    <3>1. pc'[w] = "update_event_status" /\ Tracks(breaker[w], streak[Cu(w)])
      BY <1>1, <1>2, <2>2, <2>7
      DEF BreakerWritten, GateWritten, OutcomeWritten, GoTo, CopyFollows
    <3>2. Tracks(NextVersion(breaker[w]), streak[Cu(w)])
      BY <1>2, <2>1, <2>5, <3>1, KeepFollowing
    <3>3. CopyFollows(w)'
      BY <3>1 DEF CopyFollows, HoldsBreaker
    <3>4. ASSUME NEW c \in Customers PROVE EntryFollows(w, c)'
      <4>1. CASE c = Cu(w)
        BY <2>1, <2>3, <2>4, <3>2, <4>1 DEF EntryFollows
      <4>2. CASE c # Cu(w)
        BY <1>1, <2>1, <2>2, <2>4, <4>2 DEF EntryFollows
      <4> QED  BY <4>1, <4>2
    <3> QED  BY <3>3, <3>4
  <2> QED  BY <2>1, <2>6, <2>7
<1>9. CASE Deliver(w)
  <2>1. /\ Cu(w) \in Customers /\ Cu(w)' = Cu(w)
        /\ pc[w] = "deliver" /\ pc'[w] = "record_attempt"
        /\ UNCHANGED <<breakers, breaker_states, breaker>>
    BY <1>2, <1>9, JobType DEF Deliver, GoTo, TypeInv, tables, Cu, Ev
  <2>2. PICK class \in HttpClass \cup TransportClass :
          /\ policy' = [policy EXCEPT ![w] = PolicyForClass(class)]
          /\ streak' = [streak EXCEPT ![Cu(w)] = IF class = "None" THEN 0 ELSE @ + 1]
    BY <1>9 DEF Deliver
  <2>3. PolicyForClass(class) = "Succeed" <=> class = "None"
    BY DEF PolicyForClass, Retryable
  <2>4. /\ streak[Cu(w)] \in Nat
        /\ streak'[Cu(w)] = IF policy'[w] = "Succeed" THEN 0 ELSE streak[Cu(w)] + 1
        /\ \A c \in Customers \ {Cu(w)} : streak'[c] = streak[c]
    BY <1>2, <2>1, <2>2, <2>3
  <2>5. /\ Passed(breaker[w], streak[Cu(w)])
        /\ breaker_states[w][Cu(w)] # NoItem
    BY <1>1, <2>1 DEF CopyFollows, HoldsBreaker
  <2>6. CopyFollows(w)'
    BY <2>1, <2>4, <2>5 DEF CopyFollows
  <2>7. ASSUME NEW c \in Customers PROVE EntryFollows(w, c)'
    <3>1. CASE c = Cu(w)
      BY <2>1, <2>5, <3>1 DEF EntryFollows, Asked
    <3>2. CASE c # Cu(w)
      BY <1>1, <2>1, <2>4, <3>2 DEF EntryFollows
    <3> QED  BY <3>1, <3>2
  <2> QED  BY <2>6, <2>7
<1>10. CASE RecordAttempt(w)
  <2>1. /\ pc[w] = "record_attempt" /\ pc'[w] = "increment_attempt_count"
        /\ UNCHANGED <<breakers, breaker_states, breaker, policy, streak, job>>
    BY <1>1, <1>2, <1>10 DEF RecordAttempt, GoTo, local, history
  <2>2. Cu(w)' = Cu(w)
    BY <2>1 DEF Cu, Ev
  <2>3. CopyFollows(w)'
    BY <1>1, <2>1, <2>2 DEF CopyFollows, HoldsBreaker
  <2>4. ASSUME NEW c \in Customers PROVE EntryFollows(w, c)'
    BY <1>1, <2>1, <2>2 DEF EntryFollows, Asked
  <2> QED  BY <2>3, <2>4
<1>11. CASE IncrementAttemptCount(w)
  <2>1. /\ pc[w] = "increment_attempt_count" /\ pc'[w] = "put_outcome"
        /\ UNCHANGED <<breakers, breaker_states, policy, streak, job>>
        /\ breaker' = [breaker EXCEPT ![w] =
             IF policy[w] = "Succeed" THEN OnSuccess(@) ELSE OnFailure(@, 0)]
    BY <1>1, <1>2, <1>11 DEF IncrementAttemptCount, GoTo, history
  <2>2. Cu(w)' = Cu(w) /\ breaker_states[w][Cu(w)] # NoItem
    BY <1>1, <2>1 DEF Cu, Ev, CopyFollows, HoldsBreaker
  <2>3. PICK s \in Nat : /\ Passed(breaker[w], s)
                         /\ streak[Cu(w)] = IF policy[w] = "Succeed" THEN 0 ELSE s + 1
    BY <1>1, <2>1 DEF CopyFollows
  <2>4. Tracks(breaker'[w], streak[Cu(w)])
    <3>1. Tracks(OnSuccess(breaker[w]), 0) /\ Tracks(OnFailure(breaker[w], 0), s + 1)
      BY <1>2, <2>3, OutcomeFollows
    <3> QED  BY <1>2, <2>1, <2>3, <3>1
  <2>5. CopyFollows(w)'
    BY <2>1, <2>2, <2>4 DEF CopyFollows
  <2>6. ASSUME NEW c \in Customers PROVE EntryFollows(w, c)'
    BY <1>1, <2>1, <2>2 DEF EntryFollows, Asked
  <2> QED  BY <2>5, <2>6
<1>12. CASE Tick
  <2>1. /\ \A c \in Customers : breakers'[c] = OneTickOn(breakers[c])
        /\ breaker'[w] = OneTickOn(breaker[w])
        /\ \A c \in Customers : breaker_states'[w][c] = OneTickOn(breaker_states[w][c])
        /\ UNCHANGED <<pc, job, policy, streak>>
    BY <1>12 DEF Tick, history
  <2>2. Cu(w)' = Cu(w) /\ (pc[w] \in HoldsBreaker => Cu(w) \in Customers)
    BY <2>1, JobType DEF Cu, Ev, HoldsBreaker, TypeInv
  <2>3. \A c \in Customers :
          /\ OneTickOn(breakers[c]) = NoItem <=> breakers[c] = NoItem
          /\ OneTickOn(breaker_states[w][c]) = NoItem <=> breaker_states[w][c] = NoItem
    BY BreakerTypes, TickState
  <2>4. \A s \in Nat : /\ Tracks(breaker[w], s) => Tracks(breaker'[w], s)
                       /\ Passed(breaker[w], s) => Passed(breaker'[w], s)
    BY <1>2, <2>1, KeepFollowing
  <2>5. \A c \in Customers :
          breaker_states[w][c] # NoItem /\ Tracks(breaker_states[w][c], streak[c]) =>
            Tracks(breaker_states'[w][c], streak[c])
    BY <1>2, <2>1, KeepFollowing
  <2>6. CopyFollows(w)'
    <3>1. pc[w] \in HoldsBreaker => streak[Cu(w)] \in Nat
      BY <1>2, <2>2
    <3> QED  BY <1>1, <2>1, <2>2, <2>3, <2>4, <3>1 DEF CopyFollows, HoldsBreaker
  <2>7. ASSUME NEW c \in Customers PROVE EntryFollows(w, c)'
    BY <1>1, <2>1, <2>2, <2>3, <2>5 DEF EntryFollows
  <2> QED  BY <2>6, <2>7
<1>13. CASE \/ \E m \in Messages : Enqueue(m) \/ Redrive(m) \/ RemoveFromDlq(m)
            \/ \E e \in Events : Replicate(e) \/ StoreEvent(e)
            \/ \E c \in Customers : PutConfig(c)
            \/ UNCHANGED vars
  <2>1. UNCHANGED <<pc, job, breakers, breaker_states, breaker, policy, streak>>
    BY <1>13 DEF Enqueue, Redrive, RemoveFromDlq, Replicate, StoreEvent, PutConfig,
                 vars, tables, processes, local, history
  <2>2. Cu(w)' = Cu(w)
    BY <2>1 DEF Cu, Ev
  <2>3. CopyFollows(w)'
    BY <1>1, <2>1, <2>2 DEF CopyFollows
  <2>4. ASSUME NEW c \in Customers PROVE EntryFollows(w, c)'
    BY <1>1, <2>1, <2>2 DEF EntryFollows
  <2> QED  BY <2>3, <2>4
<1> QED
  BY <1>1, <1>3, <1>4, <1>5, <1>6, <1>7, <1>9, <1>10, <1>11, <1>12, <1>13
  DEF Next, Serve, Supply, Work

LEMMA BreakerInvariant ==
    ASSUME OneWorker, FailureThreshold > 0
    PROVE  Spec => []BreakerInv
<1>1. Init => BreakerInv
  BY DEF Init, BreakerInv, CopyFollows, EntryFollows, HoldsBreaker
<1>2. TypeInv /\ TypeInv' /\ BreakerInv /\ [Next]_vars => BreakerInv'
  BY BreakerNext
<1> QED  BY <1>1, <1>2, TypeInvariant, PTL DEF Spec

(* The breaker state of a worker alone agrees, between two messages, with   *)
(* what the endpoint did, until a call fails or the process dies: though    *)
(* its second put is always refused (breaker.rs, main.rs 193-297 and        *)
(* 416-458).                                                                *)
THEOREM BreakerTracksEndpointHolds ==
    ASSUME OneWorker, FailureThreshold > 0
    PROVE  Spec => [](faults = 0 /\ crashes = 0 => BreakerTracksEndpoint)
<1>1. BreakerInv => (faults = 0 /\ crashes = 0 => BreakerTracksEndpoint)
  BY DEF BreakerInv, BreakerTracksEndpoint, EntryFollows, Tracks, Asked
<1> QED  BY <1>1, BreakerInvariant, PTL

(* Under the same conditions no probe is left behind: the outcome of the    *)
(* request a half-open breaker let through closes or opens it again.        *)
THEOREM NoProbeLeftBehindHolds ==
    ASSUME OneWorker, FailureThreshold > 0
    PROVE  Spec => [](faults = 0 /\ crashes = 0 => NoProbeLeftBehind)
<1>1. BreakerInv => (faults = 0 /\ crashes = 0 => NoProbeLeftBehind)
  BY DEF BreakerInv, NoProbeLeftBehind, EntryFollows, Tracks, Asked
<1> QED  BY <1>1, BreakerInvariant, PTL

LEMMA NoCallFails ==
    ASSUME MaxFaults = 0, MaxCrashes = 0
    PROVE  Spec => [](faults = 0 /\ crashes = 0)
<1>1. Init => faults = 0 /\ crashes = 0
  BY DEF Init
<1>2. faults = 0 /\ crashes = 0 /\ [Next]_vars => (faults = 0 /\ crashes = 0)'
  BY CallsCounted DEF Fault
<1> QED  BY <1>1, <1>2, PTL DEF Spec

(* Where no call fails and no process dies, an event is given up after a    *)
(* retryable answer only when the endpoint failed as often in a row as one  *)
(* of the two limits says (retry.rs 58-91).                                 *)
THEOREM GivesUpOnlyAfterFailuresHolds ==
    ASSUME OneWorker, FailureThreshold > 0,
           MaxFaults = 0, MaxCrashes = 0
    PROVE  Spec => GivesUpOnlyAfterFailures
<1> DEFINE Enough ==
      \A w \in Workers :
         /\ pc[w] = "put_outcome"
         /\ pc'[w] = "update_event_status"
         /\ policy[w] = "Retry" /\ event'[w].status = "failed"
         => streak[Cu(w)] >= Smaller(RetryAttempts, FailureThreshold)
<1>1. ASSUME TypeInv, CopyPending, BreakerInv, faults = 0 /\ crashes = 0, [Next]_vars
      PROVE  Enough
  <2> SUFFICES ASSUME NEW w \in Workers,
                      pc[w] = "put_outcome",
                      pc'[w] = "update_event_status",
                      policy[w] = "Retry", event'[w].status = "failed"
               PROVE  streak[Cu(w)] >= Smaller(RetryAttempts, FailureThreshold)
    OBVIOUS
  <2>1. pc[w] = "put_outcome" /\ Tracks(breaker[w], streak[Cu(w)])
    BY <1>1 DEF BreakerInv, CopyFollows
  <2>2. /\ pc \in [Workers -> Steps] /\ event \in [Workers -> Event]
        /\ event[w].status = "pending" /\ Cu(w) \in Customers /\ streak[Cu(w)] \in Nat
    BY <1>1, <2>1, JobType
    DEF TypeInv, TypeOK, CopyPending, Deciding, Undecided, AtItem, Steps
  <2>3. PutBreaker(w)
    <3>1. \A v \in Workers : v = w
      BY DEF OneWorker
    <3>2. pc'[w] # pc[w]
      BY <2>1
    <3>3. Work(w) \/ pc'[w] = "idle" \/ pc'[w] = pc[w]
      BY <1>1, <2>2, <3>1
      DEF Next, Serve, Supply, Receive, Crash, Done, GoTo, Redrive, Replicate, PutConfig,
          Tick, StoreEvent, Enqueue, RemoveFromDlq, vars, processes
    <3>4. Work(w)
      BY <3>2, <3>3
    <3> QED
      BY <2>1, <3>4
      DEF Work, Process, GetEvent, GetConfig, GetBreaker, Deliver,
          RecordAttempt, IncrementAttemptCount, UpdateEventStatus, DeleteMessage,
          ChangeVisibility
  <2>4. ~ShouldRetry(breaker[w])
    <3>1. OutcomeWritten(w)
      BY <2>1, <2>2, <2>3 DEF PutBreaker, BreakerWritten, GoTo
    <3>2. MarkRetryScheduled(event[w]).status = "pending"
      BY <2>2 DEF MarkRetryScheduled, Event
    <3> QED  BY <2>2, <3>1, <3>2 DEF OutcomeWritten
  <2>5. FailureThreshold \in Nat /\ RetryAttempts \in Nat
    BY ResilienceConfig
  <2> QED  BY <2>1, <2>2, <2>4, <2>5 DEF ShouldRetry, Tracks, Smaller
<1>2. TypeInv /\ CopyPending /\ BreakerInv /\ (faults = 0 /\ crashes = 0) /\ [Next]_vars
        => [Enough]_vars
  BY <1>1
<1> QED
  BY <1>2, TypeInvariant, CopyPendingInvariant, BreakerInvariant, NoCallFails, PTL
  DEF Spec, GivesUpOnlyAfterFailures
=============================================================================
