------------------------- MODULE ConfigStore_proofs -------------------------
(* What holds of the configuration API for every number of posts and every  *)
(* bound: created_at is kept, and a rotation takes effect.                  *)
EXTENDS ConfigStore, TLAPS

LEMMA NewIsConfig ==
    ASSUME TypeOK, NEW p \in Posts
    PROVE  /\ [by |-> p, created_at |-> created_at[p]] \in Config
           /\ [by |-> p, created_at |-> created_at[p]] # NoConfig
  BY ConfigAssumption DEF TypeOK, Config

(* Every variable of the configuration API keeps to its type.               *)
THEOREM ConfigTypeInvariant == Spec => []TypeOK
<1>1. Init => TypeOK
  <2> SUFFICES ASSUME Init PROVE TypeOK
    OBVIOUS
  <2>1. reply \in Reply
    BY DEF Init, Reply
  <2>2. before \in [Posts -> SUBSET Posts]
    BY DEF Init
  <2> QED  BY <2>1, <2>2 DEF Init, TypeOK
<1>2. TypeOK /\ [Next]_vars => TypeOK'
  <2> SUFFICES ASSUME TypeOK, [Next]_vars PROVE TypeOK'
    OBVIOUS
  <2>1. ASSUME NEW p \in Posts, Start(p) PROVE TypeOK'
    BY <2>1 DEF Start, TypeOK
  <2>2. ASSUME NEW p \in Posts, FetchConfig(p) PROVE TypeOK'
    <3>1. PICK existing \in versions :
            /\ UNCHANGED faults \/ (Fault /\ existing = NoConfig)
            /\ created_at' = [created_at EXCEPT ![p] = CreatedAt(p, existing)]
            /\ misread' = (misread \/ (existing = NoConfig /\ config # NoConfig))
      BY <2>2 DEF FetchConfig
    <3>2. CreatedAt(p, existing) \in Nat
      BY <3>1 DEF CreatedAt, TypeOK, Config
    <3>3. created_at' \in [Posts -> Nat] /\ faults' \in Nat
      BY <3>1, <3>2 DEF TypeOK, Fault
    <3>4. misread' \in BOOLEAN
      BY <3>1
    <3> QED  BY <2>2, <3>3, <3>4 DEF FetchConfig, TypeOK
  <2>3. ASSUME NEW p \in Posts, PutConfig(p) PROVE TypeOK'
    <3> DEFINE new == [by |-> p, created_at |-> created_at[p]]
    <3>1. \/ config' = new /\ versions' = versions \cup {new}
          \/ UNCHANGED <<config, versions>>
      BY <2>3 DEF PutConfig, PutAllowed
    <3>2. config' \in Config \cup {NoConfig} /\ versions' \subseteq Config \cup {NoConfig}
      BY <3>1, NewIsConfig DEF TypeOK
    <3>3. PICK code \in {201, 500} : Respond(p, code)
      BY <2>3 DEF PutConfig
    <3>4. /\ pc' \in [Posts -> {"new", "fetch_config", "put_config", "done"}]
          /\ answer' \in [Posts -> {0, 201, 500}] /\ confirmed' \subseteq Nat
      BY <3>3 DEF Respond, TypeOK
    <3>5. faults' \in Nat
      BY <2>3 DEF PutConfig, Fault, TypeOK
    <3> QED  BY <2>3, <3>2, <3>4, <3>5 DEF PutConfig, TypeOK
  <2>4. CASE GetConfig
    <3>1. ASSUME NEW v \in versions,
                 reply' = [code |-> IF v = NoConfig THEN 404 ELSE 200, config |-> v]
          PROVE  reply' \in Reply
      <4>1. v \in Config \cup {NoConfig}
        BY DEF TypeOK
      <4> QED  BY <3>1, <4>1 DEF Reply
    <3>2. reply' \in Reply
      BY <2>4, <3>1 DEF GetConfig, Reply
    <3>3. faults' \in Nat
      BY <2>4 DEF GetConfig, Fault, TypeOK
    <3>4. UNCHANGED <<config, versions, clock, posts>>
      BY <2>4 DEF GetConfig
    <3> QED  BY <3>2, <3>3, <3>4 DEF posts, TypeOK
  <2>5. CASE Tick
    <3>1. clock' \in Nat /\ UNCHANGED <<config, versions, posts, reply, faults>>
      BY <2>5 DEF Tick, TypeOK
    <3> QED  BY <3>1 DEF posts, TypeOK
  <2>6. CASE UNCHANGED vars
    BY <2>6 DEF vars, posts, TypeOK
  <2> QED  BY <2>1, <2>2, <2>3, <2>4, <2>5, <2>6 DEF Next
<1> QED  BY <1>1, <1>2, PTL DEF Spec

-----------------------------------------------------------------------------
(* created_at.  Nothing lies in the future; there is a configuration once a *)
(* post was confirmed; and what is stored, was stored or is about to be     *)
(* stored is no younger than the first confirmation.                        *)

NothingAhead ==
    /\ \A v \in versions : v # NoConfig => v.created_at <= clock
    /\ \A p \in Posts : now[p] <= clock /\ created_at[p] <= clock
    /\ \A t \in confirmed : t <= clock

NeverAbsentAgain ==
    /\ config = NoConfig => versions = {NoConfig} /\ confirmed = {}
    /\ config \in versions
    /\ reply.config \in versions \cup {NoConfig}

AboutToKeep(p) ==
    pc[p] = "put_config" => \A t \in confirmed : created_at[p] <= t

KeptInv ==
    ~misread => /\ \A v \in versions : ShownCreatedAtKept(v)
                /\ \A p \in Posts : AboutToKeep(p)

CreatedAtInv == NothingAhead /\ NeverAbsentAgain /\ KeptInv

LEMMA CreatedAtInit == Init => CreatedAtInv
  BY DEF Init, CreatedAtInv, NothingAhead, NeverAbsentAgain, KeptInv,
         ShownCreatedAtKept, AboutToKeep

LEMMA FetchKeeps ==
    ASSUME TypeOK, CreatedAtInv, NEW p \in Posts, FetchConfig(p)
    PROVE  CreatedAtInv'
<1>1. PICK existing \in versions :
        /\ created_at' = [created_at EXCEPT ![p] = CreatedAt(p, existing)]
        /\ misread' = (misread \/ (existing = NoConfig /\ config # NoConfig))
  BY DEF FetchConfig
<1>2. /\ pc' = [pc EXCEPT ![p] = "put_config"]
      /\ UNCHANGED <<config, versions, clock, now, reply, confirmed>>
  BY DEF FetchConfig
<1>3. created_at'[p] = CreatedAt(p, existing)
      /\ \A q \in Posts : q # p => created_at'[q] = created_at[q] /\ pc'[q] = pc[q]
  BY <1>1, <1>2 DEF TypeOK
<1>4. CreatedAt(p, existing) <= clock
  BY DEF CreatedAt, CreatedAtInv, NothingAhead
<1>5. NothingAhead'
  BY <1>2, <1>3, <1>4 DEF CreatedAtInv, NothingAhead
<1>6. NeverAbsentAgain'
  BY <1>2 DEF CreatedAtInv, NeverAbsentAgain
<1>7. ASSUME ~misread' PROVE \A t \in confirmed : CreatedAt(p, existing) <= t
  <2>1. ~misread /\ (existing = NoConfig => config = NoConfig)
    BY <1>1, <1>7
  <2>2. CASE existing = NoConfig
    BY <2>1, <2>2 DEF CreatedAtInv, NeverAbsentAgain
  <2>3. CASE existing # NoConfig
    BY <2>1, <2>3 DEF CreatedAt, CreatedAtInv, KeptInv, ShownCreatedAtKept
  <2> QED  BY <2>2, <2>3
<1>8. KeptInv'
  BY <1>1, <1>2, <1>3, <1>7
  DEF CreatedAtInv, KeptInv, ShownCreatedAtKept, AboutToKeep
<1> QED  BY <1>5, <1>6, <1>8 DEF CreatedAtInv

LEMMA PutKeeps ==
    ASSUME TypeOK, CreatedAtInv, NEW p \in Posts, PutConfig(p)
    PROVE  CreatedAtInv'
<1> DEFINE new == [by |-> p, created_at |-> created_at[p]]
<1>1. \/ config' = new /\ versions' = versions \cup {new}
      \/ UNCHANGED <<config, versions>>
  BY DEF PutConfig, PutAllowed
<1>2. /\ pc[p] = "put_config" /\ pc' = [pc EXCEPT ![p] = "done"]
      /\ UNCHANGED <<clock, now, created_at, reply, misread>>
  BY DEF PutConfig, Respond
<1>3. \/ confirmed' = confirmed
      \/ confirmed' = confirmed \cup {clock} /\ config' = new
  BY DEF PutConfig, Respond, PutAllowed
<1>4. new # NoConfig /\ new.created_at = created_at[p]
  BY NewIsConfig
<1> HIDE DEF new
<1>5. NothingAhead'
  <2>1. clock <= clock
    BY DEF TypeOK
  <2> QED  BY <1>1, <1>2, <1>3, <1>4, <2>1 DEF CreatedAtInv, NothingAhead
<1>6. NeverAbsentAgain'
  BY <1>1, <1>2, <1>3, <1>4 DEF CreatedAtInv, NeverAbsentAgain
<1>7. ASSUME ~misread' PROVE \A v \in versions' : ShownCreatedAtKept(v)'
  <2> SUFFICES ASSUME NEW v \in versions', v # NoConfig, NEW t \in confirmed'
               PROVE  v.created_at <= t
    BY DEF ShownCreatedAtKept
  <2>1. v.created_at <= clock
    BY <1>1, <1>4 DEF CreatedAtInv, NothingAhead
  <2>2. ASSUME t \in confirmed PROVE v.created_at <= t
    BY <1>1, <1>2, <1>4, <1>7, <2>2
    DEF CreatedAtInv, KeptInv, ShownCreatedAtKept, AboutToKeep
  <2> QED  BY <1>3, <2>1, <2>2
<1>8. ASSUME ~misread', NEW q \in Posts PROVE AboutToKeep(q)'
  <2>1. q # p => pc'[q] = pc[q]
    BY <1>2 DEF TypeOK
  <2>2. pc'[p] = "done"
    BY <1>2 DEF TypeOK
  <2> QED
    BY <1>2, <1>3, <1>8, <2>1, <2>2
    DEF CreatedAtInv, NothingAhead, KeptInv, AboutToKeep
<1>9. KeptInv'
  BY <1>7, <1>8 DEF KeptInv
<1> QED  BY <1>5, <1>6, <1>9 DEF CreatedAtInv

LEMMA CreatedAtNext == TypeOK /\ CreatedAtInv /\ [Next]_vars => CreatedAtInv'
<1> SUFFICES ASSUME TypeOK, CreatedAtInv, [Next]_vars PROVE CreatedAtInv'
  OBVIOUS
<1>1. ASSUME NEW p \in Posts, Start(p) PROVE CreatedAtInv'
  <2>1. /\ now' = [now EXCEPT ![p] = clock]
        /\ pc' = [pc EXCEPT ![p] = "fetch_config"]
        /\ UNCHANGED <<config, versions, clock, created_at, reply, confirmed, misread>>
    BY <1>1 DEF Start
  <2>2. \A q \in Posts : now'[q] <= clock /\ (pc'[q] = "put_config" => pc[q] = "put_config")
    BY <2>1 DEF TypeOK, CreatedAtInv, NothingAhead
  <2> QED
    BY <2>1, <2>2
    DEF CreatedAtInv, NothingAhead, NeverAbsentAgain, KeptInv,
        ShownCreatedAtKept, AboutToKeep
<1>2. ASSUME NEW p \in Posts, FetchConfig(p) PROVE CreatedAtInv'
  BY <1>2, FetchKeeps
<1>3. ASSUME NEW p \in Posts, PutConfig(p) PROVE CreatedAtInv'
  BY <1>3, PutKeeps
<1>4. CASE GetConfig
  <2>1. reply'.config \in versions \cup {NoConfig}
    BY <1>4 DEF GetConfig
  <2> QED
    BY <1>4, <2>1
    DEF GetConfig, posts, CreatedAtInv, NothingAhead, NeverAbsentAgain,
        KeptInv, ShownCreatedAtKept, AboutToKeep
<1>5. CASE Tick
  <2>1. clock' = clock + 1 /\ UNCHANGED <<config, versions, posts, reply, faults>>
    BY <1>5 DEF Tick
  <2>2. NothingAhead'
    BY <2>1 DEF CreatedAtInv, NothingAhead, posts, TypeOK, Config
  <2>3. NeverAbsentAgain' /\ KeptInv'
    BY <2>1 DEF posts, CreatedAtInv, NeverAbsentAgain, KeptInv,
                ShownCreatedAtKept, AboutToKeep
  <2> QED  BY <2>2, <2>3 DEF CreatedAtInv
<1>6. CASE UNCHANGED vars
  BY <1>6
  DEF vars, posts, CreatedAtInv, NothingAhead, NeverAbsentAgain, KeptInv,
      ShownCreatedAtKept, AboutToKeep
<1> QED  BY <1>1, <1>2, <1>3, <1>4, <1>5, <1>6 DEF Next

(* However many posts race and whichever writes fail, the stored and the    *)
(* shown created_at are no later than the first 201, unless a post failed   *)
(* to read the item it replaced (config.rs 69-85).                          *)
THEOREM CreatedAtIsKept == Spec => []CreatedAtKept
<1>1. CreatedAtInv => CreatedAtKept
  BY DEF CreatedAtInv, NeverAbsentAgain, KeptInv, CreatedAtKept, ShownCreatedAtKept
<1> QED  BY <1>1, CreatedAtInit, CreatedAtNext, ConfigTypeInvariant, PTL DEF Spec

-----------------------------------------------------------------------------
(* Rotation.  A post that is still to put its item was not over when        *)
(* another came in.                                                         *)

RotationInv ==
    /\ RotationTakesEffect
    /\ \A p \in Posts : answer[p] = 201 => pc[p] = "done"
    /\ \A p \in Posts : \A q \in before[p] : pc[q] = "done"

LEMMA RotationInit == Init => RotationInv
  BY DEF Init, RotationInv, RotationTakesEffect

LEMMA RotationNext == TypeOK /\ RotationInv /\ [Next]_vars => RotationInv'
<1> SUFFICES ASSUME TypeOK, RotationInv, [Next]_vars PROVE RotationInv'
  OBVIOUS
<1>1. ASSUME NEW p \in Posts, Start(p) PROVE RotationInv'
  <2>1. /\ pc[p] = "new" /\ pc' = [pc EXCEPT ![p] = "fetch_config"]
        /\ before' = [before EXCEPT ![p] = {q \in Posts : pc[q] = "done"}]
        /\ UNCHANGED <<config, answer>>
    BY <1>1 DEF Start
  <2> QED  BY <2>1 DEF RotationInv, RotationTakesEffect, TypeOK
<1>2. ASSUME NEW p \in Posts, FetchConfig(p) PROVE RotationInv'
  <2>1. /\ pc[p] = "fetch_config" /\ pc' = [pc EXCEPT ![p] = "put_config"]
        /\ UNCHANGED <<config, answer, before>>
    BY <1>2 DEF FetchConfig
  <2> QED  BY <2>1 DEF RotationInv, RotationTakesEffect, TypeOK
<1>3. ASSUME NEW p \in Posts, PutConfig(p) PROVE RotationInv'
  <2> DEFINE new == [by |-> p, created_at |-> created_at[p]]
  <2>1. /\ pc[p] = "put_config" /\ pc' = [pc EXCEPT ![p] = "done"]
        /\ UNCHANGED before
    BY <1>3 DEF PutConfig, Respond
  <2>2. \/ config' = new /\ answer' = [answer EXCEPT ![p] = 201]
        \/ config' \in {new, config} /\ answer' = [answer EXCEPT ![p] = 500]
    BY <1>3 DEF PutConfig, Respond, PutAllowed
  <2>3. new # NoConfig /\ new.by = p
    BY NewIsConfig
  <2>4. \A q \in Posts : p \notin before[q]
    BY <2>1 DEF RotationInv
  <2> HIDE DEF new
  <2>5. RotationTakesEffect'
    BY <2>1, <2>2, <2>3, <2>4 DEF RotationInv, RotationTakesEffect, TypeOK
  <2>6. \A q \in Posts : answer'[q] = 201 => pc'[q] = "done"
    BY <2>1, <2>2 DEF RotationInv, TypeOK
  <2>7. \A q \in Posts : \A r \in before'[q] : pc'[r] = "done"
    BY <2>1 DEF RotationInv, TypeOK
  <2> QED  BY <2>5, <2>6, <2>7 DEF RotationInv
<1>4. CASE GetConfig \/ Tick \/ UNCHANGED vars
  BY <1>4 DEF GetConfig, Tick, vars, posts, RotationInv, RotationTakesEffect
<1> QED  BY <1>1, <1>2, <1>3, <1>4 DEF Next

(* Once a post was answered with 201, no configuration posted before it     *)
(* came in is ever in force again (config.rs 49-51).                        *)
THEOREM RotationHolds == Spec => []RotationTakesEffect
<1>1. RotationInv => RotationTakesEffect
  BY DEF RotationInv
<1> QED  BY <1>1, RotationInit, RotationNext, ConfigTypeInvariant, PTL DEF Spec
=============================================================================
