----------------------------- MODULE ConfigStore -----------------------------
(***************************************************************************)
(* The configuration API (ingestion/src/handlers/config.rs): concurrent     *)
(* posts and gets of one customer's delivery configuration.  A post reads   *)
(* the item to keep its created_at and then puts a whole item over it,      *)
(* without a condition.  Reads are eventually consistent: they may return   *)
(* any version the item has had.                                            *)
(*                                                                         *)
(* An action is one call to DynamoDB with what follows.  A post that ends   *)
(* half-way is one that takes no further step.  The url and the secret,     *)
(* given or generated, stand for themselves in the number of the post that  *)
(* brought them; active and max_retries are the same in every item.         *)
(***************************************************************************)
EXTENDS Integers

CONSTANTS
    Posts,      \* runs of create_config
    NoConfig,   \* what reading an absent item returns
    MaxTime,    \* bound: seconds that pass
    MaxFaults   \* bound: calls that return an error

Config == [by : Posts, created_at : Nat]

ASSUME ConfigAssumption ==
    /\ MaxTime \in Nat /\ MaxFaults \in Nat
    /\ NoConfig \notin Config

VARIABLES
    config,     \* the item in the webhook_configs table
    versions,   \* every version it has had
    clock,      \* unix_now_secs
    pc, now, created_at, \* each post: its next call and its variables
    answer,     \* each post: the status code the client got
    reply,      \* the last answer to a get
    faults,     \* bound
    (* history, read by properties only *)
    before,     \* each post: the posts answered when it came in
    confirmed,  \* the times at which a post was answered with 201
    misread     \* whether a post failed to read an item that was there

posts == <<pc, now, created_at, answer, before, confirmed, misread>>
vars  == <<config, versions, clock, posts, reply, faults>>

Reply == [code : {0, 200, 404, 500}, config : Config \cup {NoConfig}]

Init ==
    /\ config = NoConfig /\ versions = {NoConfig}
    /\ clock = 0
    /\ pc = [p \in Posts |-> "new"]
    /\ now = [p \in Posts |-> 0]
    /\ created_at = [p \in Posts |-> 0]
    /\ answer = [p \in Posts |-> 0]
    /\ reply = [code |-> 0, config |-> NoConfig]
    /\ faults = 0
    /\ before = [p \in Posts |-> {}]
    /\ confirmed = {} /\ misread = FALSE

-----------------------------------------------------------------------------
(* A call of this step returns an error.                                    *)
Fault == faults < MaxFaults /\ faults' = faults + 1

Start(p) ==
    /\ pc[p] = "new"
    /\ pc' = [pc EXCEPT ![p] = "fetch_config"]
    /\ now' = [now EXCEPT ![p] = clock]
    /\ before' = [before EXCEPT ![p] = {q \in Posts : pc[q] = "done"}]
    /\ UNCHANGED <<config, versions, clock, created_at, answer, confirmed,
                   misread, reply, faults>>

(* The created_at of the new item, after two wrong variants: one that an     *)
(* update does not keep, and one that only an update sets.                  *)
CreatedAtIsNow(p, existing) == now[p]
CreatedAtIfKept(p, existing) ==
    IF existing = NoConfig THEN NoConfig ELSE existing.created_at

CreatedAt(p, existing) ==
    IF existing = NoConfig THEN now[p] ELSE existing.created_at

(* A read that fails counts as one that found nothing.                      *)
FetchConfig(p) ==
    /\ pc[p] = "fetch_config"
    /\ \E existing \in versions :
         /\ UNCHANGED faults \/ (Fault /\ existing = NoConfig)
         /\ created_at' = [created_at EXCEPT ![p] = CreatedAt(p, existing)]
         /\ misread' = (misread \/ (existing = NoConfig /\ config # NoConfig))
    /\ pc' = [pc EXCEPT ![p] = "put_config"]
    /\ UNCHANGED <<config, versions, clock, now, answer, reply, before, confirmed>>

(* The put has no condition; the idempotency table's has this one.          *)
PutIfAbsent == config = NoConfig
PutAllowed  == TRUE

Respond(p, code) ==
    /\ pc' = [pc EXCEPT ![p] = "done"]
    /\ answer' = [answer EXCEPT ![p] = code]
    /\ confirmed' = IF code = 201 THEN confirmed \cup {clock} ELSE confirmed

PutConfig(p) ==
    LET new   == [by |-> p, created_at |-> created_at[p]]
        Store == IF PutAllowed
                 THEN config' = new /\ versions' = versions \cup {new}
                 ELSE UNCHANGED <<config, versions>>
    IN /\ pc[p] = "put_config"
       /\ \/ Store /\ Respond(p, 201) /\ UNCHANGED faults
          \/ /\ Fault /\ Respond(p, 500)
             /\ Store \/ UNCHANGED <<config, versions>>
       /\ UNCHANGED <<clock, now, created_at, reply, before, misread>>

GetConfig ==
    /\ \/ /\ \E v \in versions :
               reply' = [code |-> IF v = NoConfig THEN 404 ELSE 200, config |-> v]
          /\ UNCHANGED faults
       \/ Fault /\ reply' = [code |-> 500, config |-> NoConfig]
    /\ UNCHANGED <<config, versions, clock, posts>>

Tick ==
    /\ clock < MaxTime /\ clock' = clock + 1
    /\ UNCHANGED <<config, versions, posts, reply, faults>>

Next ==
    \/ \E p \in Posts : Start(p) \/ FetchConfig(p) \/ PutConfig(p)
    \/ GetConfig \/ Tick

Spec == Init /\ [][Next]_vars

-----------------------------------------------------------------------------
(* Properties *)

(* Every variable holds what the code's types allow.                        *)
TypeOK ==
    /\ config \in Config \cup {NoConfig}
    /\ versions \subseteq Config \cup {NoConfig}
    /\ clock \in Nat
    /\ pc \in [Posts -> {"new", "fetch_config", "put_config", "done"}]
    /\ now \in [Posts -> Nat] /\ created_at \in [Posts -> Nat]
    /\ answer \in [Posts -> {0, 201, 500}]
    /\ reply \in Reply
    /\ faults \in Nat
    /\ before \in [Posts -> SUBSET Posts]
    /\ confirmed \subseteq Nat /\ misread \in BOOLEAN

(* Unless a post failed to read the item that was there, created_at never   *)
(* moves past the moment the customer was first told that the configuration *)
(* exists, whatever posts race and whichever writes fail, and no get shows  *)
(* a later one (config.rs 69-85).                                           *)
ShownCreatedAtKept(c) == c # NoConfig => \A t \in confirmed : c.created_at <= t

CreatedAtKept ==
    ~misread => ShownCreatedAtKept(config) /\ ShownCreatedAtKept(reply.config)

(* A rotation takes effect: once a post was answered with 201, the          *)
(* configuration is never again one of those posted, successfully or not,   *)
(* before it came in, nor is there none (config.rs 49-51, configs.rs        *)
(* 26-27).                                                                  *)
RotationTakesEffect ==
    \A p \in Posts : answer[p] = 201 => config # NoConfig /\ config.by \notin before[p]
=============================================================================
