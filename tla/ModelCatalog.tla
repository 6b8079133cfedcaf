---------------------------- MODULE ModelCatalog ----------------------------
(***************************************************************************)
(* The list of models while --ui-management lets clients change it         *)
(* (ServerState, app/server/runtime.cpp): /v1/models/load registers,       *)
(* reconfigures and loads an entry, /v1/models/unload unloads one, and     *)
(* both run beside inference, /v1/models and /v1/audio/voices.  The module *)
(* is about the locks these handlers nest:                                 *)
(*   - the guard of an entry, held over a run or a reconfiguration,        *)
(*   - metadata_mutex of an entry, exclusive over a reconfiguration and    *)
(*     the load that ends it, shared for as long as a reader reads,        *)
(*   - model_load_mutex_ over "evict, check memory, load",                 *)
(*   - models_mutex_, which the two listings hold while they wait for      *)
(*     metadata_mutex.                                                     *)
(* The eviction is one step here, and its order is left open; its steps,   *)
(* the order and the clock are in ModelResidency.tla.                      *)
(***************************************************************************)
EXTENDS Integers, FiniteSets, Sequences

CONSTANTS
  Ids,              \* model ids that requests name
  Configs,          \* what a load request may ask of an id
  Rejected,         \* those that name an unknown task or break their contract
  Key,              \* config -> the fields handle_model_load compares
  InitialConfig,    \* what the configuration file's entries are configured as
  Clients,
  Nobody,
  NoConfig,         \* no entry, or no session
  Deployments       \* configuration files and flags a server may be started with

Deployment ==
  [models : Seq(Ids),            \* the configuration file's entries
   ui_management : BOOLEAN,      \* --ui-management
   max_loaded_models : Nat,      \* 0 = no limit
   memory_guard : BOOLEAN,       \* min_free_memory_mb > 0
   busy_timeout : BOOLEAN]       \* busy_timeout_ms > 0

\* A session is created from the entry's config, for the task that was derived
\* from a config: the same one, unless a reconfiguration failed half-way.
Session == [config : Configs, task : Configs]

ASSUME CatalogAssumption ==
  /\ IsFiniteSet(Ids) /\ Ids # {}
  /\ Rejected \subseteq Configs
  /\ NoConfig \notin Configs \cup Session
  /\ Nobody \notin Clients
  /\ InitialConfig \in Configs \ Rejected
  /\ Deployments \subseteq Deployment
  /\ \A s \in Deployments : \A i, j \in DOMAIN s.models :
       s.models[i] = s.models[j] => i = j

VARIABLES
  server,      \* config_: fixed for as long as the server runs
  models,      \* models_: ids in the order of registration
  config,      \* id -> config of its entry
  derived,     \* id -> config its task was derived from
  session,     \* id -> its session
  fresh,       \* client -> session of the entry it has yet to register
  busy,        \* id -> holder of the entry's guard
  metadata,    \* id -> exclusive holder of its metadata_mutex
  loadLock,    \* holder of model_load_mutex_
  modelsLock,  \* holder of models_mutex_ across a wait
  pc,
  op,          \* client -> handler it is in
  id,          \* client -> id its request names
  want,        \* client -> config its load request asks for
  todo         \* client -> entries its listing has yet to write

locks == <<busy, metadata, loadLock, modelsLock>>
entries == <<models, config, derived, session, fresh>>
request == <<op, id, want, todo>>
vars == <<entries, locks, pc, request>>

UiManagement == server.ui_management
MaxLoadedModels == server.max_loaded_models

Registered == {models[n] : n \in DOMAIN models}
Resident == {i \in Registered : session[i] # NoConfig}

\* The object a load request makes for a new id is nobody else's before it
\* is registered.
Unregistered(c) == op[c] = "load_new"
SessionOf(c) == IF Unregistered(c) THEN fresh[c] ELSE session[id[c]]

Goto(c, label) == pc' = [pc EXCEPT ![c] = label]

Init ==
  /\ server \in Deployments
  /\ models = server.models
  /\ config = [i \in Ids |-> IF i \in Registered THEN InitialConfig ELSE NoConfig]
  /\ derived = config
  /\ session = [i \in Ids |-> NoConfig]
  /\ fresh = [c \in Clients |-> NoConfig]
  /\ busy = [i \in Ids |-> Nobody]
  /\ metadata = [i \in Ids |-> Nobody]
  /\ loadLock = Nobody
  /\ modelsLock = Nobody
  /\ pc = [c \in Clients |-> "ready"]
  /\ op = [c \in Clients |-> "none"]
  /\ id = [c \in Clients |-> CHOOSE i \in Ids : TRUE]
  /\ want = [c \in Clients |-> NoConfig]
  /\ todo = [c \in Clients |-> <<>>]

\* The end of a request, however it ends: whatever lock it holds goes, and an
\* entry it has not registered.
UnlockedBy(c, holder) == IF holder = c THEN Nobody ELSE holder

Finish(c) ==
  /\ Goto(c, "ready")
  /\ op' = [op EXCEPT ![c] = "none"]
  /\ id' = [id EXCEPT ![c] = CHOOSE i \in Ids : TRUE]
  /\ want' = [want EXCEPT ![c] = NoConfig]
  /\ todo' = [todo EXCEPT ![c] = <<>>]
  /\ busy' = [i \in Ids |-> UnlockedBy(c, busy[i])]
  /\ metadata' = [i \in Ids |-> UnlockedBy(c, metadata[i])]
  /\ loadLock' = UnlockedBy(c, loadLock)
  /\ modelsLock' = UnlockedBy(c, modelsLock)
  /\ fresh' = [fresh EXCEPT ![c] = NoConfig]

----------------------------------------------------------------------------
(* Requests: the lookup under models_mutex_.                               *)

Begin(c, handler, i, w) ==
  /\ pc[c] = "ready"
  /\ modelsLock = Nobody
  /\ op' = [op EXCEPT ![c] = handler]
  /\ id' = [id EXCEPT ![c] = i]
  /\ want' = [want EXCEPT ![c] = w]
  /\ UNCHANGED <<entries, locks, todo>>

\* require_model, and model_run_mode.
RunRequest(c, i) ==
  /\ i \in Registered
  /\ Begin(c, "run", i, NoConfig)
  /\ Goto(c, "metadata")

UnloadRequest(c, i) ==
  /\ UiManagement
  /\ i \in Registered
  /\ Begin(c, "unload", i, NoConfig)
  /\ Goto(c, "metadata")

LoadRequest(c, i, w) ==
  /\ UiManagement
  /\ i \in Registered
  /\ Begin(c, "load", i, w)
  /\ Goto(c, "metadata")

\* make_model throws for a rejected config, before anything has changed.
LoadNewRequest(c, i, w) ==
  /\ UiManagement
  /\ i \notin Registered
  /\ w \notin Rejected
  /\ Begin(c, "load_new", i, w)
  /\ Goto(c, "ensure")

----------------------------------------------------------------------------
(* acquire_model_run: the timeout is read under a shared metadata lock.    *)

ReadMetadata(c) ==
  /\ pc[c] = "metadata"
  /\ metadata[id[c]] = Nobody
  /\ Goto(c, "acquire")
  /\ UNCHANGED <<entries, locks, request>>

AcquireRunUnguarded(c) ==
  /\ pc[c] = "acquire"
  /\ busy' = [busy EXCEPT ![id[c]] = c]
  /\ Goto(c, CASE op[c] = "run" -> "ensure"
               [] op[c] = "load" -> "lock_metadata"
               [] op[c] = "unload" -> "unload")
  /\ UNCHANGED <<entries, metadata, loadLock, modelsLock, request>>
AcquireRun(c) ==
  /\ pc[c] = "acquire"
  /\ busy[id[c]] = Nobody
  /\ busy' = [busy EXCEPT ![id[c]] = c]
  /\ Goto(c, CASE op[c] = "run" -> "ensure"
               [] op[c] = "load" -> "lock_metadata"
               [] op[c] = "unload" -> "unload")
  /\ UNCHANGED <<entries, metadata, loadLock, modelsLock, request>>

AcquireTimeout(c) ==
  /\ pc[c] = "acquire"
  /\ server.busy_timeout
  /\ busy[id[c]] # Nobody
  /\ Finish(c)
  /\ UNCHANGED <<models, config, derived, session>>

----------------------------------------------------------------------------
(* handle_model_unload and handle_model_load.                              *)

UnloadModel(c) ==
  /\ pc[c] = "unload"
  /\ session' = [session EXCEPT ![id[c]] = NoConfig]
  /\ Finish(c)
  /\ UNCHANGED <<models, config, derived>>

LockMetadata(c) ==
  /\ pc[c] = "lock_metadata"
  /\ metadata[id[c]] = Nobody
  /\ metadata' = [metadata EXCEPT ![id[c]] = c]
  /\ Goto(c, "reconfigure")
  /\ UNCHANGED <<entries, busy, loadLock, modelsLock, request>>

Changed(c) == Key[config[id[c]]] # Key[want[c]]

Unchanged(c) ==
  /\ pc[c] = "reconfigure"
  /\ ~Changed(c)
  /\ Goto(c, "ensure")
  /\ UNCHANGED <<entries, locks, request>>

ReconfigureKeepsSession(c) ==
  /\ pc[c] = "reconfigure"
  /\ Changed(c)
  /\ UNCHANGED session
  /\ config' = [config EXCEPT ![id[c]] = want[c]]
  /\ IF want[c] \in Rejected
     THEN /\ Finish(c)
          /\ UNCHANGED derived
     ELSE /\ derived' = config'
          /\ Goto(c, "ensure")
          /\ UNCHANGED <<fresh, locks, request>>
  /\ UNCHANGED models

\* The entry is reassigned before what is derived from it is: the handler throws
\* in between when the task does not parse, and after when the contract is
\* broken.
Reconfigure(c) ==
  /\ pc[c] = "reconfigure"
  /\ Changed(c)
  /\ session' = [session EXCEPT ![id[c]] = NoConfig]
  /\ config' = [config EXCEPT ![id[c]] = want[c]]
  /\ IF want[c] \in Rejected
     THEN /\ Finish(c)
          /\ derived' \in {derived, [derived EXCEPT ![id[c]] = want[c]]}
     ELSE /\ derived' = [derived EXCEPT ![id[c]] = want[c]]
          /\ Goto(c, "ensure")
          /\ UNCHANGED <<fresh, locks, request>>
  /\ UNCHANGED models

----------------------------------------------------------------------------
(* ensure_model_loaded_locked.                                             *)

SerializeLoad == MaxLoadedModels > 0 \/ server.memory_guard

\* What follows a load: an inference, the answer, or the registration.
AfterLoad(c) ==
  CASE op[c] = "run" -> "run"
    [] op[c] = "load" -> "answer"
    [] op[c] = "load_new" -> "register"

Ensure(c) ==
  /\ pc[c] = "ensure"
  /\ Goto(c, IF SessionOf(c) # NoConfig THEN AfterLoad(c)
             ELSE IF SerializeLoad THEN "lock_load" ELSE "load")
  /\ UNCHANGED <<entries, locks, request>>

LockLoadThenEvict(c) ==
  /\ pc[c] = "lock_load"
  /\ loadLock = Nobody
  /\ loadLock' = c
  /\ Goto(c, "evict")
  /\ UNCHANGED <<entries, busy, metadata, modelsLock, request>>
LockLoad(c) ==
  /\ pc[c] = "lock_load"
  /\ loadLock = Nobody
  /\ loadLock' = c
  /\ Goto(c, IF MaxLoadedModels > 0 THEN "evict" ELSE "load")
  /\ UNCHANGED <<entries, busy, metadata, modelsLock, request>>

\* evict_for_model_limit sees the registered models only.
Others(c) == IF Unregistered(c) THEN Resident ELSE Resident \ {id[c]}
ToEvict(c) == Cardinality(Others(c)) - (MaxLoadedModels - 1)
Evictable(c) == {i \in Others(c) : busy[i] = Nobody}

Evict(c) ==
  /\ pc[c] = "evict"
  /\ modelsLock = Nobody
  /\ \E victims \in SUBSET Evictable(c) :
       /\ Cardinality(victims) = (IF ToEvict(c) > 0 THEN ToEvict(c) ELSE 0)
       /\ session' = [i \in Ids |-> IF i \in victims THEN NoConfig ELSE session[i]]
  /\ Goto(c, "load")
  /\ UNCHANGED <<models, config, derived, fresh, locks, request>>

\* Too many are mid-inference; those that are not have been unloaded.
EvictFails(c) ==
  /\ pc[c] = "evict"
  /\ modelsLock = Nobody
  /\ Cardinality(Evictable(c)) < ToEvict(c)
  /\ session' = [i \in Ids |-> IF i \in Evictable(c) THEN NoConfig ELSE session[i]]
  /\ Finish(c)
  /\ UNCHANGED <<models, config, derived>>

Load(c) ==
  /\ pc[c] = "load"
  /\ IF Unregistered(c)
     THEN /\ fresh' = [fresh EXCEPT ![c] = [config |-> want[c], task |-> want[c]]]
          /\ UNCHANGED session
     ELSE /\ session' = [session EXCEPT
                            ![id[c]] = [config |-> config[id[c]], task |-> derived[id[c]]]]
          /\ UNCHANGED fresh
  /\ loadLock' = UnlockedBy(c, loadLock)
  /\ Goto(c, AfterLoad(c))
  /\ UNCHANGED <<models, config, derived, busy, metadata, modelsLock, request>>

\* Not enough memory, or the loader throws.
LoadRetries(c) ==
  /\ pc[c] = "load"
  /\ loadLock' = UnlockedBy(c, loadLock)
  /\ Goto(c, "ensure")
  /\ UNCHANGED <<entries, busy, metadata, modelsLock, request>>
LoadFails(c) ==
  /\ pc[c] = "load"
  /\ Finish(c)
  /\ UNCHANGED <<models, config, derived, session>>

RunEnds(c) ==
  /\ pc[c] = "run"
  /\ Finish(c)
  /\ UNCHANGED <<models, config, derived, session>>

\* {"loaded":true}
Answer(c) ==
  /\ pc[c] = "answer"
  /\ Finish(c)
  /\ UNCHANGED <<models, config, derived, session>>

RegisterUnlisted(c) ==
  /\ pc[c] = "register"
  /\ modelsLock = Nobody
  /\ config' = [config EXCEPT ![id[c]] = want[c]]
  /\ derived' = [derived EXCEPT ![id[c]] = want[c]]
  /\ session' = [session EXCEPT ![id[c]] = fresh[c]]
  /\ Finish(c)
  /\ UNCHANGED models
RegisterUnchecked(c) ==
  /\ pc[c] = "register"
  /\ modelsLock = Nobody
  /\ models' = Append(models, id[c])
  /\ config' = [config EXCEPT ![id[c]] = want[c]]
  /\ derived' = [derived EXCEPT ![id[c]] = want[c]]
  /\ session' = [session EXCEPT ![id[c]] = fresh[c]]
  /\ Finish(c)
\* "model id was registered concurrently" drops the new object, session and
\* all.
Register(c) ==
  /\ pc[c] = "register"
  /\ modelsLock = Nobody
  /\ IF id[c] \in Registered
     THEN UNCHANGED <<models, config, derived, session>>
     ELSE /\ models' = Append(models, id[c])
          /\ config' = [config EXCEPT ![id[c]] = want[c]]
          /\ derived' = [derived EXCEPT ![id[c]] = want[c]]
          /\ session' = [session EXCEPT ![id[c]] = fresh[c]]
  /\ Finish(c)

----------------------------------------------------------------------------
(* models_json and handle_voices.                                          *)

List(c, handler, list) ==
  /\ pc[c] = "ready"
  /\ modelsLock = Nobody
  /\ modelsLock' = c
  /\ op' = [op EXCEPT ![c] = handler]
  /\ todo' = [todo EXCEPT ![c] = list]
  /\ Goto(c, "list")
  /\ UNCHANGED <<entries, busy, metadata, loadLock, id, want>>

ModelsRequest(c) == List(c, "models", models)
VoicesRequest(c, i) == i \in Registered /\ List(c, "voices", <<i>>)

ListEntry(c) ==
  /\ pc[c] = "list"
  /\ todo[c] # <<>>
  /\ metadata[Head(todo[c])] = Nobody
  /\ todo' = [todo EXCEPT ![c] = Tail(@)]
  /\ UNCHANGED <<entries, locks, pc, op, id, want>>

ListDone(c) ==
  /\ pc[c] = "list"
  /\ todo[c] = <<>>
  /\ Finish(c)
  /\ UNCHANGED <<models, config, derived, session>>

----------------------------------------------------------------------------
Arrival(c) ==
  \/ ModelsRequest(c)
  \/ \E i \in Ids : RunRequest(c, i) \/ UnloadRequest(c, i) \/ VoicesRequest(c, i)
  \/ \E i \in Ids, w \in Configs : LoadRequest(c, i, w) \/ LoadNewRequest(c, i, w)

\* Steps that wait for nothing but the processor.
Proceed(c) ==
  \/ UnloadModel(c) \/ Unchanged(c) \/ Reconfigure(c) \/ Ensure(c)
  \/ Answer(c) \/ ListDone(c)

\* Steps that wait for a lock.
TakeLock(c) ==
  \/ ReadMetadata(c) \/ AcquireRun(c) \/ LockMetadata(c) \/ LockLoad(c)
  \/ Evict(c) \/ EvictFails(c) \/ Register(c) \/ ListEntry(c)

\* Steps of the framework and the device, which may never come.
Compute(c) == Load(c) \/ LoadFails(c) \/ RunEnds(c)

Next ==
  \E c \in Clients :
    /\ Arrival(c) \/ Proceed(c) \/ TakeLock(c) \/ AcquireTimeout(c) \/ Compute(c)
    /\ UNCHANGED server

Spec == Init /\ [][Next]_<<server, vars>>

(* A mutex that is released again and again lets every waiter in at last   *)
(* (strong fairness); a guarded wait with a timeout needs no luck.         *)
FairSpec ==
  /\ Spec
  /\ \A c \in Clients :
       /\ WF_vars(Proceed(c))
       /\ SF_vars(TakeLock(c))
       /\ WF_vars(AcquireRun(c) \/ AcquireTimeout(c))

ReturningSpec == FairSpec /\ \A c \in Clients : WF_vars(Compute(c))

----------------------------------------------------------------------------
(* Properties.                                                             *)

Pcs == {"ready", "metadata", "acquire", "lock_metadata", "reconfigure", "ensure",
        "lock_load", "evict", "load", "run", "answer", "register", "unload", "list"}
Ops == {"none", "run", "load", "load_new", "unload", "models", "voices"}

\* Types (that of server is in Init), and an entry has a config exactly when it is registered.
TypeOK ==
  /\ models \in Seq(Ids)
  /\ config \in [Ids -> Configs \cup {NoConfig}]
  /\ derived \in [Ids -> Configs \cup {NoConfig}]
  /\ session \in [Ids -> Session \cup {NoConfig}]
  /\ fresh \in [Clients -> Session \cup {NoConfig}]
  /\ busy \in [Ids -> Clients \cup {Nobody}]
  /\ metadata \in [Ids -> Clients \cup {Nobody}]
  /\ loadLock \in Clients \cup {Nobody}
  /\ modelsLock \in Clients \cup {Nobody}
  /\ pc \in [Clients -> Pcs]
  /\ op \in [Clients -> Ops]
  /\ id \in [Clients -> Ids]
  /\ want \in [Clients -> Configs \cup {NoConfig}]
  /\ todo \in [Clients -> Seq(Ids)]
  /\ \A i \in Ids : i \in Registered <=> config[i] # NoConfig

\* A session in memory is one of the entry as it is now, weights and task: no
\* reconfiguration leaves an old session to answer for the new entry, even when
\* it fails half-way (runtime.cpp 1380-1391).  The task is that of the entry's
\* config unless that config was rejected: then the handler may have thrown
\* before it derived the task, and the next request that needs the model,
\* an identical load included, gets a session of the new config for the old
\* task (1372, 1384-1386, 1958).
SessionMatchesConfig ==
  \A i \in Ids : session[i] # NoConfig =>
    /\ session[i] = [config |-> config[i], task |-> derived[i]]
    /\ session[i].task # session[i].config => config[i] \in Rejected

\* An id is registered once, also when two requests load it as new at the
\* same time (runtime.cpp 1401-1408).
RegisteredOnce ==
  \A m, n \in DOMAIN models : models[m] = models[n] => m = n

\* Neither a reconfiguration nor an unload nor an eviction touches the entry
\* an inference runs on (runtime.cpp 1370, 1441, 1883).
RunUndisturbed ==
  [][\A c \in Clients : pc[c] = "run" /\ pc'[c] = "run" =>
       LET i == id[c] IN
         config'[i] = config[i] /\ session'[i] = session[i] /\ session[i] # NoConfig]_vars

\* Who stands between a client and its next step.  A wait with a timeout
\* ends by itself.
LockedOut(c) ==
  (CASE pc[c] \in {"metadata", "lock_metadata"} -> {metadata[id[c]]}
     [] pc[c] = "acquire" /\ ~server.busy_timeout -> {busy[id[c]]}
     [] pc[c] = "lock_load" -> {loadLock}
     [] pc[c] \in {"evict", "register"} -> {modelsLock}
     [] pc[c] = "list" /\ todo[c] # <<>> -> {metadata[Head(todo[c])]}
     [] OTHER -> {}) \ {Nobody}

\* No clients wait for each other's locks for ever: what try_acquire in the
\* eviction is there to rule out (runtime.cpp 1880-1882, busy_guard.h
\* 129-132).
NoCircularWait ==
  \A S \in (SUBSET Clients) \ {{}} : \E c \in S : LockedOut(c) \cap S = {}

\* When the framework returns, every request is answered.
EveryRequestAnswered ==
  \A c \in Clients : pc[c] # "ready" ~> pc[c] = "ready"
=============================================================================
