--------------------------- MODULE ModelResidency ---------------------------
(***************************************************************************)
(* Which models are resident in memory, and who may use them: the part of  *)
(* ServerState (app/server/runtime.cpp) that serves inference over models  *)
(* fixed by the configuration file.  Every client connection runs on its   *)
(* own thread; one more thread unloads idle models.  The threads meet at   *)
(*   - a BusyGuard per model (here: its holder; BusyGuard.tla has the      *)
(*     timing),                                                            *)
(*   - model_load_mutex_, held over "evict, check memory, load",           *)
(*   - models_mutex_, whose critical sections take no other lock here and  *)
(*     are therefore single steps.                                         *)
(* Registration and reconfiguration at run time (ui_management) are in     *)
(* ModelCatalog.tla.                                                       *)
(***************************************************************************)
EXTENDS Integers, FiniteSets

CONSTANTS
  Models,           \* ids of the configuration's models
  Lazy,             \* the entries with "lazy": true
  Clients,          \* one per connection thread
  IdleThread,       \* the thread of idle_unload_loop
  Nobody,           \* no thread: an unlocked mutex, no victim
  MaxLoadedModels,  \* max_loaded_models, 0 = no limit
  MinFreeMemory,    \* min_free_memory_mb, 0 = no memory guard
  Capacity,         \* memory of the device
  Footprint,        \* what a loaded model takes
  Estimate,         \* what estimate_model_memory_bytes says it takes
  Estimable,        \* models it has an estimate for (an unambiguous directory)
  BusyTimeoutMs,    \* busy_timeout_ms, 0 = wait without bound
  IdleUnloadMs,     \* idle_unload_ms, 0 = no idle thread
  MaxTime           \* bound of the clock

ASSUME ModelsAssumption ==
  /\ IsFiniteSet(Models)
  /\ Lazy \subseteq Models
  /\ Estimable \subseteq Models

ASSUME ThreadsAssumption ==
  /\ IdleThread \notin Clients
  /\ Nobody \notin Clients \cup {IdleThread}
  /\ Nobody \notin Models

ASSUME LimitsAssumption ==
  /\ MaxLoadedModels \in Nat
  /\ MinFreeMemory \in Nat
  /\ BusyTimeoutMs \in Nat
  /\ IdleUnloadMs \in Nat
  /\ MaxTime \in Nat

\* estimate_model_memory_bytes scales the file sizes up and adds a floor.
ASSUME MemoryAssumption ==
  /\ Capacity \in Nat
  /\ MinFreeMemory <= Capacity
  /\ Footprint \in [Models -> Nat]
  /\ Estimate \in [Models -> Nat]
  /\ \A m \in Models : Footprint[m] <= Estimate[m]

VARIABLES
  startup,        \* configuration entries load_models has not reached
  session,        \* model -> LoadedModel::session # nullptr
  busy,           \* model -> thread that holds its BusyGuard
  loadLock,       \* thread that holds model_load_mutex_
  lastUsed,       \* model -> last_used_ms
  lastActivity,   \* last_activity_ms_
  now,            \* steady_now_ms()
  free,           \* memory not taken by loaded models
  pc,             \* client -> where its request is
  model,          \* client -> the model it is at
  ids,            \* client -> models its unload request has yet to visit
  kept,           \* eviction: residents of the snapshot not unloaded by it
  untried,        \* eviction: victims it has not tried
  stamp,          \* eviction: last_used_ms when its sort began
  sorted,         \* eviction: they stood still while it sorted
  victim,         \* eviction: the model it is unloading
  idlePc,         \* idle thread: where it is
  idleTodo,       \* idle thread: residents of its snapshot not yet visited
  idleModel,      \* idle thread: the model it is unloading
  idleUnloaded    \* idle thread: it has unloaded something in this pass

evictVars == <<kept, untried, stamp, sorted, victim>>
idleVars == <<idlePc, idleTodo, idleModel, idleUnloaded>>
vars == <<startup, session, busy, loadLock, lastUsed, lastActivity, now, free,
          pc, model, ids, evictVars, idleVars>>

Threads == Clients \cup {IdleThread}

\* Where a request for inference may be once it is past the BusyGuard.
LoadPcs == {"snapshot", "sort", "sorting", "evict", "unload_victim", "fits", "load"}
HoldsBusyPcs == LoadPcs \cup {"ensure", "lock_load", "run", "unload_model"}
ClientPcs == HoldsBusyPcs \cup {"ready", "acquire", "unload_next", "unload_wait"}
IdlePcs == {"sleep", "scan", "sweep", "unload_idle"}

Resident == {m \in Models : session[m]}

\* serialize_load.
SerializeLoad == MaxLoadedModels > 0 \/ MinFreeMemory > 0

Goto(c, label) == pc' = [pc EXCEPT ![c] = label]

\* BusyGuard, seen from outside: who holds it.
UnlockedIgnored(m) == TRUE
Unlocked(m) == busy[m] = Nobody

LoadLockFree == loadLock = Nobody

\* The first two statements of ensure_model_loaded_locked.
TouchAhead(m) ==
  /\ lastActivity' = now
  /\ lastUsed' = [lastUsed EXCEPT ![m] = now + 1]
Touch(m) ==
  /\ lastActivity' = now
  /\ lastUsed' = [lastUsed EXCEPT ![m] = now]

Hold(m, thread) == busy' = [busy EXCEPT ![m] = thread]

ReleaseForgotten(m) == UNCHANGED busy
Release(m) == busy' = [busy EXCEPT ![m] = Nobody]

NoEviction ==
  /\ kept' = {}
  /\ untried' = {}
  /\ stamp' = [m \in Models |-> 0]
  /\ sorted' = TRUE
  /\ victim' = Nobody

Init ==
  /\ startup = Models
  /\ session = [m \in Models |-> FALSE]
  /\ busy = [m \in Models |-> Nobody]
  /\ loadLock = Nobody
  /\ lastUsed = [m \in Models |-> 0]
  /\ lastActivity = 0
  /\ now = 0
  /\ free = Capacity
  /\ pc = [c \in Clients |-> "ready"]
  /\ model = [c \in Clients |-> Nobody]
  /\ ids = [c \in Clients |-> {}]
  /\ kept = {}
  /\ untried = {}
  /\ stamp = [m \in Models |-> 0]
  /\ sorted = TRUE
  /\ victim = Nobody
  /\ idlePc = "sleep"
  /\ idleTodo = {}
  /\ idleModel = Nobody
  /\ idleUnloaded = FALSE

----------------------------------------------------------------------------
(* Loading and unloading one model.                                        *)

Fits(m) ==
  \/ MinFreeMemory = 0
  \/ m \notin Estimable
  \/ Estimate[m] + MinFreeMemory <= free

BecomesResident(m) ==
  /\ session' = [session EXCEPT ![m] = TRUE]
  /\ free' = free - Footprint[m]

\* LoadedModel::unload of a model that may already be unloaded.
Unload(m) ==
  /\ session' = [session EXCEPT ![m] = FALSE]
  /\ free' = IF session[m] THEN free + Footprint[m] ELSE free

----------------------------------------------------------------------------
(* load_models: the main thread, before the server accepts connections.    *)

AtLimit == MaxLoadedModels > 0 /\ Cardinality(Resident) >= MaxLoadedModels

StartupRegister(m) ==
  /\ m \in startup
  /\ m \in Lazy \/ AtLimit
  /\ startup' = startup \ {m}
  /\ UNCHANGED <<session, busy, loadLock, lastUsed, lastActivity, now, free,
                 pc, model, ids, evictVars, idleVars>>

StartupLoad(m) ==
  /\ m \in startup
  /\ m \notin Lazy /\ ~AtLimit
  /\ Fits(m)
  /\ startup' = startup \ {m}
  /\ Touch(m)
  /\ BecomesResident(m)
  /\ UNCHANGED <<busy, loadLock, now, pc, model, ids, evictVars, idleVars>>

----------------------------------------------------------------------------
(* A request for inference: run_model and run_streaming_model_impl.  All   *)
(* the ways in which it can throw end it and drop the locks it holds.      *)

\* require_model found the id; acquire_model_run comes next.
RunRequest(c, m) ==
  /\ startup = {}
  /\ pc[c] = "ready"
  /\ Goto(c, "acquire")
  /\ model' = [model EXCEPT ![c] = m]
  /\ UNCHANGED <<startup, session, busy, loadLock, lastUsed, lastActivity, now,
                 free, ids, evictVars, idleVars>>

AcquireRun(c) ==
  /\ pc[c] = "acquire"
  /\ Unlocked(model[c])
  /\ Hold(model[c], c)
  /\ Goto(c, "ensure")
  /\ UNCHANGED <<startup, session, loadLock, lastUsed, lastActivity, now, free,
                 model, ids, evictVars, idleVars>>

WaitIsUnbounded == FALSE
WaitIsBounded == BusyTimeoutMs > 0

\* ServerBusyError out of BusyGuard::acquire: the holder has overrun, or the
\* wait took too long.
AcquireTimeout(c) ==
  /\ pc[c] = "acquire"
  /\ WaitIsBounded
  /\ ~Unlocked(model[c])
  /\ Goto(c, "ready")
  /\ model' = [model EXCEPT ![c] = Nobody]
  /\ UNCHANGED <<startup, session, busy, loadLock, lastUsed, lastActivity, now,
                 free, ids, evictVars, idleVars>>

\* The end of a request, however it ends: the guard goes, and the load lock
\* and the locals of the eviction if it holds that lock.
Finish(c) ==
  /\ Goto(c, "ready")
  /\ Release(model[c])
  /\ model' = [model EXCEPT ![c] = Nobody]
  /\ UNCHANGED <<startup, lastUsed, now, ids, idleVars>>

\* ensure_model_loaded_locked up to the load lock.
Ensure(c) ==
  /\ pc[c] = "ensure"
  /\ Touch(model[c])
  /\ Goto(c, IF session[model[c]] THEN "run"
             ELSE IF SerializeLoad THEN "lock_load" ELSE "load")
  /\ UNCHANGED <<startup, session, busy, loadLock, now, free, model, ids,
                 evictVars, idleVars>>

LockLoad(c) ==
  /\ pc[c] = "lock_load"
  /\ LoadLockFree
  /\ loadLock' = c
  /\ Goto(c, IF MaxLoadedModels > 0 THEN "snapshot" ELSE "fits")
  /\ UNCHANGED <<startup, session, busy, lastUsed, lastActivity, now, free,
                 model, ids, evictVars, idleVars>>

\* evict_for_model_limit: to_evict.
ToEvictOffByOne(set) == Cardinality(set) - MaxLoadedModels
ToEvict(set) == Cardinality(set) - (MaxLoadedModels - 1)

\* The other residents, listed under models_mutex_.
EvictSnapshot(c) ==
  /\ pc[c] = "snapshot"
  /\ LET others == Resident \ {model[c]} IN
       IF ToEvict(others) <= 0
       THEN Goto(c, "fits") /\ UNCHANGED evictVars
       ELSE /\ Goto(c, "sort")
            /\ kept' = others
            /\ untried' = others
            /\ UNCHANGED <<stamp, sorted, victim>>
  /\ UNCHANGED <<startup, session, busy, loadLock, lastUsed, lastActivity, now,
                 free, model, ids, idleVars>>

\* Every comparison of the sort reads last_used_ms, which no lock protects.
EvictSort(c) ==
  /\ pc[c] = "sort"
  /\ stamp' = lastUsed
  /\ Goto(c, "sorting")
  /\ UNCHANGED <<startup, session, busy, loadLock, lastUsed, lastActivity, now,
                 free, model, ids, kept, untried, sorted, victim, idleVars>>

\* A request that uses a candidate while it runs makes it compare by no order
\* at all: std::sort may then leave any.
EvictSorted(c) ==
  /\ pc[c] = "sorting"
  /\ sorted' = (\A m \in untried : lastUsed[m] = stamp[m])
  /\ Goto(c, "evict")
  /\ UNCHANGED <<startup, session, busy, loadLock, lastUsed, lastActivity, now,
                 free, model, ids, kept, untried, stamp, victim, idleVars>>

\* The next victim in the order of the sort; equal stamps come in any order.
NewestVictim(m) ==
  /\ m \in untried
  /\ \A other \in untried : stamp[m] >= stamp[other]
NextVictim(m) ==
  /\ m \in untried
  /\ sorted => \A other \in untried : stamp[m] <= stamp[other]

EvictTry(c, m) ==
  /\ pc[c] = "evict"
  /\ ToEvict(kept) > 0
  /\ NextVictim(m)
  /\ untried' = untried \ {m}
  /\ IF Unlocked(m)
     THEN /\ Hold(m, c)
          /\ victim' = m
          /\ Goto(c, "unload_victim")
     ELSE UNCHANGED <<busy, victim, pc>>
  /\ UNCHANGED <<startup, session, loadLock, lastUsed, lastActivity, now, free,
                 model, ids, kept, stamp, sorted, idleVars>>

EvictUnload(c) ==
  /\ pc[c] = "unload_victim"
  /\ Unload(victim)
  /\ Release(victim)
  /\ kept' = kept \ {victim}
  /\ victim' = Nobody
  /\ Goto(c, "evict")
  /\ UNCHANGED <<startup, loadLock, lastUsed, lastActivity, now, model, ids,
                 untried, stamp, sorted, idleVars>>

EvictDone(c) ==
  /\ pc[c] = "evict"
  /\ ToEvict(kept) = 0
  /\ Goto(c, "fits")
  /\ UNCHANGED <<startup, session, busy, loadLock, lastUsed, lastActivity, now,
                 free, model, ids, evictVars, idleVars>>

\* ServerBusyError: every victim was busy when it was tried.
EvictFail(c) ==
  /\ pc[c] = "evict"
  /\ ToEvict(kept) > 0
  /\ untried = {}
  /\ loadLock' = Nobody
  /\ NoEviction
  /\ Finish(c)
  /\ UNCHANGED <<session, lastActivity, free>>

FitsMemoryUnlocks(c) ==
  /\ pc[c] = "fits"
  /\ Fits(model[c])
  /\ loadLock' = Nobody
  /\ Goto(c, "load")
  /\ UNCHANGED <<startup, session, busy, lastUsed, lastActivity, now, free,
                 model, ids, evictVars, idleVars>>
\* ensure_model_fits_memory.
FitsMemory(c) ==
  /\ pc[c] = "fits"
  /\ Fits(model[c])
  /\ Goto(c, "load")
  /\ UNCHANGED <<startup, session, busy, loadLock, lastUsed, lastActivity, now,
                 free, model, ids, evictVars, idleVars>>

InsufficientMemory(c) ==
  /\ pc[c] = "fits"
  /\ ~Fits(model[c])
  /\ loadLock' = Nobody
  /\ NoEviction
  /\ Finish(c)
  /\ UNCHANGED <<session, lastActivity, free>>

\* The framework load, and the end of load_lock's scope.
Load(c) ==
  /\ pc[c] = "load"
  /\ BecomesResident(model[c])
  /\ loadLock' = IF loadLock = c THEN Nobody ELSE loadLock
  /\ IF loadLock = c THEN NoEviction ELSE UNCHANGED evictVars
  /\ Goto(c, "run")
  /\ UNCHANGED <<startup, busy, lastUsed, lastActivity, now, model, ids, idleVars>>

LoadFailsHolding(c) ==
  /\ pc[c] = "load"
  /\ Finish(c)
  /\ UNCHANGED <<session, lastActivity, free, loadLock, evictVars>>

\* The loader throws, or the session has not the mode the entry configures.
LoadFails(c) ==
  /\ pc[c] = "load"
  /\ loadLock' = IF loadLock = c THEN Nobody ELSE loadLock
  /\ IF loadLock = c THEN NoEviction ELSE UNCHANGED evictVars
  /\ Finish(c)
  /\ UNCHANGED <<session, lastActivity, free>>

RunEnds(c) ==
  /\ pc[c] = "run"
  /\ lastActivity' = now
  /\ Finish(c)
  /\ UNCHANGED <<session, loadLock, free, evictVars>>

\* prepare or run throws, or the session lacks the mode the request needs.
RunFails(c) ==
  /\ pc[c] = "run"
  /\ Finish(c)
  /\ UNCHANGED <<session, lastActivity, loadLock, free, evictVars>>

----------------------------------------------------------------------------
(* handle_unload_models and handle_unload_all_models.                      *)

UnloadRequest(c, requested) ==
  /\ startup = {}
  /\ pc[c] = "ready"
  /\ Goto(c, "unload_next")
  /\ ids' = [ids EXCEPT ![c] = requested]
  /\ UNCHANGED <<startup, session, busy, loadLock, lastUsed, lastActivity, now,
                 free, model, evictVars, idleVars>>

\* One round of the loop up to busy.acquire(0, ...).  The session is looked
\* at before the guard is held and not again after.
UnloadNext(c, m) ==
  /\ pc[c] = "unload_next"
  /\ m \in ids[c]
  /\ ids' = [ids EXCEPT ![c] = @ \ {m}]
  /\ IF session[m]
     THEN Goto(c, "unload_wait") /\ model' = [model EXCEPT ![c] = m]
     ELSE UNCHANGED <<pc, model>>
  /\ UNCHANGED <<startup, session, busy, loadLock, lastUsed, lastActivity, now,
                 free, evictVars, idleVars>>

UnloadAcquire(c) ==
  /\ pc[c] = "unload_wait"
  /\ Unlocked(model[c])
  /\ Hold(model[c], c)
  /\ Goto(c, "unload_model")
  /\ UNCHANGED <<startup, session, loadLock, lastUsed, lastActivity, now, free,
                 model, ids, evictVars, idleVars>>

UnloadModel(c) ==
  /\ pc[c] = "unload_model"
  /\ Unload(model[c])
  /\ Release(model[c])
  /\ model' = [model EXCEPT ![c] = Nobody]
  /\ Goto(c, "unload_next")
  /\ UNCHANGED <<startup, loadLock, lastUsed, lastActivity, now, ids, evictVars,
                 idleVars>>

UnloadDone(c) ==
  /\ pc[c] = "unload_next"
  /\ ids[c] = {}
  /\ Goto(c, "ready")
  /\ UNCHANGED <<startup, session, busy, loadLock, lastUsed, lastActivity, now,
                 free, model, ids, evictVars, idleVars>>

----------------------------------------------------------------------------
(* idle_unload_loop and unload_idle_models.                                *)

IdleElapsed == now - lastActivity >= IdleUnloadMs

IdleWake ==
  /\ IdleUnloadMs > 0
  /\ startup = {}
  /\ idlePc = "sleep"
  /\ IdleElapsed
  /\ idlePc' = "scan"
  /\ UNCHANGED <<startup, session, busy, loadLock, lastUsed, lastActivity, now,
                 free, pc, model, ids, evictVars, idleTodo, idleModel,
                 idleUnloaded>>

IdleScan ==
  /\ idlePc = "scan"
  /\ idleTodo' = Resident
  /\ idlePc' = "sweep"
  /\ UNCHANGED <<startup, session, busy, loadLock, lastUsed, lastActivity, now,
                 free, pc, model, ids, evictVars, idleModel, idleUnloaded>>

IdleTry(m) ==
  /\ idlePc = "sweep"
  /\ m \in idleTodo
  /\ idleTodo' = idleTodo \ {m}
  /\ IF Unlocked(m)
     THEN /\ Hold(m, IdleThread)
          /\ idleModel' = m
          /\ idlePc' = "unload_idle"
     ELSE UNCHANGED <<busy, idleModel, idlePc>>
  /\ UNCHANGED <<startup, session, loadLock, lastUsed, lastActivity, now, free,
                 pc, model, ids, evictVars, idleUnloaded>>

IdleUnload ==
  /\ idlePc = "unload_idle"
  /\ Unload(idleModel)
  /\ Release(idleModel)
  /\ idleModel' = Nobody
  /\ idleUnloaded' = TRUE
  /\ idlePc' = "sweep"
  /\ UNCHANGED <<startup, loadLock, lastUsed, lastActivity, now, pc, model, ids,
                 evictVars, idleTodo>>

\* A pass that unloaded something restarts the idle clock.
IdleSleep ==
  /\ idlePc = "sweep"
  /\ idleTodo = {}
  /\ lastActivity' = IF idleUnloaded THEN now ELSE lastActivity
  /\ idleUnloaded' = FALSE
  /\ idlePc' = "sleep"
  /\ UNCHANGED <<startup, session, busy, loadLock, lastUsed, now, free, pc,
                 model, ids, evictVars, idleTodo, idleModel>>

----------------------------------------------------------------------------
Tick ==
  /\ now < MaxTime
  /\ now' = now + 1
  /\ UNCHANGED <<startup, session, busy, loadLock, lastUsed, lastActivity, free,
                 pc, model, ids, evictVars, idleVars>>

Startup == \E m \in Models : StartupRegister(m) \/ StartupLoad(m)

Arrival(c) ==
  \/ \E m \in Models : RunRequest(c, m)
  \/ \E requested \in SUBSET Models : UnloadRequest(c, requested)

Evict(c) ==
  \/ EvictSnapshot(c) \/ EvictSort(c) \/ EvictSorted(c)
  \/ EvictUnload(c) \/ EvictDone(c) \/ EvictFail(c)
  \/ \E m \in Models : EvictTry(c, m)

\* Steps that wait for nothing.
Proceed(c) ==
  \/ Ensure(c) \/ Evict(c)
  \/ FitsMemory(c) \/ InsufficientMemory(c) \/ Load(c) \/ LoadFails(c)
  \/ UnloadModel(c) \/ UnloadDone(c)
  \/ \E m \in Models : UnloadNext(c, m)

Inference(c) == RunEnds(c) \/ RunFails(c)

Idle ==
  \/ IdleWake \/ IdleScan \/ IdleUnload \/ IdleSleep
  \/ \E m \in Models : IdleTry(m)

Next ==
  \/ Startup
  \/ \E c \in Clients :
       \/ Arrival(c) \/ Proceed(c) \/ Inference(c)
       \/ AcquireRun(c) \/ AcquireTimeout(c) \/ LockLoad(c) \/ UnloadAcquire(c)
  \/ Idle
  \/ Tick

Spec == Init /\ [][Next]_vars

(* The operating system's mutexes let no thread wait for ever on one that  *)
(* is released again and again: strong fairness.  The guard of a model is  *)
(* waited for with a timeout, so weak fairness is enough there.  Nothing   *)
(* is assumed of the inference itself in FairSpec: it may be wedged.       *)
Fairness ==
  /\ \A m \in Models : WF_vars(StartupRegister(m) \/ StartupLoad(m))
  /\ \A c \in Clients :
       /\ WF_vars(Proceed(c))
       /\ WF_vars(AcquireRun(c) \/ AcquireTimeout(c))
       /\ SF_vars(LockLoad(c))
       /\ SF_vars(UnloadAcquire(c))
  /\ WF_vars(Idle)

FairSpec == Spec /\ Fairness
InferenceReturns == \A c \in Clients : WF_vars(Inference(c))

----------------------------------------------------------------------------
(* Properties.                                                             *)

\* Every variable has its type, and no recorded time is in the future.
TypeOK ==
  /\ startup \in SUBSET Models
  /\ session \in [Models -> BOOLEAN]
  /\ busy \in [Models -> Threads \cup {Nobody}]
  /\ loadLock \in Clients \cup {Nobody}
  /\ lastUsed \in [Models -> 0..now]
  /\ lastActivity \in 0..now
  /\ now \in Nat
  /\ free \in Int
  /\ pc \in [Clients -> ClientPcs]
  /\ model \in [Clients -> Models \cup {Nobody}]
  /\ ids \in [Clients -> SUBSET Models]
  /\ kept \in SUBSET Models
  /\ untried \in SUBSET Models
  /\ stamp \in [Models -> 0..now]
  /\ sorted \in BOOLEAN
  /\ victim \in Models \cup {Nobody}
  /\ idlePc \in IdlePcs
  /\ idleTodo \in SUBSET Models
  /\ idleModel \in Models \cup {Nobody}
  /\ idleUnloaded \in BOOLEAN

\* A model in use by an inference is resident, and only one request uses it:
\* neither an eviction, nor the idle thread, nor an unload request takes it
\* away mid-run (runtime.cpp 1880-1886, 3545-3550; README "a model
\* mid-inference is never unloaded").
NeverUnloadedMidRun ==
  \A c \in Clients : pc[c] = "run" =>
    /\ session[model[c]]
    /\ \A d \in Clients \ {c} : ~(pc[d] \in HoldsBusyPcs /\ model[d] = model[c])

\* max_loaded_models bounds the models that take memory, the one being loaded
\* included, however loads, evictions and unloads interleave
\* (model_load_mutex_, runtime.h 225-228).
Occupied == Resident \cup {model[c] : c \in {d \in Clients : pc[d] = "load"}}

ResidentBound ==
  MaxLoadedModels > 0 => Cardinality(Occupied) <= MaxLoadedModels

\* A model of known size is loaded only into memory that leaves the configured
\* headroom: what the check found free is still free when the load ends, whatever
\* other requests load or unload meanwhile (runtime.h 225-228).
HeadroomKept ==
  [][\A c \in Clients : MinFreeMemory > 0 /\ Load(c) /\ model[c] \in Estimable
       => free' >= MinFreeMemory]_vars

\* The model an eviction unloads was last used no later than any candidate
\* it has not tried, even as their use times move on (README "the server
\* first unloads the least recently used idle model").  Only where no candidate
\* was used while the eviction sorted: else it may take any of them.
LruRespected ==
  [][\A c \in Clients : EvictUnload(c) /\ sorted =>
       \A m \in untried : stamp[victim] <= lastUsed[m]]_vars

\* The server as its clients know it: a bounded pool of models, none of which
\* leaves while it runs (ModelPool.tla).
Running == {model[c] : c \in {d \in Clients : pc[d] = "run"}}
Pool == INSTANCE ModelPool WITH resident <- Resident, running <- Running
IsModelPool == Pool!Spec

\* A thread that waits for a lock without a timeout waits for one that is on
\* its way to give it back: in the load sequence, in a run or unloading, none
\* of which waits, or at the load lock, whose holder is in the load sequence.
\* So no lock outlives the request that took it, however that request ends,
\* and no threads wait in a circle (runtime.cpp 1880-1882; busy_guard.h
\* 129-132).
WaitsFor(c) ==
  (CASE pc[c] \in {"acquire", "unload_wait"} -> {busy[model[c]]}
     [] pc[c] = "lock_load" -> {loadLock}
     [] OTHER -> {}) \ {Nobody}

OnItsWay(t) ==
  \/ t = IdleThread /\ idlePc = "unload_idle"
  \/ t \in Clients /\ pc[t] \in HoldsBusyPcs \ {"lock_load"}

WaitsEnd ==
  \A c \in Clients : \A t \in WaitsFor(c) :
    \/ OnItsWay(t)
    \/ t \in Clients /\ pc[t] = "lock_load" /\ \A u \in WaitsFor(t) : OnItsWay(u)

\* An inference that never returns takes nobody with it: with busy_timeout_ms
\* set, any other request for inference is turned away or gets to its own
\* run (README "Set top-level busy_timeout_ms").
WedgeContained ==
  \A c \in Clients :
    pc[c] \in {"acquire", "ensure", "lock_load"} \cup LoadPcs ~> pc[c] \in {"ready", "run"}

\* When every inference returns, every request is answered, the unload
\* requests included, which wait on a guard without a timeout.
EveryRequestAnswered ==
  InferenceReturns => \A c \in Clients : pc[c] # "ready" ~> pc[c] = "ready"
=============================================================================
