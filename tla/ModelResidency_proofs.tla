----------------------- MODULE ModelResidency_proofs ------------------------
(***************************************************************************)
(* Proofs about ModelResidency, for any number of models and clients and   *)
(* any limits.  The locks come first (LockInv: who holds what at which     *)
(* point), then what they protect: the bound on resident models and the    *)
(* memory headroom.                                                        *)
(***************************************************************************)
EXTENDS ModelResidency, FiniteSetTheorems, TLAPS

\* A client past the guard holds it, and one on its way to it knows its model.
BusyInv ==
  \A c \in Clients :
    /\ pc[c] \in HoldsBusyPcs => model[c] \in Models /\ busy[model[c]] = c
    /\ pc[c] \in {"acquire", "unload_wait"} => model[c] \in Models

\* A client inside the load sequence holds the load lock if there is one.
LoadLockInv ==
  \A c \in Clients :
    /\ pc[c] \in LoadPcs /\ SerializeLoad => loadLock = c
    /\ pc[c] \in LoadPcs \ {"load"} => SerializeLoad
    /\ pc[c] \in {"snapshot", "sort", "sorting", "evict", "unload_victim"} => MaxLoadedModels > 0
    /\ pc[c] = "lock_load" => SerializeLoad

\* A model being evicted or unloaded as idle is guarded by who unloads it.
VictimInv ==
  /\ \A c \in Clients : pc[c] = "unload_victim" =>
       victim \in Models /\ busy[victim] = c /\ victim # model[c]
  /\ idlePc = "unload_idle" => idleModel \in Models /\ busy[idleModel] = IdleThread
  /\ \A c \in Clients : pc[c] \in {"sort", "sorting", "evict", "unload_victim"} =>
       model[c] \notin untried

RunInv == \A c \in Clients : pc[c] = "run" => session[model[c]]

\* No request is served before the configured models are registered.
StartupInv == startup # {} => \A c \in Clients : pc[c] = "ready"

LockInv ==
  TypeOK /\ BusyInv /\ LoadLockInv /\ VictimInv /\ RunInv /\ StartupInv

\* While a client evicts, the snapshot less its victims covers the other
\* residents: a session ends without the load lock but never begins without it.
Evicting(c) == pc[c] \in {"sort", "sorting", "evict", "unload_victim"}
Granted(c) == pc[c] \in {"fits", "load"} /\ MaxLoadedModels > 0

KeptFor(c) ==
  /\ Evicting(c) => Resident \ {model[c]} \subseteq kept
  /\ Granted(c) => Cardinality(Resident \ {model[c]}) <= MaxLoadedModels - 1

KeptInv == \A c \in Clients : KeptFor(c)

BoundInv ==
  /\ KeptInv
  /\ MaxLoadedModels > 0 => Cardinality(Resident) <= MaxLoadedModels

\* The memory a client was promised for a model of known size is still there
\* when it loads: nobody else is past the check.
MemoryInv ==
  MinFreeMemory > 0 => \A c \in Clients :
    pc[c] = "load" /\ model[c] \in Estimable =>
      Estimate[model[c]] + MinFreeMemory <= free

----------------------------------------------------------------------------
USE ModelsAssumption, ThreadsAssumption, LimitsAssumption, MemoryAssumption

LEMMA LockInit == Init => LockInv
<1> SUFFICES ASSUME Init PROVE LockInv
  OBVIOUS
<1> USE DEF Init
<1>1. TypeOK
  <2>1. idleUnloaded \in BOOLEAN
    BY Zenon
  <2>2. session \in [Models -> BOOLEAN]
    BY Zenon
  <2> QED
    BY <2>1, <2>2 DEF TypeOK, ClientPcs, IdlePcs, HoldsBusyPcs
<1>2. BusyInv /\ LoadLockInv /\ VictimInv /\ RunInv /\ StartupInv
  BY DEF BusyInv, LoadLockInv, VictimInv, RunInv, StartupInv, HoldsBusyPcs, LoadPcs
<1> QED
  BY <1>1, <1>2 DEF LockInv

LEMMA LockStep == LockInv /\ [Next]_vars => LockInv'
<1> SUFFICES ASSUME LockInv, [Next]_vars PROVE LockInv'
  OBVIOUS
<1> USE DEF LockInv, TypeOK, BusyInv, LoadLockInv, VictimInv, RunInv, StartupInv,
            HoldsBusyPcs, LoadPcs, ClientPcs, IdlePcs, Threads, Goto, SerializeLoad,
            evictVars, idleVars
<1>1. ASSUME NEW m \in Models, StartupRegister(m) PROVE LockInv'
  BY <1>1 DEF StartupRegister
<1>2. ASSUME NEW m \in Models, StartupLoad(m) PROVE LockInv'
  BY <1>2 DEF StartupLoad, Touch, BecomesResident
<1>3. ASSUME NEW c \in Clients, NEW m \in Models, RunRequest(c, m) PROVE LockInv'
  BY <1>3 DEF RunRequest
<1>4. ASSUME NEW c \in Clients, NEW requested \in SUBSET Models, UnloadRequest(c, requested)
      PROVE LockInv'
  BY <1>4 DEF UnloadRequest
<1>5. ASSUME NEW c \in Clients, Ensure(c) PROVE LockInv'
  BY <1>5 DEF Ensure, Touch
<1>6. ASSUME NEW c \in Clients, EvictSnapshot(c) PROVE LockInv'
  BY <1>6 DEF EvictSnapshot, Resident
<1>7. ASSUME NEW c \in Clients, EvictSort(c) \/ EvictSorted(c) PROVE LockInv'
  <2>1. CASE EvictSort(c)
    BY <2>1 DEF EvictSort
  <2>2. CASE EvictSorted(c)
    <3>1. sorted' \in BOOLEAN
      BY <2>2, Zenon DEF EvictSorted
    <3> QED
      BY <2>2, <3>1 DEF EvictSorted
  <2> QED
    BY <1>7, <2>1, <2>2
<1>8. ASSUME NEW c \in Clients, NEW m \in Models, EvictTry(c, m) PROVE LockInv'
  BY <1>8 DEF EvictTry, NextVictim, Unlocked, Hold
<1>9. ASSUME NEW c \in Clients, EvictUnload(c) PROVE LockInv'
  BY <1>9 DEF EvictUnload, Unload, Release
<1>10. ASSUME NEW c \in Clients, EvictDone(c) PROVE LockInv'
  BY <1>10 DEF EvictDone
<1>11. ASSUME NEW c \in Clients, EvictFail(c) PROVE LockInv'
  BY <1>11 DEF EvictFail, Finish, NoEviction, Release
<1>12. ASSUME NEW c \in Clients, FitsMemory(c) PROVE LockInv'
  BY <1>12 DEF FitsMemory
<1>13. ASSUME NEW c \in Clients, InsufficientMemory(c) PROVE LockInv'
  BY <1>13 DEF InsufficientMemory, Finish, NoEviction, Release
<1>14. ASSUME NEW c \in Clients, Load(c) PROVE LockInv'
  <2>1. sorted' = sorted \/ sorted' = TRUE
    BY <1>14, Zenon DEF Load, NoEviction
  <2>2. sorted' \in BOOLEAN
    BY <2>1, Zenon
  <2> QED
    BY <1>14, <2>2 DEF Load, BecomesResident, NoEviction
<1>15. ASSUME NEW c \in Clients, LoadFails(c) PROVE LockInv'
  <2>1. sorted' = sorted \/ sorted' = TRUE
    BY <1>15, Zenon DEF LoadFails, NoEviction
  <2>2. sorted' \in BOOLEAN
    BY <2>1, Zenon
  <2> QED
    BY <1>15, <2>2 DEF LoadFails, Finish, NoEviction, Release
<1>16. ASSUME NEW c \in Clients, RunEnds(c) \/ RunFails(c) PROVE LockInv'
  BY <1>16 DEF RunEnds, RunFails, Finish, Release
<1>17. ASSUME NEW c \in Clients, NEW m \in Models, UnloadNext(c, m) PROVE LockInv'
  BY <1>17 DEF UnloadNext
<1>18. ASSUME NEW c \in Clients, UnloadModel(c) PROVE LockInv'
  BY <1>18 DEF UnloadModel, Unload, Release
<1>19. ASSUME NEW c \in Clients, UnloadDone(c) PROVE LockInv'
  BY <1>19 DEF UnloadDone
<1>20. ASSUME NEW c \in Clients, AcquireRun(c) \/ UnloadAcquire(c) PROVE LockInv'
  BY <1>20 DEF AcquireRun, UnloadAcquire, Unlocked, Hold
<1>21. ASSUME NEW c \in Clients, AcquireTimeout(c) PROVE LockInv'
  BY <1>21 DEF AcquireTimeout
<1>22. ASSUME NEW c \in Clients, LockLoad(c) PROVE LockInv'
  BY <1>22 DEF LockLoad, LoadLockFree
<1>23. CASE IdleWake \/ IdleScan \/ IdleSleep
  <2>1. CASE IdleWake
    BY <2>1 DEF IdleWake
  <2>2. CASE IdleScan
    BY <2>2 DEF IdleScan, Resident
  <2>3. CASE IdleSleep
    <3>1. idleUnloaded' \in BOOLEAN
      BY <2>3, Zenon DEF IdleSleep
    <3>2. lastActivity' \in 0..now'
      BY <2>3 DEF IdleSleep
    <3> QED
      BY <2>3, <3>1, <3>2 DEF IdleSleep
  <2> QED
    BY <1>23, <2>1, <2>2, <2>3
<1>24. ASSUME NEW m \in Models, IdleTry(m) PROVE LockInv'
  BY <1>24 DEF IdleTry, Unlocked, Hold
<1>25. CASE IdleUnload
  BY <1>25 DEF IdleUnload, Unload, Release
<1>26. CASE Tick
  BY <1>26 DEF Tick
<1>27. CASE UNCHANGED vars
  BY <1>27 DEF vars
<1> QED
  BY <1>1, <1>2, <1>3, <1>4, <1>5, <1>6, <1>7, <1>8, <1>9, <1>10, <1>11, <1>12, <1>13,
     <1>14, <1>15, <1>16, <1>17, <1>18, <1>19, <1>20, <1>21, <1>22, <1>23, <1>24, <1>25,
     <1>26, <1>27
  DEF Next, Startup, Arrival, Proceed, Evict, Inference, Idle

----------------------------------------------------------------------------
(* The bound on resident models.                                           *)

LEMMA ResidentFinite ==
  /\ IsFiniteSet(Resident)
  /\ Cardinality(Resident) \in Nat
  /\ \A x : IsFiniteSet(Resident \ {x}) /\ Cardinality(Resident \ {x}) \in Nat
<1>1. \A T : T \subseteq Models => IsFiniteSet(T) /\ Cardinality(T) \in Nat
  BY FS_Subset, FS_CardinalityType
<1> QED
  BY <1>1 DEF Resident

\* A step that ends sessions, begins none and promises nothing keeps the bound.
LEMMA HarmlessStep ==
  ASSUME LockInv, BoundInv, Resident' \subseteq Resident,
         \A d \in Clients :
           /\ Evicting(d)' => Evicting(d) /\ kept' = kept /\ model'[d] = model[d]
           /\ Granted(d)' => Granted(d) /\ model'[d] = model[d]
  PROVE  BoundInv'
<1>1. Cardinality(Resident') <= Cardinality(Resident)
  BY ResidentFinite, FS_Subset
<1>2. ASSUME NEW d \in Clients PROVE KeptFor(d)'
  <2>1. Cardinality(Resident' \ {model[d]}) <= Cardinality(Resident \ {model[d]})
    <3>1. Resident' \ {model[d]} \in SUBSET (Resident \ {model[d]})
      OBVIOUS
    <3> QED
      BY <3>1, ResidentFinite, FS_Subset
  <2>2. Cardinality(Resident' \ {model[d]}) \in Nat
    BY ResidentFinite, FS_Subset, FS_CardinalityType
  <2>3. Evicting(d)' => (Resident \ {model[d]} \subseteq kept)'
    BY DEF BoundInv, KeptInv, KeptFor
  <2>4. Granted(d)' => (Cardinality(Resident \ {model[d]}) <= MaxLoadedModels - 1)'
    BY <2>1, <2>2, ResidentFinite DEF BoundInv, KeptInv, KeptFor
  <2> QED
    BY <2>3, <2>4 DEF KeptFor
<1>3. Cardinality(Resident') \in Nat
  BY ResidentFinite, FS_Subset, FS_CardinalityType
<1> QED
  BY <1>1, <1>2, <1>3, ResidentFinite DEF BoundInv, KeptInv

\* The load lock admits one client to the load sequence.
LEMMA OneLoader ==
  ASSUME LockInv, SerializeLoad, NEW c \in Clients, NEW d \in Clients,
         pc[c] \in LoadPcs, pc[d] \in LoadPcs
  PROVE  c = d
  BY DEF LockInv, LoadLockInv

LEMMA BoundInit == Init => BoundInv
<1> SUFFICES ASSUME Init PROVE BoundInv
  OBVIOUS
<1>1. Resident = {}
  BY DEF Init, Resident
<1> QED
  BY <1>1, FS_EmptySet DEF Init, BoundInv, KeptInv, KeptFor, Evicting, Granted

LEMMA BoundStep == LockInv /\ BoundInv /\ [Next]_vars => BoundInv'
<1> SUFFICES ASSUME LockInv, BoundInv, [Next]_vars PROVE BoundInv'
  OBVIOUS
<1> USE DEF Evicting, Granted, Goto, evictVars
<1>t. TypeOK
  BY DEF LockInv
<1>1. ASSUME NEW m \in Models, StartupRegister(m) PROVE BoundInv'
  BY <1>1, HarmlessStep DEF StartupRegister, Resident
<1>2. ASSUME NEW m \in Models, StartupLoad(m) PROVE BoundInv'
  <2>1. Resident' = Resident \cup {m}
    BY <1>2, <1>t DEF StartupLoad, BecomesResident, Resident, TypeOK
  <2>2. MaxLoadedModels > 0 => Cardinality(Resident) < MaxLoadedModels
    BY <1>2, ResidentFinite DEF StartupLoad, AtLimit
  <2>3. Cardinality(Resident') <= Cardinality(Resident) + 1 /\ Cardinality(Resident') \in Nat
    <3>1. Cardinality(Resident \cup {m}) =
            IF m \in Resident THEN Cardinality(Resident) ELSE Cardinality(Resident) + 1
      BY ResidentFinite, FS_AddElement
    <3> QED
      BY <2>1, <3>1, ResidentFinite
  <2>4. \A c \in Clients : pc'[c] = "ready"
    BY <1>2 DEF StartupLoad, LockInv, StartupInv
  <2> QED
    BY <2>2, <2>3, <2>4, ResidentFinite DEF BoundInv, KeptInv, KeptFor
<1>3. ASSUME NEW c \in Clients, NEW m \in Models, RunRequest(c, m) PROVE BoundInv'
  BY <1>3, <1>t, HarmlessStep DEF RunRequest, Resident, TypeOK
<1>4. ASSUME NEW c \in Clients, NEW requested \in SUBSET Models, UnloadRequest(c, requested)
      PROVE BoundInv'
  BY <1>4, <1>t, HarmlessStep DEF UnloadRequest, Resident, TypeOK
<1>5. ASSUME NEW c \in Clients, Ensure(c) PROVE BoundInv'
  BY <1>5, <1>t, HarmlessStep DEF Ensure, Resident, TypeOK, SerializeLoad
<1>6. ASSUME NEW c \in Clients, EvictSnapshot(c) PROVE BoundInv'
  <2>1. Resident' = Resident
    BY <1>6 DEF EvictSnapshot, Resident
  <2>2. ASSUME NEW d \in Clients, d # c PROVE KeptFor(d)'
    <3>1. ~Evicting(d) /\ ~Granted(d)
      BY <1>6, <2>2, OneLoader DEF EvictSnapshot, LoadPcs, LockInv, LoadLockInv
    <3>2. pc'[d] = pc[d]
      BY <1>6, <1>t, <2>2 DEF EvictSnapshot, TypeOK
    <3> QED
      BY <3>1, <3>2 DEF KeptFor
  <2>3. KeptFor(c)'
    <3>1. CASE ToEvict(Resident \ {model[c]}) <= 0
      <4>0. pc' = [pc EXCEPT ![c] = "fits"] /\ model' = model
        BY <1>6, <3>1, Zenon DEF EvictSnapshot
      <4>1. pc'[c] = "fits" /\ model'[c] = model[c]
        BY <1>t, <4>0 DEF TypeOK
      <4>2. Cardinality(Resident \ {model[c]}) \in Nat
        BY ResidentFinite
      <4>3. Cardinality(Resident \ {model[c]}) <= MaxLoadedModels - 1
        BY <3>1, <4>2 DEF ToEvict
      <4> QED
        BY <2>1, <4>1, <4>3 DEF KeptFor
    <3>2. CASE ~(ToEvict(Resident \ {model[c]}) <= 0)
      BY <1>6, <1>t, <2>1, <3>2 DEF EvictSnapshot, KeptFor, TypeOK
    <3> QED
      BY <3>1, <3>2
  <2> QED
    BY <2>1, <2>2, <2>3 DEF BoundInv, KeptInv
<1>7. ASSUME NEW c \in Clients, EvictSort(c) \/ EvictSorted(c) PROVE BoundInv'
  BY <1>7, <1>t, HarmlessStep DEF EvictSort, EvictSorted, Resident, TypeOK
<1>8. ASSUME NEW c \in Clients, NEW m \in Models, EvictTry(c, m) PROVE BoundInv'
  BY <1>8, <1>t, HarmlessStep DEF EvictTry, Resident, TypeOK
<1>9. ASSUME NEW c \in Clients, EvictUnload(c) PROVE BoundInv'
  <2>1. Resident' = Resident \ {victim}
    BY <1>9, <1>t DEF EvictUnload, Unload, Resident, TypeOK
  <2>2. Cardinality(Resident') <= Cardinality(Resident) /\ Cardinality(Resident') \in Nat
    BY <2>1, ResidentFinite, FS_Subset
  <2>3. ASSUME NEW d \in Clients, d # c PROVE KeptFor(d)'
    <3>1. ~Evicting(d) /\ ~Granted(d)
      BY <1>9, <2>3, OneLoader DEF EvictUnload, LoadPcs, LockInv, LoadLockInv
    <3> QED
      BY <1>9, <1>t, <2>3, <3>1 DEF EvictUnload, KeptFor, TypeOK
  <2>4. KeptFor(c)'
    BY <1>9, <1>t, <2>1 DEF EvictUnload, KeptFor, BoundInv, KeptInv, TypeOK
  <2> QED
    BY <2>2, <2>3, <2>4, ResidentFinite DEF BoundInv, KeptInv
<1>10. ASSUME NEW c \in Clients, EvictDone(c) PROVE BoundInv'
  <2>1. Resident' = Resident
    BY <1>10 DEF EvictDone, Resident
  <2>2. ASSUME NEW d \in Clients, d # c PROVE KeptFor(d)'
    BY <1>10, <1>t, <2>1, <2>2 DEF EvictDone, KeptFor, BoundInv, KeptInv, TypeOK
  <2>3. Cardinality(Resident \ {model[c]}) <= Cardinality(kept) /\ Cardinality(kept) \in Nat
    BY <1>10, <1>t, FS_Subset, FS_CardinalityType
    DEF EvictDone, BoundInv, KeptInv, KeptFor, TypeOK
  <2>4. KeptFor(c)'
    BY <1>10, <1>t, <2>1, <2>3, ResidentFinite DEF EvictDone, KeptFor, ToEvict, TypeOK
  <2> QED
    BY <2>1, <2>2, <2>4 DEF BoundInv, KeptInv
<1>11. ASSUME NEW c \in Clients, EvictFail(c) \/ InsufficientMemory(c) \/ LoadFails(c)
       PROVE BoundInv'
  <2>1. Resident' = Resident
    BY <1>11 DEF EvictFail, InsufficientMemory, LoadFails, Resident
  <2>2. pc' = [pc EXCEPT ![c] = "ready"] /\ model' = [model EXCEPT ![c] = Nobody]
    BY <1>11 DEF EvictFail, InsufficientMemory, LoadFails, Finish
  <2>3. pc[c] \in LoadPcs
    BY <1>11 DEF EvictFail, InsufficientMemory, LoadFails, LoadPcs
  <2>4. \A d \in Clients : Evicting(d)' => Evicting(d) /\ d # c
    BY <1>t, <2>2 DEF TypeOK
  <2>5. \A d \in Clients \ {c} : ~Evicting(d) \/ kept' = kept
    <3>1. SerializeLoad => \A d \in Clients \ {c} : ~Evicting(d)
      BY <2>3, OneLoader DEF LoadPcs
    <3>2. ~SerializeLoad => \A d \in Clients : ~Evicting(d)
      BY DEF LockInv, LoadLockInv, LoadPcs
    <3> QED
      BY <3>1, <3>2
  <2> QED
    BY <1>t, <2>1, <2>2, <2>4, <2>5, HarmlessStep DEF TypeOK
<1>12. ASSUME NEW c \in Clients, FitsMemory(c) PROVE BoundInv'
  BY <1>12, <1>t, HarmlessStep DEF FitsMemory, Resident, TypeOK
<1>13. ASSUME NEW c \in Clients, Load(c) PROVE BoundInv'
  <2>1. Resident' = (Resident \ {model[c]}) \cup {model[c]}
    BY <1>13, <1>t
    DEF Load, BecomesResident, Resident, TypeOK, LockInv, BusyInv, HoldsBusyPcs, LoadPcs
  <2>2. Cardinality(Resident') = Cardinality(Resident \ {model[c]}) + 1
    BY <2>1, ResidentFinite, FS_AddElement
  <2>3. MaxLoadedModels > 0 => Cardinality(Resident') <= MaxLoadedModels
    <3>1. Cardinality(Resident \ {model[c]}) \in Nat
      BY ResidentFinite
    <3>2. MaxLoadedModels > 0 => Cardinality(Resident \ {model[c]}) <= MaxLoadedModels - 1
      <4>1. KeptFor(c) /\ pc[c] = "load"
        BY <1>13 DEF Load, BoundInv, KeptInv
      <4> QED
        BY <4>1 DEF KeptFor
    <3> QED
      BY <2>2, <3>1, <3>2, LimitsAssumption
  <2>4. ASSUME NEW d \in Clients, d # c PROVE ~Evicting(d)' /\ ~Granted(d)'
    <3>1. SerializeLoad => ~Evicting(d) /\ ~Granted(d)
      BY <1>13, <2>4, OneLoader DEF Load, LoadPcs
    <3>2. ~SerializeLoad => ~Evicting(d) /\ ~Granted(d)
      BY DEF LockInv, LoadLockInv, LoadPcs, SerializeLoad
    <3> QED
      BY <1>13, <1>t, <2>4, <3>1, <3>2 DEF Load, TypeOK
  <2>5. ~Evicting(c)' /\ ~Granted(c)'
    BY <1>13, <1>t DEF Load, TypeOK
  <2> QED
    BY <2>3, <2>4, <2>5 DEF BoundInv, KeptInv, KeptFor
<1>14. ASSUME NEW c \in Clients, RunEnds(c) \/ RunFails(c) PROVE BoundInv'
  BY <1>14, <1>t, HarmlessStep DEF RunEnds, RunFails, Finish, Resident, TypeOK
<1>15. ASSUME NEW c \in Clients, NEW m \in Models, UnloadNext(c, m) PROVE BoundInv'
  BY <1>15, <1>t, HarmlessStep DEF UnloadNext, Resident, TypeOK
<1>16. ASSUME NEW c \in Clients, UnloadModel(c) PROVE BoundInv'
  BY <1>16, <1>t, HarmlessStep DEF UnloadModel, Unload, Resident, TypeOK
<1>17. ASSUME NEW c \in Clients, UnloadDone(c) PROVE BoundInv'
  BY <1>17, <1>t, HarmlessStep DEF UnloadDone, Resident, TypeOK
<1>18. ASSUME NEW c \in Clients, AcquireRun(c) \/ UnloadAcquire(c) PROVE BoundInv'
  BY <1>18, <1>t, HarmlessStep DEF AcquireRun, UnloadAcquire, Resident, TypeOK
<1>19. ASSUME NEW c \in Clients, AcquireTimeout(c) PROVE BoundInv'
  BY <1>19, <1>t, HarmlessStep DEF AcquireTimeout, Resident, TypeOK
<1>20. ASSUME NEW c \in Clients, LockLoad(c) PROVE BoundInv'
  BY <1>20, <1>t, HarmlessStep DEF LockLoad, Resident, TypeOK
<1>21. CASE IdleWake \/ IdleScan \/ IdleSleep \/ Tick \/ UNCHANGED vars
  BY <1>21, HarmlessStep DEF IdleWake, IdleScan, IdleSleep, Tick, vars, Resident
<1>22. ASSUME NEW m \in Models, IdleTry(m) PROVE BoundInv'
  BY <1>22, HarmlessStep DEF IdleTry, Resident
<1>23. CASE IdleUnload
  BY <1>23, <1>t, HarmlessStep DEF IdleUnload, Unload, Resident, evictVars, TypeOK
<1> QED
  BY <1>1, <1>2, <1>3, <1>4, <1>5, <1>6, <1>7, <1>8, <1>9, <1>10, <1>11, <1>12, <1>13,
     <1>14, <1>15, <1>16, <1>17, <1>18, <1>19, <1>20, <1>21, <1>22, <1>23
  DEF Next, Startup, Arrival, Proceed, Evict, Inference, Idle

\* Type correctness, for any models, clients and limits; recorded times are
\* never in the future.
THEOREM ResidencyTypes == Spec => []TypeOK
<1>1. LockInv => TypeOK
  BY DEF LockInv
<1> QED
  BY LockInit, LockStep, <1>1, PTL DEF Spec

\* A running inference keeps its model and has it to itself, whatever the
\* other requests, the evictions and the idle thread do.
THEOREM RunningModelStays == Spec => []NeverUnloadedMidRun
<1>1. LockInv => NeverUnloadedMidRun
  BY DEF LockInv, BusyInv, RunInv, NeverUnloadedMidRun, HoldsBusyPcs
<1> QED
  BY LockInit, LockStep, <1>1, PTL DEF Spec

\* max_loaded_models bounds the models in memory, the one being loaded included.
THEOREM ResidencyBounded == Spec => []ResidentBound
<1>1. ASSUME LockInv, BoundInv, MaxLoadedModels > 0
      PROVE  Cardinality(Occupied) <= MaxLoadedModels
  <2>1. CASE \A c \in Clients : pc[c] # "load"
    <3>1. Occupied = Resident
      BY <2>1 DEF Occupied
    <3> QED
      BY <1>1, <3>1 DEF BoundInv
  <2>2. ASSUME NEW c \in Clients, pc[c] = "load"
        PROVE  Cardinality(Occupied) <= MaxLoadedModels
    <3>1. \A d \in Clients : pc[d] = "load" => d = c
      BY <1>1, <2>2, OneLoader DEF LoadPcs, SerializeLoad
    <3>2. Occupied = (Resident \ {model[c]}) \cup {model[c]}
      BY <2>2, <3>1 DEF Occupied
    <3>3. Cardinality(Occupied) = Cardinality(Resident \ {model[c]}) + 1
      BY <3>2, ResidentFinite, FS_AddElement
    <3>4. Cardinality(Resident \ {model[c]}) <= MaxLoadedModels - 1
      BY <1>1, <2>2 DEF BoundInv, KeptInv, KeptFor, Granted
    <3>5. Cardinality(Resident \ {model[c]}) \in Nat
      BY ResidentFinite
    <3> QED
      BY <1>1, <3>3, <3>4, <3>5
  <2> QED
    BY <2>1, <2>2
<1>2. LockInv /\ BoundInv => ResidentBound
  BY <1>1 DEF ResidentBound
<1> QED
  BY LockInit, LockStep, BoundInit, BoundStep, <1>2, PTL DEF Spec

----------------------------------------------------------------------------
(* The memory guard.                                                       *)

LEMMA MemoryInit == Init => MemoryInv
  BY DEF Init, MemoryInv

LEMMA MemoryStep == LockInv /\ MemoryInv /\ [Next]_vars => MemoryInv'
<1> SUFFICES ASSUME LockInv, MemoryInv, [Next]_vars, MinFreeMemory > 0
             PROVE  MemoryInv'
  BY DEF MemoryInv
<1>t. TypeOK /\ SerializeLoad
  BY DEF LockInv, SerializeLoad
<1>m. \A c \in Clients : pc[c] = "load" /\ model[c] \in Estimable =>
        model[c] \in Models /\ Estimate[model[c]] + MinFreeMemory <= free
  BY DEF MemoryInv, LockInv, BusyInv, HoldsBusyPcs, LoadPcs
\* A step that takes no memory and lets no client pass the check.
<1>h. ASSUME free' >= free, free' \in Int,
             \A c \in Clients : pc'[c] = "load" => pc[c] = "load" /\ model'[c] = model[c]
      PROVE  MemoryInv'
  <2>1. ASSUME NEW c \in Clients, pc'[c] = "load", model'[c] \in Estimable
        PROVE  Estimate[model'[c]] + MinFreeMemory <= free'
    <3>1. Estimate[model[c]] + MinFreeMemory <= free /\ model'[c] = model[c]
          /\ Estimate[model[c]] \in Nat
      BY <1>h, <1>m, <2>1
    <3> QED
      BY <1>h, <1>t, <3>1 DEF TypeOK
  <2> QED
    BY <2>1 DEF MemoryInv
<1> USE <1>t DEF TypeOK, Goto
<1>1. ASSUME NEW m \in Models, StartupRegister(m) PROVE MemoryInv'
  BY <1>1, <1>h DEF StartupRegister, MemoryInv
<1>2. ASSUME NEW m \in Models, StartupLoad(m) PROVE MemoryInv'
  <2>1. \A c \in Clients : pc'[c] = "ready"
    BY <1>2 DEF StartupLoad, LockInv, StartupInv
  <2> QED
    BY <2>1 DEF MemoryInv
<1>3. ASSUME NEW c \in Clients, NEW m \in Models, RunRequest(c, m) PROVE MemoryInv'
  BY <1>3, <1>h DEF RunRequest, MemoryInv
<1>4. ASSUME NEW c \in Clients, NEW requested \in SUBSET Models, UnloadRequest(c, requested)
      PROVE MemoryInv'
  BY <1>4, <1>h DEF UnloadRequest, MemoryInv
<1>5. ASSUME NEW c \in Clients, Ensure(c) PROVE MemoryInv'
  BY <1>5, <1>h DEF Ensure, MemoryInv
<1>6. ASSUME NEW c \in Clients, EvictSnapshot(c) PROVE MemoryInv'
  BY <1>6, <1>h DEF EvictSnapshot, MemoryInv
<1>7. ASSUME NEW c \in Clients, EvictSort(c) \/ EvictSorted(c) \/ EvictDone(c)
      PROVE MemoryInv'
  <2>1. free' = free /\ model' = model
    BY <1>7 DEF EvictSort, EvictSorted, EvictDone
  <2>2. \/ pc' = [pc EXCEPT ![c] = "sorting"]
        \/ pc' = [pc EXCEPT ![c] = "evict"]
        \/ pc' = [pc EXCEPT ![c] = "fits"]
    BY <1>7 DEF EvictSort, EvictSorted, EvictDone
  <2> QED
    BY <1>h, <2>1, <2>2
<1>8. ASSUME NEW c \in Clients, NEW m \in Models, EvictTry(c, m) PROVE MemoryInv'
  BY <1>8, <1>h DEF EvictTry, MemoryInv
<1>u. ASSUME NEW m \in Models, Unload(m) PROVE free' >= free /\ free' \in Int
  <2>1. Footprint[m] \in Nat
    BY <1>u
  <2> QED
    BY <1>u, <2>1 DEF Unload
<1>9. ASSUME NEW c \in Clients, EvictUnload(c) PROVE MemoryInv'
  <2>1. free' >= free /\ free' \in Int
    BY <1>9, <1>u DEF EvictUnload, LockInv, VictimInv
  <2> QED
    BY <1>9, <1>h, <2>1 DEF EvictUnload, MemoryInv
<1>10. ASSUME NEW c \in Clients, EvictFail(c) \/ InsufficientMemory(c) \/ LoadFails(c)
       PROVE MemoryInv'
  <2>1. free' = free /\ pc' = [pc EXCEPT ![c] = "ready"] /\ model' = [model EXCEPT ![c] = Nobody]
    BY <1>10 DEF EvictFail, InsufficientMemory, LoadFails, Finish
  <2> QED
    BY <1>h, <2>1 DEF MemoryInv
<1>11. ASSUME NEW c \in Clients, FitsMemory(c) PROVE MemoryInv'
  <2>1. pc' = [pc EXCEPT ![c] = "load"] /\ model' = model /\ free' = free
    BY <1>11 DEF FitsMemory
  <2>2. model[c] \in Estimable => Estimate[model[c]] + MinFreeMemory <= free
    BY <1>11 DEF FitsMemory, Fits
  <2> QED
    BY <1>m, <2>1, <2>2 DEF MemoryInv
<1>12. ASSUME NEW c \in Clients, Load(c) PROVE MemoryInv'
  <2>1. \A d \in Clients : pc'[d] # "load"
    BY <1>12, OneLoader DEF Load, LoadPcs
  <2> QED
    BY <2>1 DEF MemoryInv
<1>13. ASSUME NEW c \in Clients, RunEnds(c) \/ RunFails(c) PROVE MemoryInv'
  BY <1>13, <1>h DEF RunEnds, RunFails, Finish, MemoryInv
<1>14. ASSUME NEW c \in Clients, NEW m \in Models, UnloadNext(c, m) PROVE MemoryInv'
  BY <1>14, <1>h DEF UnloadNext, MemoryInv
<1>15. ASSUME NEW c \in Clients, UnloadModel(c) PROVE MemoryInv'
  <2>1. free' >= free /\ free' \in Int
    BY <1>15, <1>u DEF UnloadModel, LockInv, BusyInv, HoldsBusyPcs
  <2> QED
    BY <1>15, <1>h, <2>1 DEF UnloadModel, MemoryInv
<1>16. ASSUME NEW c \in Clients, AcquireRun(c) \/ UnloadAcquire(c) \/ UnloadDone(c)
       PROVE MemoryInv'
  BY <1>16, <1>h DEF AcquireRun, UnloadAcquire, UnloadDone, MemoryInv
<1>17. ASSUME NEW c \in Clients, AcquireTimeout(c) PROVE MemoryInv'
  BY <1>17, <1>h DEF AcquireTimeout, MemoryInv
<1>18. ASSUME NEW c \in Clients, LockLoad(c) PROVE MemoryInv'
  BY <1>18, <1>h DEF LockLoad, MemoryInv
<1>19. ASSUME IdleWake \/ IdleScan \/ IdleSleep \/ Tick \/ UNCHANGED vars PROVE MemoryInv'
  BY <1>19, <1>h DEF IdleWake, IdleScan, IdleSleep, Tick, vars, MemoryInv
<1>20. ASSUME NEW m \in Models, IdleTry(m) PROVE MemoryInv'
  BY <1>20, <1>h DEF IdleTry, MemoryInv
<1>21. ASSUME IdleUnload PROVE MemoryInv'
  <2>1. free' >= free /\ free' \in Int
    BY <1>21, <1>u DEF IdleUnload, LockInv, VictimInv
  <2> QED
    BY <1>21, <1>h, <2>1 DEF IdleUnload, MemoryInv
<1> HIDE <1>t DEF TypeOK, Goto
<1>22. ASSUME NEW c \in Clients, Proceed(c) PROVE MemoryInv'
  <2>1. ASSUME Evict(c) PROVE MemoryInv'
    BY <2>1, <1>6, <1>7, <1>8, <1>9, <1>10 DEF Evict
  <2> QED
    BY <1>22, <2>1, <1>5, <1>10, <1>11, <1>12, <1>14, <1>15, <1>16 DEF Proceed
<1>23. ASSUME Startup \/ Idle PROVE MemoryInv'
  BY <1>23, <1>1, <1>2, <1>19, <1>20, <1>21 DEF Startup, Idle
<1> QED
  BY <1>3, <1>4, <1>13, <1>16, <1>17, <1>18, <1>19, <1>22, <1>23 DEF Next, Arrival, Inference

\* A model of known size is loaded only into memory that leaves the configured
\* headroom, whatever else is loaded or unloaded meanwhile.
THEOREM HeadroomIsKept == Spec => HeadroomKept
<1>1. LockInv /\ MemoryInv /\ [Next]_vars =>
        [\A c \in Clients : MinFreeMemory > 0 /\ Load(c) /\ model[c] \in Estimable
           => free' >= MinFreeMemory]_vars
  <2> SUFFICES ASSUME LockInv, MemoryInv, NEW c \in Clients, MinFreeMemory > 0, Load(c),
                      model[c] \in Estimable
               PROVE  free' >= MinFreeMemory
    OBVIOUS
  <2>1. /\ model[c] \in Models
        /\ Estimate[model[c]] + MinFreeMemory <= free
        /\ free' = free - Footprint[model[c]]
    BY DEF MemoryInv, Load, BecomesResident
  <2>2. /\ Footprint[model[c]] \in Nat
        /\ Estimate[model[c]] \in Nat
        /\ Footprint[model[c]] <= Estimate[model[c]]
    BY <2>1
  <2>3. free \in Int
    BY DEF LockInv, TypeOK
  <2> QED
    BY <2>1, <2>2, <2>3
<1> QED
  BY LockInit, LockStep, MemoryInit, MemoryStep, <1>1, PTL DEF Spec, HeadroomKept

----------------------------------------------------------------------------
(* Evictions go by the time of last use.                                   *)

\* Use times only move on after the sort has read them, and the model being
\* unloaded came first among those not tried.
LruInv ==
  /\ \A m \in Models : stamp[m] <= lastUsed[m]
  /\ \A c \in Clients : pc[c] = "unload_victim" /\ sorted =>
       \A m \in untried : stamp[victim] <= stamp[m]

LEMMA LruInit == Init => LruInv
  BY DEF Init, LruInv

LEMMA LruStep == LockInv /\ LruInv /\ [Next]_vars => LruInv'
<1> SUFFICES ASSUME LockInv, LruInv, [Next]_vars PROVE LruInv'
  OBVIOUS
<1>t. TypeOK
  BY DEF LockInv
\* Two clients never evict at once.
<1>o. \A c, d \in Clients : Evicting(c) /\ Evicting(d) => c = d
  BY DEF LockInv, LoadLockInv, Evicting, LoadPcs, SerializeLoad
<1> USE DEF Goto
\* Neither the sort's result nor a place in the eviction changes.
<1>k. ASSUME stamp' = stamp, untried' = untried, victim' = victim, sorted' = sorted,
             \A m \in Models : lastUsed'[m] \in Nat /\ lastUsed[m] <= lastUsed'[m],
             \A c \in Clients : pc'[c] = "unload_victim" => pc[c] = "unload_victim"
      PROVE  LruInv'
  BY <1>k, <1>t DEF LruInv, TypeOK
<1>1. ASSUME NEW m \in Models, StartupRegister(m) \/ StartupLoad(m) PROVE LruInv'
  BY <1>1, <1>t, <1>k DEF StartupRegister, StartupLoad, Touch, TypeOK, evictVars
<1>2. ASSUME NEW c \in Clients, Ensure(c) PROVE LruInv'
  BY <1>2, <1>t, <1>k DEF Ensure, Touch, TypeOK, evictVars
<1>3. ASSUME NEW c \in Clients,
             \/ \E m \in Models : RunRequest(c, m) \/ UnloadNext(c, m)
             \/ \E requested \in SUBSET Models : UnloadRequest(c, requested)
             \/ AcquireRun(c) \/ AcquireTimeout(c) \/ LockLoad(c) \/ UnloadAcquire(c)
             \/ EvictDone(c) \/ FitsMemory(c) \/ RunEnds(c) \/ RunFails(c)
             \/ UnloadModel(c) \/ UnloadDone(c)
      PROVE  LruInv'
  <2>1. /\ stamp' = stamp /\ untried' = untried /\ victim' = victim /\ sorted' = sorted
        /\ lastUsed' = lastUsed
    BY <1>3 DEF RunRequest, UnloadNext, UnloadRequest, AcquireRun, AcquireTimeout, LockLoad,
      UnloadAcquire, EvictDone, FitsMemory, RunEnds, RunFails, UnloadModel, UnloadDone, Finish,
      evictVars
  <2>2. \A d \in Clients : pc'[d] = "unload_victim" => pc[d] = "unload_victim"
    BY <1>3, <1>t DEF RunRequest, UnloadNext, UnloadRequest, AcquireRun, AcquireTimeout,
      LockLoad, UnloadAcquire, EvictDone, FitsMemory, RunEnds, RunFails, UnloadModel,
      UnloadDone, Finish, TypeOK
  <2> QED
    BY <2>1, <2>2, <1>t, <1>k DEF TypeOK
<1>4. ASSUME NEW c \in Clients, EvictSnapshot(c) PROVE LruInv'
  <2>1. \A d \in Clients : pc'[d] # "unload_victim"
    BY <1>4, <1>t DEF EvictSnapshot, TypeOK, LockInv, LoadLockInv, LoadPcs, SerializeLoad
  <2>2. stamp' = stamp /\ lastUsed' = lastUsed
    BY <1>4 DEF EvictSnapshot, evictVars
  <2> QED
    BY <2>1, <2>2 DEF LruInv
<1>5. ASSUME NEW c \in Clients, EvictSort(c) \/ EvictSorted(c) PROVE LruInv'
  <2>1. \A d \in Clients : pc'[d] # "unload_victim"
    BY <1>5, <1>t, <1>o DEF EvictSort, EvictSorted, TypeOK, Evicting
  <2>2. lastUsed' = lastUsed /\ (stamp' = lastUsed \/ stamp' = stamp)
    BY <1>5 DEF EvictSort, EvictSorted
  <2> QED
    BY <1>t, <2>1, <2>2 DEF LruInv, TypeOK
<1>6. ASSUME NEW c \in Clients, NEW m \in Models, EvictTry(c, m) PROVE LruInv'
  <2>1. \A d \in Clients \ {c} : pc'[d] # "unload_victim"
    BY <1>6, <1>t, <1>o DEF EvictTry, TypeOK, Evicting
  <2>2. /\ stamp' = stamp /\ lastUsed' = lastUsed /\ untried' \subseteq untried
        /\ pc[c] = "evict" /\ NextVictim(m) /\ sorted' = sorted
    BY <1>6 DEF EvictTry
  <2>3. pc'[c] = "unload_victim" => victim' = m
    BY <1>6, <1>t DEF EvictTry, TypeOK
  <2> QED
    BY <2>1, <2>2, <2>3 DEF LruInv, NextVictim
<1>7. ASSUME NEW c \in Clients, EvictUnload(c) PROVE LruInv'
  <2>1. \A d \in Clients : pc'[d] # "unload_victim"
    BY <1>7, <1>t, <1>o DEF EvictUnload, TypeOK, Evicting
  <2> QED
    BY <1>7, <2>1 DEF EvictUnload, LruInv
<1>8. ASSUME NEW c \in Clients, EvictFail(c) \/ InsufficientMemory(c) PROVE LruInv'
  <2>1. \A d \in Clients : pc'[d] # "unload_victim"
    BY <1>8, <1>t DEF EvictFail, InsufficientMemory, Finish, TypeOK, LockInv, LoadLockInv,
      LoadPcs, SerializeLoad
  <2>2. NoEviction /\ lastUsed' = lastUsed
    BY <1>8 DEF EvictFail, InsufficientMemory, Finish
  <2> QED
    BY <2>1, <2>2, <1>t DEF LruInv, NoEviction, TypeOK
<1>9. ASSUME NEW c \in Clients, Load(c) \/ LoadFails(c) PROVE LruInv'
  <2>1. lastUsed' = lastUsed /\ (NoEviction \/ UNCHANGED evictVars)
    BY <1>9 DEF Load, LoadFails, Finish
  <2>2. NoEviction => \A d \in Clients : pc'[d] # "unload_victim"
    BY <1>9, <1>t DEF Load, LoadFails, Finish, TypeOK, LockInv, LoadLockInv,
      LoadPcs, SerializeLoad
  <2>3. \A d \in Clients : pc'[d] = "unload_victim" => pc[d] = "unload_victim"
    BY <1>9, <1>t DEF Load, LoadFails, Finish, TypeOK
  <2>4. CASE NoEviction
    BY <2>1, <2>2, <2>4, <1>t DEF LruInv, NoEviction, TypeOK
  <2>5. CASE UNCHANGED evictVars
    BY <2>1, <2>3, <2>5, <1>t, <1>k DEF evictVars, TypeOK
  <2> QED
    BY <2>1, <2>4, <2>5
<1>10. ASSUME \/ IdleWake \/ IdleScan \/ IdleUnload \/ IdleSleep \/ Tick \/ UNCHANGED vars
              \/ \E m \in Models : IdleTry(m)
       PROVE  LruInv'
  <2>1. /\ stamp' = stamp /\ untried' = untried /\ victim' = victim
        /\ sorted' = sorted /\ lastUsed' = lastUsed /\ pc' = pc
    BY <1>10 DEF IdleWake, IdleScan, IdleUnload, IdleSleep, IdleTry, Tick, vars, evictVars
  <2> QED
    BY <2>1 DEF LruInv
<1> QED
  BY <1>1, <1>2, <1>3, <1>4, <1>5, <1>6, <1>7, <1>8, <1>9, <1>10
  DEF Next, Startup, Arrival, Proceed, Evict, Inference, Idle

\* An eviction during whose sort no candidate was used unloads the least
\* recently used of the models left to try.
THEOREM LruIsRespected == Spec => LruRespected
<1>1. LockInv /\ LruInv /\ [Next]_vars =>
        [\A c \in Clients : EvictUnload(c) /\ sorted =>
           \A m \in untried : stamp[victim] <= lastUsed[m]]_vars
  <2> SUFFICES ASSUME LockInv, LruInv, NEW c \in Clients, EvictUnload(c), sorted,
                      NEW m \in untried
               PROVE  stamp[victim] <= lastUsed[m]
    OBVIOUS
  <2>1. stamp[victim] \in Nat /\ stamp[m] \in Nat /\ lastUsed[m] \in Nat /\ m \in Models
    BY DEF LockInv, TypeOK, VictimInv, EvictUnload
  <2>2. stamp[victim] <= stamp[m] /\ stamp[m] <= lastUsed[m]
    BY <2>1 DEF LruInv, EvictUnload
  <2> QED
    BY <2>1, <2>2
<1> QED
  BY LockInit, LockStep, LruInit, LruStep, <1>1, PTL DEF Spec, LruRespected

----------------------------------------------------------------------------
(* The server implements the pool of models its clients know.              *)

\* The abstract module counts the way this one does.
LEMMA SameCount == ASSUME NEW S PROVE Pool!Cardinality(S) = Cardinality(S)
  BY DEF Cardinality, Pool!Cardinality

LEMMA PoolStep == LockInv /\ BoundInv /\ [Next]_vars => [Pool!Next]_(Pool!vars)
<1> SUFFICES ASSUME LockInv, BoundInv, [Next]_vars
             PROVE  Pool!Next \/ (Resident' = Resident /\ Running' = Running)
  BY DEF Pool!vars
<1> USE DEF Goto
<1>t. TypeOK
  BY DEF LockInv
\* A step of a client that runs neither before nor after it.
<1>r. ASSUME NEW c \in Clients, pc[c] # "run", pc'[c] # "run",
             \A d \in Clients \ {c} : pc'[d] = pc[d] /\ model'[d] = model[d]
      PROVE  Running' = Running
  BY <1>r DEF Running
\* Unloading a model its guard's holder is not running.
<1>u. ASSUME NEW m \in Models, Unload(m), Running' = Running, m \notin Running
      PROVE  Pool!Next \/ (Resident' = Resident /\ Running' = Running)
  <2>1. CASE session[m]
    <3>1. m \in Resident \ Running /\ Resident' = Resident \ {m}
      BY <1>u, <1>t, <2>1 DEF Unload, Resident, TypeOK
    <3> QED
      BY <1>u, <3>1 DEF Pool!Next, Pool!Unload
  <2>2. CASE ~session[m]
    BY <1>u, <1>t, <2>2 DEF Unload, Resident, TypeOK
  <2> QED
    BY <2>1, <2>2
<1>g. ASSUME NEW m \in Models,
             \A c \in Clients : pc[c] = "run" => busy[m] # c
      PROVE  m \notin Running
  BY <1>g DEF Running, LockInv, BusyInv, HoldsBusyPcs
<1>1. ASSUME NEW m \in Models, StartupRegister(m)
      PROVE  Resident' = Resident /\ Running' = Running
  BY <1>1 DEF StartupRegister, Resident, Running
<1>2. ASSUME NEW m \in Models, StartupLoad(m)
      PROVE  Pool!Next \/ (Resident' = Resident /\ Running' = Running)
  <2>1. Resident' = Resident \cup {m} /\ Running' = Running
    BY <1>2, <1>t DEF StartupLoad, BecomesResident, Resident, Running, TypeOK
  <2>2. CASE m \in Resident
    BY <2>1, <2>2
  <2>3. CASE m \notin Resident
    <3>1. Cardinality(Resident \cup {m}) = Cardinality(Resident) + 1
      BY <2>3, ResidentFinite, FS_AddElement
    <3>2. MaxLoadedModels = 0 \/ Cardinality(Resident) < MaxLoadedModels
      BY <1>2, ResidentFinite DEF StartupLoad, AtLimit
    <3>3. Cardinality(Resident) \in Nat /\ MaxLoadedModels \in Nat
      BY ResidentFinite, LimitsAssumption
    <3>4. Pool!HasRoom(m)
      BY <3>1, <3>2, <3>3, SameCount DEF Pool!HasRoom
    <3>5. Pool!Load(m)
      BY <2>1, <2>3, <3>4 DEF Pool!Load
    <3> QED
      BY <3>5 DEF Pool!Next
  <2> QED
    BY <2>2, <2>3
<1>3. ASSUME NEW c \in Clients,
             \/ \E m \in Models : RunRequest(c, m) \/ UnloadNext(c, m) \/ EvictTry(c, m)
             \/ \E requested \in SUBSET Models : UnloadRequest(c, requested)
             \/ AcquireRun(c) \/ AcquireTimeout(c) \/ LockLoad(c) \/ UnloadAcquire(c)
             \/ EvictSnapshot(c) \/ EvictSort(c) \/ EvictSorted(c) \/ EvictDone(c)
             \/ EvictFail(c) \/ FitsMemory(c) \/ InsufficientMemory(c) \/ LoadFails(c) \/ UnloadDone(c)
      PROVE  Resident' = Resident /\ Running' = Running
  <2>1. session' = session
    BY <1>3 DEF RunRequest, UnloadNext, EvictTry, UnloadRequest, AcquireRun, AcquireTimeout,
      LockLoad, UnloadAcquire, EvictSnapshot, EvictSort, EvictSorted, EvictDone, EvictFail, FitsMemory,
      InsufficientMemory, LoadFails, UnloadDone
  <2>2. pc[c] # "run" /\ pc'[c] # "run"
    BY <1>3, <1>t DEF TypeOK, Finish, RunRequest, UnloadNext, EvictTry, UnloadRequest,
      AcquireRun, AcquireTimeout, LockLoad, UnloadAcquire, EvictSnapshot, EvictSort,
      EvictSorted, EvictDone, EvictFail, FitsMemory, InsufficientMemory, LoadFails, UnloadDone
  <2>3. \A d \in Clients \ {c} : pc'[d] = pc[d] /\ model'[d] = model[d]
    BY <1>3, <1>t DEF TypeOK, Finish, RunRequest, UnloadNext, EvictTry, UnloadRequest,
      AcquireRun, AcquireTimeout, LockLoad, UnloadAcquire, EvictSnapshot, EvictSort,
      EvictSorted, EvictDone, EvictFail, FitsMemory, InsufficientMemory, LoadFails, UnloadDone
  <2> QED
    BY <2>1, <2>2, <2>3, <1>r DEF Resident
<1>4. ASSUME NEW c \in Clients, Ensure(c)
      PROVE  Pool!Next \/ (Resident' = Resident /\ Running' = Running)
  <2>1. Resident' = Resident /\ model[c] \in Models /\ busy[model[c]] = c
    BY <1>4 DEF Ensure, Resident, LockInv, BusyInv, HoldsBusyPcs
  <2>2. CASE session[model[c]]
    <3>1. pc' = [pc EXCEPT ![c] = "run"] /\ model' = model /\ pc[c] = "ensure"
      BY <1>4, <2>2 DEF Ensure
    <3>2. Running' = Running \cup {model[c]}
      BY <1>t, <3>1 DEF Running, TypeOK
    <3>3. model[c] \notin Running
      BY <1>g, <2>1, <3>1
    <3>4. model[c] \in Resident
      BY <2>1, <2>2 DEF Resident
    <3> QED
      BY <2>1, <3>2, <3>3, <3>4 DEF Pool!Next, Pool!Begin
  <2>3. CASE ~session[model[c]]
    BY <1>4, <1>t, <1>r, <2>1, <2>3 DEF Ensure, TypeOK
  <2> QED
    BY <2>2, <2>3
<1>5. ASSUME NEW c \in Clients, EvictUnload(c)
      PROVE  Pool!Next \/ (Resident' = Resident /\ Running' = Running)
  <2>1. victim \in Models /\ busy[victim] = c /\ Unload(victim) /\ pc[c] = "unload_victim"
    BY <1>5 DEF EvictUnload, LockInv, VictimInv
  <2>2. Running' = Running
    BY <1>5, <1>t, <1>r DEF EvictUnload, TypeOK
  <2> QED
    BY <1>g, <1>u, <2>1, <2>2
<1>6. ASSUME NEW c \in Clients, UnloadModel(c)
      PROVE  Pool!Next \/ (Resident' = Resident /\ Running' = Running)
  <2>1. /\ model[c] \in Models /\ busy[model[c]] = c
        /\ Unload(model[c]) /\ pc[c] = "unload_model"
    BY <1>6 DEF UnloadModel, LockInv, BusyInv, HoldsBusyPcs
  <2>2. Running' = Running
    BY <1>6, <1>t, <1>r DEF UnloadModel, TypeOK
  <2> QED
    BY <1>g, <1>u, <2>1, <2>2
<1>7. ASSUME NEW c \in Clients, Load(c)
      PROVE  Pool!Next \/ (Resident' = Resident /\ Running' = Running)
  <2>1. /\ model[c] \in Models /\ busy[model[c]] = c /\ pc[c] = "load"
        /\ pc' = [pc EXCEPT ![c] = "run"] /\ model' = model
        /\ BecomesResident(model[c])
    BY <1>7 DEF Load, LockInv, BusyInv, HoldsBusyPcs, LoadPcs
  <2>2. Resident' = Resident \cup {model[c]} /\ Running' = Running \cup {model[c]}
    BY <1>t, <2>1 DEF BecomesResident, Resident, Running, TypeOK
  <2>3. model[c] \notin Running
    BY <1>g, <2>1
  <2>4. MaxLoadedModels = 0 \/ Cardinality(Resident \cup {model[c]}) <= MaxLoadedModels
    <3>1. Resident \cup {model[c]} = (Resident \ {model[c]}) \cup {model[c]}
      OBVIOUS
    <3>2. Cardinality(Resident \cup {model[c]}) = Cardinality(Resident \ {model[c]}) + 1
      BY <3>1, ResidentFinite, FS_AddElement
    <3>3. Cardinality(Resident \ {model[c]}) \in Nat
      BY ResidentFinite
    <3>4. MaxLoadedModels > 0 => Cardinality(Resident \ {model[c]}) <= MaxLoadedModels - 1
      BY <2>1 DEF BoundInv, KeptInv, KeptFor, Granted
    <3> QED
      BY <3>2, <3>3, <3>4, LimitsAssumption
  <2>5. Pool!Begin(model[c])
    BY <2>2, <2>3, <2>4, SameCount DEF Pool!Begin, Pool!HasRoom
  <2> QED
    BY <2>1, <2>5 DEF Pool!Next
<1>8. ASSUME NEW c \in Clients, RunEnds(c) \/ RunFails(c)
      PROVE  Pool!Next \/ (Resident' = Resident /\ Running' = Running)
  <2>1. /\ pc[c] = "run" /\ session' = session
        /\ pc' = [pc EXCEPT ![c] = "ready"] /\ model' = [model EXCEPT ![c] = Nobody]
    BY <1>8 DEF RunEnds, RunFails, Finish
  <2>2. \A d \in Clients : pc[d] = "run" => model[d] \in Models /\ busy[model[d]] = d
    BY DEF LockInv, BusyInv, HoldsBusyPcs
  <2>3. Resident' = Resident
    BY <2>1 DEF Resident
  <2>4. Running' = Running \ {model[c]}
    BY <1>t, <2>1, <2>2 DEF Running, TypeOK
  <2>5. model[c] \in Models /\ model[c] \in Running
    BY <2>1, <2>2 DEF Running
  <2> QED
    BY <2>3, <2>4, <2>5 DEF Pool!Next, Pool!End
<1>9. ASSUME \/ IdleWake \/ IdleScan \/ IdleSleep \/ Tick \/ UNCHANGED vars
             \/ \E m \in Models : IdleTry(m)
      PROVE  Resident' = Resident /\ Running' = Running
  BY <1>9 DEF IdleWake, IdleScan, IdleSleep, IdleTry, Tick, vars, Resident, Running
<1>10. ASSUME IdleUnload
       PROVE  Pool!Next \/ (Resident' = Resident /\ Running' = Running)
  <2>1. idleModel \in Models /\ busy[idleModel] = IdleThread /\ Unload(idleModel)
    BY <1>10 DEF IdleUnload, LockInv, VictimInv
  <2>2. Running' = Running
    BY <1>10 DEF IdleUnload, Running
  <2> QED
    BY <1>g, <1>u, <2>1, <2>2
<1> QED
  BY <1>1, <1>2, <1>3, <1>4, <1>5, <1>6, <1>7, <1>8, <1>9, <1>10
  DEF Next, Startup, Arrival, Proceed, Evict, Inference, Idle

\* Whatever the threads do, clients see a bounded pool of models.
THEOREM ServerIsAModelPool == Spec => IsModelPool
<1>1. Init => Pool!Init
  BY DEF Init, Pool!Init, Resident, Running
<1> QED
  BY LockInit, LockStep, BoundInit, BoundStep, PoolStep, <1>1, PTL
  DEF Spec, IsModelPool, Pool!Spec
----------------------------------------------------------------------------
(* Every wait for a lock ends: the converse of BusyInv and LoadLockInv.    *)

\* Whoever holds a lock is at a place that gives it back.
OwnerInv ==
  /\ \A m \in Models, c \in Clients : busy[m] = c =>
       \/ pc[c] \in HoldsBusyPcs /\ model[c] = m
       \/ pc[c] = "unload_victim" /\ victim = m
  /\ \A m \in Models : busy[m] = IdleThread => idlePc = "unload_idle" /\ idleModel = m
  /\ \A c \in Clients : loadLock = c => pc[c] \in LoadPcs

\* A step that moves no lock keeps OwnerInv if no holder leaves its place.
LEMMA OwnersStay ==
  ASSUME LockInv, OwnerInv, UNCHANGED <<busy, loadLock>>,
         \A c \in Clients :
           /\ pc[c] \in HoldsBusyPcs => pc'[c] \in HoldsBusyPcs /\ model'[c] = model[c]
           /\ pc[c] = "unload_victim" => pc'[c] = "unload_victim" /\ victim' = victim
           /\ pc[c] \in LoadPcs => pc'[c] \in LoadPcs,
         idlePc = "unload_idle" => idlePc' = "unload_idle" /\ idleModel' = idleModel
  PROVE  OwnerInv'
  BY DEF OwnerInv

LEMMA OwnerStep == LockInv /\ OwnerInv /\ [Next]_vars => OwnerInv'
<1> SUFFICES ASSUME LockInv, OwnerInv, [Next]_vars PROVE OwnerInv'
  OBVIOUS
<1>t. TypeOK
  BY DEF LockInv
<1> USE DEF HoldsBusyPcs, LoadPcs, Goto
<1>1. CASE Startup
  BY <1>1, OwnersStay DEF Startup, StartupRegister, StartupLoad, Touch, BecomesResident,
                          evictVars, idleVars
<1>2. ASSUME NEW c \in Clients, Arrival(c) PROVE OwnerInv'
  BY <1>2, <1>t, OwnersStay
  DEF Arrival, RunRequest, UnloadRequest, TypeOK, evictVars, idleVars
<1>3. ASSUME NEW c \in Clients,
             \/ EvictSnapshot(c) \/ EvictSort(c) \/ EvictDone(c) \/ FitsMemory(c)
             \/ AcquireTimeout(c) \/ UnloadDone(c)
             \/ \E m \in Models : UnloadNext(c, m)
      PROVE  OwnerInv'
  BY <1>3, <1>t, OwnersStay
  DEF EvictSnapshot, EvictSort, EvictDone, FitsMemory, AcquireTimeout, UnloadDone,
      UnloadNext, TypeOK, evictVars, idleVars
<1>s. ASSUME NEW c \in Clients, EvictSorted(c) PROVE OwnerInv'
  <2>1. /\ pc[c] = "sorting" /\ pc' = [pc EXCEPT ![c] = "evict"]
        /\ UNCHANGED <<busy, loadLock, model, victim, idlePc, idleModel>>
    BY <1>s DEF EvictSorted, idleVars
  <2> QED
    BY <1>t, <2>1, OwnersStay DEF TypeOK
<1>4. ASSUME NEW c \in Clients, Ensure(c) PROVE OwnerInv'
  BY <1>4, <1>t, OwnersStay DEF Ensure, Touch, TypeOK, evictVars, idleVars
<1>5. ASSUME NEW c \in Clients, NEW m \in Models, EvictTry(c, m) PROVE OwnerInv'
  <2>1. \A d \in Clients : pc[d] = "unload_victim" => loadLock = d
    BY DEF LockInv, LoadLockInv, SerializeLoad
  <2>2. \A d \in Clients : pc[d] # "unload_victim"
    BY <1>5, <2>1 DEF EvictTry, LockInv, LoadLockInv, SerializeLoad
  <2>3. CASE Unlocked(m)
    BY <1>5, <1>t, <2>2, <2>3
    DEF EvictTry, Unlocked, Hold, OwnerInv, TypeOK, Threads, idleVars
  <2>4. CASE ~Unlocked(m)
    BY <1>5, <2>2, <2>4, OwnersStay DEF EvictTry, idleVars
  <2> QED
    BY <2>3, <2>4
<1>6. ASSUME NEW c \in Clients, EvictUnload(c) PROVE OwnerInv'
  <2>1. victim # model[c] /\ busy[victim] = c
    BY <1>6 DEF EvictUnload, LockInv, VictimInv
  <2> QED
    BY <1>6, <1>t, <2>1 DEF EvictUnload, Release, OwnerInv, TypeOK, Threads, idleVars
<1>7. ASSUME NEW c \in Clients,
             EvictFail(c) \/ InsufficientMemory(c) \/ LoadFails(c) \/ RunEnds(c) \/ RunFails(c)
      PROVE  OwnerInv'
  <2>1. /\ pc[c] \in HoldsBusyPcs /\ pc[c] # "unload_victim"
        /\ pc' = [pc EXCEPT ![c] = "ready"]
        /\ model' = [model EXCEPT ![c] = Nobody]
        /\ busy' = [busy EXCEPT ![model[c]] = Nobody]
        /\ UNCHANGED idleVars
    BY <1>7
    DEF EvictFail, InsufficientMemory, LoadFails, RunEnds, RunFails, Finish, Release
  <2>2. \A d \in Clients : loadLock' = d => loadLock = d /\ d # c
    BY <1>7, <1>t
    DEF EvictFail, InsufficientMemory, LoadFails, RunEnds, RunFails, OwnerInv, TypeOK
  <2>3. \A d \in Clients : pc[d] = "unload_victim" => d # c /\ victim' = victim
    <3>1. SerializeLoad => \A d \in Clients : pc[d] \in LoadPcs => loadLock = d
      BY DEF LockInv, LoadLockInv
    <3>2. \A d \in Clients : pc[d] = "unload_victim" => SerializeLoad
      BY DEF LockInv, LoadLockInv
    <3> QED
      BY <1>7, <2>1, <3>1, <3>2
      DEF EvictFail, InsufficientMemory, LoadFails, RunEnds, RunFails, evictVars
  <2>4. \A d \in Clients : loadLock' = d => pc'[d] \in LoadPcs
    BY <1>t, <2>1, <2>2 DEF OwnerInv, TypeOK
  <2>5. \A m \in Models : busy'[m] = IdleThread => idlePc' = "unload_idle" /\ idleModel' = m
    BY <1>t, <2>1 DEF OwnerInv, TypeOK, idleVars
  <2>6. ASSUME NEW m \in Models, NEW d \in Clients, busy'[m] = d
        PROVE  \/ pc'[d] \in HoldsBusyPcs /\ model'[d] = m
               \/ pc'[d] = "unload_victim" /\ victim' = m
    <3>1. busy[m] = d /\ m # model[c]
      BY <1>t, <2>1, <2>6 DEF TypeOK
    <3>2. d # c
      BY <2>1, <3>1 DEF OwnerInv
    <3> QED
      BY <1>t, <2>1, <2>3, <3>1, <3>2 DEF OwnerInv, TypeOK
  <2> QED
    BY <2>4, <2>5, <2>6 DEF OwnerInv
<1>8. ASSUME NEW c \in Clients, Load(c) PROVE OwnerInv'
  <2>1. \A d \in Clients : pc[d] = "unload_victim" => loadLock = d
    BY DEF LockInv, LoadLockInv, SerializeLoad
  <2>2. \A d \in Clients : pc[d] = "unload_victim" => d # c /\ victim' = victim
    BY <1>8, <2>1 DEF Load, evictVars
  <2> QED
    BY <1>8, <1>t, <2>2 DEF Load, OwnerInv, TypeOK, idleVars
<1>9. ASSUME NEW c \in Clients, UnloadModel(c) PROVE OwnerInv'
  BY <1>9, <1>t
  DEF UnloadModel, Release, OwnerInv, TypeOK, Threads, evictVars, idleVars
<1>10. ASSUME NEW c \in Clients, AcquireRun(c) \/ UnloadAcquire(c) PROVE OwnerInv'
  BY <1>10, <1>t
  DEF AcquireRun, UnloadAcquire, Unlocked, Hold, OwnerInv, TypeOK, Threads, evictVars,
      idleVars
<1>11. ASSUME NEW c \in Clients, LockLoad(c) PROVE OwnerInv'
  BY <1>11, <1>t
  DEF LockLoad, LoadLockFree, OwnerInv, TypeOK, Threads, evictVars, idleVars
<1>12. ASSUME NEW m \in Models, IdleTry(m) PROVE OwnerInv'
  BY <1>12, <1>t DEF IdleTry, Unlocked, Hold, OwnerInv, TypeOK, Threads, evictVars
<1>13. CASE IdleUnload
  <2>1. idleModel \in Models /\ busy[idleModel] = IdleThread
    BY <1>13 DEF IdleUnload, LockInv, VictimInv
  <2> QED
    BY <1>13, <1>t, <2>1
    DEF IdleUnload, Release, OwnerInv, TypeOK, Threads, evictVars
<1>14. CASE IdleWake \/ IdleScan \/ IdleSleep
  BY <1>14, OwnersStay DEF IdleWake, IdleScan, IdleSleep, evictVars
<1>15. CASE Tick \/ UNCHANGED vars
  BY <1>15, OwnersStay DEF Tick, vars, evictVars, idleVars
<1> QED
  BY <1>1, <1>2, <1>3, <1>s, <1>4, <1>5, <1>6, <1>7, <1>8, <1>9, <1>10, <1>11, <1>12, <1>13,
     <1>14, <1>15
  DEF Next, Proceed, Evict, Inference, Idle

\* A guard's holder is in a run, unloading, in the load sequence or on its way
\* to it, and the load lock's holder is in the load sequence, which waits for
\* no lock: an eviction only tries the guards of its victims.
THEOREM EveryWaitEnds == Spec => []WaitsEnd
<1>1. Init => OwnerInv
  BY DEF Init, OwnerInv
<1>2. LockInv /\ OwnerInv => WaitsEnd
  <2> SUFFICES ASSUME LockInv, OwnerInv, NEW c \in Clients, NEW t \in WaitsFor(c)
               PROVE  \/ OnItsWay(t)
                      \/ /\ t \in Clients /\ pc[t] = "lock_load"
                         /\ \A u \in WaitsFor(t) : OnItsWay(u)
    BY DEF WaitsEnd
  <2>1. ASSUME NEW d \in Clients, pc[d] = "lock_load", NEW u \in WaitsFor(d)
        PROVE  OnItsWay(u)
    BY <2>1 DEF WaitsFor, OnItsWay, OwnerInv, LockInv, TypeOK, HoldsBusyPcs, LoadPcs
  <2>2. CASE pc[c] = "lock_load"
    BY <2>1, <2>2
  <2>3. CASE pc[c] \in {"acquire", "unload_wait"}
    <3>1. model[c] \in Models /\ t = busy[model[c]] /\ t # Nobody
      BY <2>3 DEF WaitsFor, LockInv, BusyInv
    <3>2. t \in Clients \/ t = IdleThread
      BY <3>1 DEF LockInv, TypeOK, Threads
    <3>3. CASE t = IdleThread
      BY <3>1, <3>3 DEF OwnerInv, OnItsWay
    <3>4. CASE t \in Clients
      <4>1. pc[t] \in HoldsBusyPcs
        BY <3>1, <3>4 DEF OwnerInv, HoldsBusyPcs, LoadPcs
      <4> QED
        BY <2>1, <3>4, <4>1 DEF OnItsWay
    <3> QED
      BY <3>2, <3>3, <3>4
  <2> QED
    BY <2>2, <2>3 DEF WaitsFor
<1> QED
  BY LockInit, LockStep, <1>1, OwnerStep, <1>2, PTL DEF Spec
=============================================================================
