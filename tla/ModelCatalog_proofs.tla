------------------------ MODULE ModelCatalog_proofs -------------------------
(***************************************************************************)
(* Proofs about ModelCatalog, for any ids, configs, clients and limits:    *)
(* what a reconfiguration may never do to a session or to a run, and on    *)
(* which servers no locks are waited for in a circle.                      *)
(***************************************************************************)
EXTENDS ModelCatalog, SequenceTheorems, FiniteSetTheorems, TLAPS

Loading == {"ensure", "lock_load", "evict", "load"}

\* What a client past the lookup is about: a registered entry whose guard it
\* holds from the acquisition on, or an entry of its own.
ClientInv(c) ==
  /\ pc[c] \in {"metadata", "acquire"} => op[c] \in {"run", "load", "unload"}
  /\ pc[c] \in {"lock_metadata", "reconfigure", "answer"} => op[c] = "load"
  /\ pc[c] = "unload" => op[c] = "unload"
  /\ pc[c] = "run" => op[c] = "run" /\ session[id[c]] # NoConfig
  /\ pc[c] = "register" => op[c] = "load_new" /\ fresh[c] = [config |-> want[c], task |-> want[c]]
  /\ pc[c] \in Loading => op[c] \in {"run", "load", "load_new"}
  /\ op[c] \in {"run", "load", "unload"} => id[c] \in Registered
  /\ op[c] \in {"load", "load_new"} => want[c] \in Configs
  /\ pc[c] \in Loading \cup {"lock_metadata", "reconfigure", "answer", "unload", "run"}
       /\ op[c] # "load_new" => busy[id[c]] = c
  /\ fresh[c] # NoConfig => pc[c] = "register"

\* A new entry has no session before it is registered; a registered one has a
\* task, which is that of its config unless a reconfiguration failed half-way.
EntryInv ==
  \A i \in Ids :
    /\ i \notin Registered => session[i] = NoConfig
    /\ i \in Registered => derived[i] \in Configs
    /\ derived[i] # config[i] => config[i] \in Rejected

CatalogInv ==
  /\ TypeOK
  /\ \A c \in Clients : ClientInv(c)
  /\ EntryInv
  /\ SessionMatchesConfig
  /\ RegisteredOnce

----------------------------------------------------------------------------
USE CatalogAssumption

\* Registration adds the id to the list and takes none off it.
LEMMA RegisteredGrows ==
  ASSUME NEW i, models \in Seq(Ids), models' = Append(models, i)
  PROVE  Registered' = Registered \cup {i}
  BY DEF Registered

\* A step leaves a client alone that keeps its request, its guard and, while
\* it runs, its session.
LEMMA OtherClient ==
  ASSUME NEW d \in Clients, ClientInv(d),
         pc'[d] = pc[d], op'[d] = op[d], id'[d] = id[d], want'[d] = want[d],
         fresh'[d] = fresh[d], Registered \subseteq Registered',
         busy[id[d]] = d => busy'[id[d]] = d,
         pc[d] = "run" => session'[id[d]] # NoConfig
  PROVE  ClientInv(d)'
  BY DEF ClientInv

\* The end of a request is harmless for all clients, its own included.
LEMMA FinishedClients ==
  ASSUME CatalogInv, NEW c \in Clients, Finish(c), Registered \subseteq Registered',
         \A d \in Clients \ {c} : pc[d] = "run" => session'[id[d]] # NoConfig
  PROVE  \A d \in Clients : ClientInv(d)'
<1>1. ClientInv(c)'
  BY DEF CatalogInv, TypeOK, Finish, Goto, ClientInv, Loading
<1>2. ASSUME NEW d \in Clients \ {c} PROVE ClientInv(d)'
  <2>1. /\ pc'[d] = pc[d] /\ op'[d] = op[d] /\ id'[d] = id[d] /\ want'[d] = want[d]
        /\ fresh'[d] = fresh[d] /\ id[d] \in Ids
    BY DEF CatalogInv, TypeOK, Finish, Goto
  <2>2. busy[id[d]] = d => busy'[id[d]] = d
    BY <2>1 DEF Finish, UnlockedBy
  <2> QED
    BY <2>1, <2>2, OtherClient DEF CatalogInv
<1> QED
  BY <1>1, <1>2

LEMMA FinishedTypes ==
  ASSUME TypeOK, NEW c \in Clients, Finish(c)
  PROVE  /\ pc' \in [Clients -> Pcs] /\ op' \in [Clients -> Ops] /\ id' \in [Clients -> Ids]
         /\ want' \in [Clients -> Configs \cup {NoConfig}] /\ todo' \in [Clients -> Seq(Ids)]
         /\ busy' \in [Ids -> Clients \cup {Nobody}]
         /\ metadata' \in [Ids -> Clients \cup {Nobody}]
         /\ loadLock' \in Clients \cup {Nobody} /\ modelsLock' \in Clients \cup {Nobody}
         /\ fresh' \in [Clients -> Session \cup {NoConfig}]
<1>1. (CHOOSE i \in Ids : TRUE) \in Ids
  BY DEF TypeOK
<1> QED
  BY <1>1 DEF TypeOK, Finish, Goto, UnlockedBy, Pcs, Ops

LEMMA CatalogInit == Init => CatalogInv
<1> SUFFICES ASSUME Init PROVE CatalogInv
  OBVIOUS
<1>1. InitialConfig \in Configs /\ InitialConfig # NoConfig
  OBVIOUS
<1>2. (CHOOSE i \in Ids : TRUE) \in Ids
  OBVIOUS
<1>m. /\ models \in Seq(Ids)
      /\ \A i, j \in DOMAIN models : models[i] = models[j] => i = j
  BY DEF Init, Deployment
<1>3. TypeOK
  <2>1. /\ models \in Seq(Ids) /\ config \in [Ids -> Configs \cup {NoConfig}]
        /\ derived \in [Ids -> Configs \cup {NoConfig}]
        /\ \A i \in Ids : i \in Registered <=> config[i] # NoConfig
    BY <1>1, <1>m DEF Init
  <2>2. pc \in [Clients -> Pcs] /\ op \in [Clients -> Ops]
    BY DEF Init, Pcs, Ops
  <2>3. id \in [Clients -> Ids] /\ todo \in [Clients -> Seq(Ids)]
    BY <1>2 DEF Init
  <2>4. /\ session \in [Ids -> Session \cup {NoConfig}]
        /\ fresh \in [Clients -> Session \cup {NoConfig}]
        /\ want \in [Clients -> Configs \cup {NoConfig}]
        /\ busy \in [Ids -> Clients \cup {Nobody}]
        /\ metadata \in [Ids -> Clients \cup {Nobody}]
        /\ loadLock \in Clients \cup {Nobody} /\ modelsLock \in Clients \cup {Nobody}
    BY DEF Init
  <2> QED
    BY <2>1, <2>2, <2>3, <2>4 DEF TypeOK
<1> QED
  BY <1>3, <1>m DEF Init, CatalogInv, ClientInv, EntryInv, SessionMatchesConfig, RegisteredOnce, Loading

\* A step that ends a request and leaves the entries alone.
LEMMA PlainEnd ==
  ASSUME CatalogInv, NEW c \in Clients, Finish(c), UNCHANGED <<models, config, derived>>,
         session' \in [Ids -> Session \cup {NoConfig}],
         \A i \in Ids : session'[i] # NoConfig => session'[i] = session[i],
         \A d \in Clients \ {c} : pc[d] = "run" => session'[id[d]] # NoConfig
  PROVE  CatalogInv'
<1>1. Registered' = Registered
  BY DEF Registered
<1>2. TypeOK'
  BY <1>1, FinishedTypes DEF CatalogInv, TypeOK
<1>3. \A d \in Clients : ClientInv(d)'
  BY <1>1, FinishedClients
<1>4. EntryInv' /\ SessionMatchesConfig' /\ RegisteredOnce'
  BY <1>1 DEF CatalogInv, TypeOK, EntryInv, SessionMatchesConfig, RegisteredOnce
<1> QED
  BY <1>2, <1>3, <1>4 DEF CatalogInv

\* A step within a request that leaves the entries alone.
LEMMA PlainStep ==
  ASSUME CatalogInv, NEW c \in Clients, UNCHANGED <<entries, metadata>>,
         pc' \in [Clients -> Pcs], op' \in [Clients -> Ops], id' \in [Clients -> Ids],
         want' \in [Clients -> Configs \cup {NoConfig}], todo' \in [Clients -> Seq(Ids)],
         busy' \in [Ids -> Clients \cup {Nobody}],
         loadLock' \in Clients \cup {Nobody}, modelsLock' \in Clients \cup {Nobody},
         ClientInv(c)',
         \A d \in Clients \ {c} :
           /\ pc'[d] = pc[d] /\ op'[d] = op[d] /\ id'[d] = id[d] /\ want'[d] = want[d]
           /\ busy[id[d]] = d => busy'[id[d]] = d
  PROVE  CatalogInv'
<1>1. Registered' = Registered /\ fresh' = fresh /\ session' = session
  BY DEF Registered, entries
<1>2. TypeOK'
  BY <1>1 DEF CatalogInv, TypeOK, entries
<1>3. ASSUME NEW d \in Clients \ {c} PROVE ClientInv(d)'
  BY <1>1, OtherClient DEF CatalogInv, ClientInv
<1>4. EntryInv' /\ SessionMatchesConfig' /\ RegisteredOnce'
  BY <1>1 DEF CatalogInv, entries, EntryInv, SessionMatchesConfig, RegisteredOnce
<1> QED
  BY <1>2, <1>3, <1>4 DEF CatalogInv

LEMMA CatalogStep == CatalogInv /\ [Next]_vars => CatalogInv'
<1> SUFFICES ASSUME CatalogInv, [Next]_vars PROVE CatalogInv'
  OBVIOUS
<1>t. TypeOK
  BY DEF CatalogInv
\* A client that runs holds the guard of an entry with a session.
<1>r. \A d \in Clients : pc[d] = "run" =>
        busy[id[d]] = d /\ d # Nobody /\ session[id[d]] # NoConfig /\ id[d] \in Ids
  BY <1>t DEF CatalogInv, ClientInv, TypeOK
<1> USE DEF Goto
<1>1. ASSUME NEW c \in Clients, NEW handler \in {"run", "load", "unload"},
             NEW i \in Registered, NEW w \in Configs \cup {NoConfig},
             handler = "load" => w \in Configs,
             Begin(c, handler, i, w), Goto(c, "metadata")
      PROVE  CatalogInv'
  <2>0. i \in Ids
    BY <1>t DEF TypeOK, Registered
  <2>1. /\ pc' \in [Clients -> Pcs] /\ op' \in [Clients -> Ops] /\ id' \in [Clients -> Ids]
        /\ want' \in [Clients -> Configs \cup {NoConfig}]
    BY <1>1, <1>t, <2>0 DEF Begin, TypeOK, Pcs, Ops
  <2>2. Registered' = Registered
    BY <1>1 DEF Begin, entries, Registered
  <2>3. fresh[c] = NoConfig /\ fresh' = fresh
    BY <1>1, <1>t DEF CatalogInv, ClientInv, Begin, entries
  <2>4. ClientInv(c)'
    BY <1>1, <1>t, <2>2, <2>3 DEF Begin, TypeOK, ClientInv, Loading
  <2>5. UNCHANGED <<entries, metadata, busy, loadLock, modelsLock, todo>>
    BY <1>1 DEF Begin, locks
  <2>6. \A d \in Clients \ {c} :
          pc'[d] = pc[d] /\ op'[d] = op[d] /\ id'[d] = id[d] /\ want'[d] = want[d]
    BY <1>1, <1>t DEF Begin, TypeOK
  <2> QED
    BY <1>t, <2>1, <2>4, <2>5, <2>6, PlainStep DEF TypeOK
<1>2. ASSUME NEW c \in Clients, NEW i \in Ids, NEW w \in Configs, LoadNewRequest(c, i, w)
      PROVE  CatalogInv'
  <2>1. /\ pc' \in [Clients -> Pcs] /\ op' \in [Clients -> Ops] /\ id' \in [Clients -> Ids]
        /\ want' \in [Clients -> Configs \cup {NoConfig}]
    BY <1>2, <1>t DEF LoadNewRequest, Begin, TypeOK, Pcs, Ops
  <2>2. fresh[c] = NoConfig /\ fresh' = fresh
    BY <1>2, <1>t DEF CatalogInv, ClientInv, LoadNewRequest, Begin, entries
  <2>3. ClientInv(c)'
    BY <1>2, <1>t, <2>2 DEF LoadNewRequest, Begin, TypeOK, ClientInv, Loading
  <2>5. UNCHANGED <<entries, metadata, busy, loadLock, modelsLock, todo>>
    BY <1>2 DEF LoadNewRequest, Begin, locks
  <2>6. \A d \in Clients \ {c} :
          pc'[d] = pc[d] /\ op'[d] = op[d] /\ id'[d] = id[d] /\ want'[d] = want[d]
    BY <1>2, <1>t DEF LoadNewRequest, Begin, TypeOK
  <2> QED
    BY <1>t, <2>1, <2>3, <2>5, <2>6, PlainStep DEF TypeOK
<1>3. ASSUME NEW c \in Clients, ReadMetadata(c) \/ Unchanged(c) \/ Ensure(c) \/ LockLoad(c)
      PROVE  CatalogInv'
  <2>1. /\ UNCHANGED <<entries, metadata, busy, modelsLock, request>>
        /\ loadLock' \in Clients \cup {Nobody} /\ pc' \in [Clients -> Pcs]
        /\ \A d \in Clients \ {c} : pc'[d] = pc[d]
    <3>1. CASE ReadMetadata(c)
      BY <3>1, <1>t DEF ReadMetadata, locks, TypeOK, Pcs
    <3>2. CASE Unchanged(c)
      BY <3>2, <1>t DEF Unchanged, locks, TypeOK, Pcs
    <3>3. CASE Ensure(c)
      <4>1. AfterLoad(c) \in Pcs
        BY <3>3 DEF Ensure, AfterLoad, Pcs, CatalogInv, ClientInv, Loading
      <4> QED
        BY <3>3, <4>1, <1>t DEF Ensure, locks, TypeOK, Pcs
    <3>4. CASE LockLoad(c)
      BY <3>4, <1>t DEF LockLoad, TypeOK, Pcs
    <3> QED
      BY <1>3, <3>1, <3>2, <3>3, <3>4
  <2>2. Registered' = Registered
    BY <2>1 DEF entries, Registered
  <2>3. ClientInv(c)'
    BY <1>3, <1>t, <2>1, <2>2 DEF ReadMetadata, Unchanged, Ensure, LockLoad, AfterLoad,
      TypeOK, CatalogInv, ClientInv, Loading, entries, request, SessionOf, Unregistered
  <2> QED
    BY <1>t, <2>1, <2>3, PlainStep DEF request, TypeOK
<1>4. ASSUME NEW c \in Clients, AcquireRun(c) PROVE CatalogInv'
  <2>1. /\ UNCHANGED <<entries, metadata, loadLock, modelsLock, request>>
        /\ busy' = [busy EXCEPT ![id[c]] = c] /\ busy[id[c]] = Nobody /\ id[c] \in Ids
    BY <1>4, <1>t DEF AcquireRun, TypeOK
  <2>2. op[c] \in {"run", "load", "unload"}
    BY <1>4 DEF AcquireRun, CatalogInv, ClientInv
  <2>3. /\ pc' \in [Clients -> Pcs] /\ \A d \in Clients \ {c} : pc'[d] = pc[d]
        /\ op[c] = "run" => pc'[c] = "ensure"
        /\ op[c] = "load" => pc'[c] = "lock_metadata"
        /\ op[c] = "unload" => pc'[c] = "unload"
    BY <1>4, <1>t, <2>2 DEF AcquireRun, TypeOK, Pcs
  <2>4. Registered' = Registered
    BY <2>1 DEF entries, Registered
  <2>5. ClientInv(c)'
    BY <1>t, <2>1, <2>2, <2>3, <2>4 DEF TypeOK, CatalogInv, ClientInv, Loading, entries, request
  <2>6. busy' \in [Ids -> Clients \cup {Nobody}]
    BY <1>t, <2>1 DEF TypeOK
  <2>7. \A d \in Clients \ {c} : busy[id[d]] = d => busy'[id[d]] = d
    BY <1>t, <2>1 DEF TypeOK
  <2> QED
    BY <1>t, <2>1, <2>3, <2>5, <2>6, <2>7, PlainStep DEF request, TypeOK
<1>5. ASSUME NEW c \in Clients,
             AcquireTimeout(c) \/ LoadFails(c) \/ RunEnds(c) \/ Answer(c) \/ ListDone(c)
      PROVE  CatalogInv'
  <2>1. Finish(c) /\ UNCHANGED <<models, config, derived, session>>
    BY <1>5 DEF AcquireTimeout, LoadFails, RunEnds, Answer, ListDone
  <2> QED
    BY <1>t, <2>1, PlainEnd DEF CatalogInv, ClientInv, TypeOK
<1>6. ASSUME NEW c \in Clients, UnloadModel(c) PROVE CatalogInv'
  <2>1. /\ Finish(c) /\ UNCHANGED <<models, config, derived>>
        /\ session' = [session EXCEPT ![id[c]] = NoConfig] /\ busy[id[c]] = c
    BY <1>6 DEF UnloadModel, CatalogInv, ClientInv
  <2>2. \A d \in Clients \ {c} : pc[d] = "run" => session'[id[d]] # NoConfig
    BY <1>t, <2>1 DEF CatalogInv, ClientInv, TypeOK
  <2> QED
    BY <1>t, <2>1, <2>2, PlainEnd DEF TypeOK
<1>7. ASSUME NEW c \in Clients, EvictFails(c) PROVE CatalogInv'
  <2>1. /\ Finish(c) /\ UNCHANGED <<models, config, derived>>
        /\ session' = [i \in Ids |-> IF i \in Evictable(c) THEN NoConfig ELSE session[i]]
    BY <1>7 DEF EvictFails
  <2>2. \A d \in Clients \ {c} : pc[d] = "run" => session'[id[d]] # NoConfig
    BY <1>r, <2>1 DEF Evictable
  <2>3. session' \in [Ids -> Session \cup {NoConfig}]
    BY <1>t, <2>1 DEF TypeOK
  <2>4. \A i \in Ids : session'[i] # NoConfig => session'[i] = session[i]
    BY <2>1
  <2> QED
    BY <2>1, <2>2, <2>3, <2>4, PlainEnd
<1>8. ASSUME NEW c \in Clients, Evict(c) PROVE CatalogInv'
  <2>1. PICK victims \in SUBSET Evictable(c) :
          session' = [i \in Ids |-> IF i \in victims THEN NoConfig ELSE session[i]]
    BY <1>8 DEF Evict
  <2>2. /\ UNCHANGED <<models, config, derived, fresh, locks, request>>
        /\ pc' = [pc EXCEPT ![c] = "load"] /\ pc[c] = "evict"
    BY <1>8 DEF Evict
  <2>3. Registered' = Registered
    BY <2>2 DEF Registered
  <2>4. TypeOK'
    <3>1. session' \in [Ids -> Session \cup {NoConfig}] /\ pc' \in [Clients -> Pcs]
      BY <1>t, <2>1, <2>2 DEF TypeOK, Pcs
    <3> QED
      BY <1>t, <2>2, <2>3, <3>1 DEF TypeOK, locks, request
  <2>5. ClientInv(c)'
    BY <1>t, <2>2, <2>3 DEF TypeOK, CatalogInv, ClientInv, Loading, locks, request
  <2>6. ASSUME NEW d \in Clients \ {c} PROVE ClientInv(d)'
    <3>1. pc[d] = "run" => session'[id[d]] # NoConfig
      BY <1>r, <2>1 DEF Evictable
    <3> QED
      BY <1>t, <2>2, <2>3, <3>1, OtherClient DEF CatalogInv, TypeOK, locks, request
  <2>7. EntryInv' /\ SessionMatchesConfig' /\ RegisteredOnce'
    BY <2>1, <2>2, <2>3 DEF CatalogInv, EntryInv, SessionMatchesConfig, RegisteredOnce
  <2> QED
    BY <2>4, <2>5, <2>6, <2>7 DEF CatalogInv
<1>9. ASSUME NEW c \in Clients, LockMetadata(c) PROVE CatalogInv'
  <2>1. /\ UNCHANGED <<entries, busy, loadLock, modelsLock, request>>
        /\ pc' = [pc EXCEPT ![c] = "reconfigure"] /\ pc[c] = "lock_metadata"
        /\ metadata' \in [Ids -> Clients \cup {Nobody}]
    BY <1>9, <1>t DEF LockMetadata, TypeOK
  <2>2. Registered' = Registered
    BY <2>1 DEF Registered, entries
  <2>3. TypeOK'
    BY <1>t, <2>1, <2>2 DEF TypeOK, Pcs, entries, request
  <2>4. \A d \in Clients : ClientInv(d)'
    BY <1>t, <2>1, <2>2 DEF CatalogInv, ClientInv, Loading, TypeOK, entries, request
  <2>5. EntryInv' /\ SessionMatchesConfig' /\ RegisteredOnce'
    BY <2>1, <2>2 DEF CatalogInv, EntryInv, SessionMatchesConfig, RegisteredOnce, entries
  <2> QED
    BY <2>3, <2>4, <2>5 DEF CatalogInv
<1>10. ASSUME NEW c \in Clients, Reconfigure(c) PROVE CatalogInv'
  <2>1. /\ models' = models
        /\ session' = [session EXCEPT ![id[c]] = NoConfig]
        /\ config' = [config EXCEPT ![id[c]] = want[c]]
        /\ pc[c] = "reconfigure" /\ op[c] = "load" /\ busy[id[c]] = c
        /\ id[c] \in Registered /\ want[c] \in Configs /\ id[c] \in Ids
    BY <1>10, <1>t DEF Reconfigure, CatalogInv, ClientInv, TypeOK
  <2>2. Registered' = Registered
    BY <2>1 DEF Registered
  <2>3. \A d \in Clients \ {c} : pc[d] = "run" => session'[id[d]] # NoConfig
    BY <1>t, <2>1 DEF CatalogInv, ClientInv, TypeOK
  <2>4. /\ config' \in [Ids -> Configs \cup {NoConfig}]
        /\ session' \in [Ids -> Session \cup {NoConfig}]
        /\ derived' \in [Ids -> Configs \cup {NoConfig}]
        /\ \A i \in Ids : i \in Registered' <=> config'[i] # NoConfig
    <3>1. derived' = derived \/ derived' = [derived EXCEPT ![id[c]] = want[c]]
      BY <1>10, Zenon DEF Reconfigure
    <3> QED
      BY <1>t, <2>1, <2>2, <3>1 DEF TypeOK
  <2>d. \/ derived' = derived /\ want[c] \in Rejected
        \/ derived' = [derived EXCEPT ![id[c]] = want[c]]
    BY <1>10, Zenon DEF Reconfigure
  <2>5. EntryInv' /\ SessionMatchesConfig' /\ RegisteredOnce'
    <3>0. /\ \A i \in Ids \ {id[c]} : /\ session'[i] = session[i]
                                     /\ config'[i] = config[i]
                                     /\ derived'[i] = derived[i]
          /\ session'[id[c]] = NoConfig /\ config'[id[c]] = want[c]
          /\ derived'[id[c]] \in Configs
          /\ derived'[id[c]] # want[c] => want[c] \in Rejected
      BY <1>t, <2>1, <2>d DEF CatalogInv, EntryInv, TypeOK
    <3>1. EntryInv'
      BY <2>2, <3>0 DEF CatalogInv, EntryInv
    <3>2. SessionMatchesConfig'
      BY <3>0 DEF CatalogInv, SessionMatchesConfig
    <3>3. RegisteredOnce'
      BY <2>1 DEF CatalogInv, RegisteredOnce
    <3> QED
      BY <3>1, <3>2, <3>3
  <2>6. CASE want[c] \in Rejected
    <3>1. Finish(c)
      BY <1>10, <2>6 DEF Reconfigure
    <3>2. TypeOK'
      BY <1>t, <2>1, <2>4, <3>1, FinishedTypes DEF TypeOK
    <3>3. \A d \in Clients : ClientInv(d)'
      BY <2>2, <2>3, <3>1, FinishedClients
    <3> QED
      BY <2>5, <3>2, <3>3 DEF CatalogInv
  <2>7. CASE want[c] \notin Rejected
    <3>1. pc' = [pc EXCEPT ![c] = "ensure"] /\ UNCHANGED <<fresh, locks, request>>
      BY <1>10, <2>7 DEF Reconfigure
    <3>2. TypeOK'
      BY <1>t, <2>1, <2>4, <3>1 DEF TypeOK, Pcs, locks, request
    <3>3. ClientInv(c)'
      BY <1>t, <2>1, <2>2, <3>1 DEF CatalogInv, ClientInv, Loading, TypeOK, locks, request
    <3>4. ASSUME NEW d \in Clients \ {c} PROVE ClientInv(d)'
      BY <1>t, <2>2, <2>3, <3>1, OtherClient DEF CatalogInv, TypeOK, locks, request
    <3> QED
      BY <2>5, <3>2, <3>3, <3>4 DEF CatalogInv
  <2> QED
    BY <2>6, <2>7
<1>11. ASSUME NEW c \in Clients, Load(c) PROVE CatalogInv'
  <2>1. /\ UNCHANGED <<models, config, derived, busy, metadata, modelsLock, request>>
        /\ pc[c] = "load" /\ op[c] \in {"run", "load", "load_new"} /\ id[c] \in Ids
        /\ loadLock' \in Clients \cup {Nobody}
        /\ op[c] # "load_new" => id[c] \in Registered /\ busy[id[c]] = c
        /\ op[c] = "load_new" =>
             [config |-> want[c], task |-> want[c]] \in Session
    BY <1>11, <1>t DEF Load, CatalogInv, ClientInv, TypeOK, Loading, UnlockedBy, Session
  <2>2. Registered' = Registered
    BY <2>1 DEF Registered
  <2>3. /\ pc' \in [Clients -> Pcs] /\ \A d \in Clients \ {c} : pc'[d] = pc[d]
        /\ op[c] = "run" => pc'[c] = "run"
        /\ op[c] = "load" => pc'[c] = "answer"
        /\ op[c] = "load_new" => pc'[c] = "register"
    BY <1>11, <1>t, <2>1 DEF Load, AfterLoad, TypeOK, Pcs
  <2>4. CASE op[c] = "load_new"
    <3>1. /\ fresh' = [fresh EXCEPT ![c] = [config |-> want[c], task |-> want[c]]]
          /\ session' = session
      BY <1>11, <2>4 DEF Load, Unregistered
    <3>2. TypeOK'
      BY <1>t, <2>1, <2>2, <2>3, <2>4, <3>1 DEF TypeOK, request
    <3>3. \A d \in Clients : ClientInv(d)'
      BY <1>t, <2>1, <2>2, <2>3, <2>4, <3>1 DEF CatalogInv, ClientInv, TypeOK, request, Loading
    <3>4. EntryInv' /\ SessionMatchesConfig' /\ RegisteredOnce'
      BY <2>1, <2>2, <3>1 DEF CatalogInv, EntryInv, SessionMatchesConfig, RegisteredOnce
    <3> QED
      BY <3>2, <3>3, <3>4 DEF CatalogInv
  <2>5. CASE op[c] # "load_new"
    <3>1. /\ fresh' = fresh
          /\ session' = [session EXCEPT
                 ![id[c]] = [config |-> config[id[c]], task |-> derived[id[c]]]]
      BY <1>11, <2>5 DEF Load, Unregistered
    <3>2. /\ config[id[c]] \in Configs /\ derived[id[c]] \in Configs
          /\ [config |-> config[id[c]], task |-> derived[id[c]]] \in Session
      BY <1>t, <2>1, <2>5 DEF TypeOK, CatalogInv, EntryInv, Session
    <3>3. TypeOK'
      BY <1>t, <2>1, <2>2, <2>3, <3>1, <3>2 DEF TypeOK, request
    <3>4. ClientInv(c)'
      BY <1>t, <2>1, <2>2, <2>3, <2>5, <3>1, <3>2
      DEF CatalogInv, ClientInv, TypeOK, request, Loading
    <3>5. ASSUME NEW d \in Clients \ {c} PROVE ClientInv(d)'
      BY <1>t, <2>1, <2>2, <2>3, <3>1, <3>2, OtherClient
      DEF CatalogInv, ClientInv, TypeOK, request
    <3>6. EntryInv' /\ SessionMatchesConfig' /\ RegisteredOnce'
      BY <1>t, <2>1, <2>2, <2>5, <3>1
      DEF CatalogInv, EntryInv, SessionMatchesConfig, RegisteredOnce, TypeOK
    <3> QED
      BY <3>3, <3>4, <3>5, <3>6 DEF CatalogInv
  <2> QED
    BY <2>4, <2>5
<1>12. ASSUME NEW c \in Clients, Register(c) PROVE CatalogInv'
  <2>1. /\ Finish(c) /\ pc[c] = "register" /\ op[c] = "load_new" /\ id[c] \in Ids
        /\ want[c] \in Configs /\ fresh[c] = [config |-> want[c], task |-> want[c]]
    BY <1>12, <1>t DEF Register, CatalogInv, ClientInv, TypeOK
  <2>2. CASE id[c] \in Registered
    <3>1. UNCHANGED <<models, config, derived, session>>
      BY <1>12, <2>2 DEF Register
    <3> QED
      BY <1>t, <1>r, <2>1, <3>1, PlainEnd DEF TypeOK
  <2>3. CASE id[c] \notin Registered
    <3>1. /\ models' = Append(models, id[c])
          /\ config' = [config EXCEPT ![id[c]] = want[c]]
          /\ derived' = [derived EXCEPT ![id[c]] = want[c]]
          /\ session' = [session EXCEPT
                           ![id[c]] = [config |-> want[c], task |-> want[c]]]
      BY <1>12, <2>1, <2>3 DEF Register
    <3>2. Registered' = Registered \cup {id[c]} /\ models' \in Seq(Ids)
      BY <1>t, <2>1, <3>1, RegisteredGrows DEF TypeOK
    <3>3. /\ config' \in [Ids -> Configs \cup {NoConfig}]
          /\ derived' \in [Ids -> Configs \cup {NoConfig}]
          /\ session' \in [Ids -> Session \cup {NoConfig}]
          /\ \A i \in Ids : i \in Registered' <=> config'[i] # NoConfig
      BY <1>t, <2>1, <3>1, <3>2 DEF TypeOK
    <3>4. TypeOK'
      BY <1>t, <2>1, <3>2, <3>3, FinishedTypes DEF TypeOK
    <3>s. [config |-> want[c], task |-> want[c]] \in Session
      BY <2>1 DEF Session
    <3>5. \A d \in Clients : pc[d] = "run" => session'[id[d]] # NoConfig
      BY <1>t, <1>r, <2>1, <3>1, <3>s DEF TypeOK
    <3>6. \A d \in Clients : ClientInv(d)'
      BY <2>1, <3>2, <3>5, FinishedClients
    <3>7. EntryInv' /\ SessionMatchesConfig'
      BY <1>t, <2>1, <3>1, <3>2 DEF CatalogInv, EntryInv, SessionMatchesConfig, TypeOK
    <3>8. RegisteredOnce'
      <4>1. models \in Seq(Ids) /\ \A n \in DOMAIN models : models[n] # id[c]
        BY <1>t, <2>3 DEF TypeOK, Registered
      <4> QED
        BY <2>1, <3>1, <4>1 DEF CatalogInv, RegisteredOnce
    <3> QED
      BY <3>4, <3>6, <3>7, <3>8 DEF CatalogInv
  <2> QED
    BY <2>2, <2>3
<1>13. ASSUME NEW c \in Clients, NEW handler \in {"models", "voices"}, NEW list \in Seq(Ids),
              List(c, handler, list)
       PROVE  CatalogInv'
  <2>1. /\ UNCHANGED <<entries, busy, metadata, loadLock, id, want>>
        /\ pc' = [pc EXCEPT ![c] = "list"] /\ pc[c] = "ready"
        /\ op' = [op EXCEPT ![c] = handler]
        /\ pc' \in [Clients -> Pcs] /\ op' \in [Clients -> Ops]
        /\ todo' \in [Clients -> Seq(Ids)] /\ modelsLock' \in Clients \cup {Nobody}
    BY <1>13, <1>t DEF List, TypeOK, Pcs, Ops
  <2>2. Registered' = Registered
    BY <2>1 DEF Registered, entries
  <2>3. ClientInv(c)'
    BY <1>t, <2>1, <2>2 DEF CatalogInv, ClientInv, Loading, TypeOK, entries
  <2> QED
    BY <1>t, <2>1, <2>3, PlainStep DEF TypeOK
<1>14. ASSUME NEW c \in Clients, ListEntry(c) PROVE CatalogInv'
  <2>1. /\ UNCHANGED <<entries, locks, pc, op, id, want>>
        /\ todo' \in [Clients -> Seq(Ids)]
    BY <1>14, <1>t DEF ListEntry, TypeOK
  <2>2. Registered' = Registered
    BY <2>1 DEF Registered, entries
  <2>3. ClientInv(c)'
    BY <2>1, <2>2 DEF CatalogInv, ClientInv, entries, locks
  <2> QED
    BY <1>t, <2>1, <2>3, PlainStep DEF TypeOK, locks
<1>15. CASE UNCHANGED vars
  <2>1. Registered' = Registered
    BY <1>15 DEF vars, entries, Registered
  <2> QED
    BY <1>15, <2>1 DEF vars, entries, locks, request, CatalogInv, TypeOK, ClientInv,
      EntryInv, SessionMatchesConfig, RegisteredOnce
<1>16. ASSUME NEW c \in Clients, Arrival(c) PROVE CatalogInv'
  <2>1. ASSUME NEW i \in Ids, RunRequest(c, i) \/ UnloadRequest(c, i) PROVE CatalogInv'
    BY <1>1, <2>1 DEF RunRequest, UnloadRequest
  <2>2. ASSUME NEW i \in Ids, NEW w \in Configs, LoadRequest(c, i, w) PROVE CatalogInv'
    BY <1>1, <2>2 DEF LoadRequest
  <2>3. ASSUME ModelsRequest(c) PROVE CatalogInv'
    BY <1>13, <1>t, <2>3 DEF ModelsRequest, TypeOK
  <2>4. ASSUME NEW i \in Ids, VoicesRequest(c, i) PROVE CatalogInv'
    <3>1. <<i>> \in Seq(Ids) /\ List(c, "voices", <<i>>)
      BY <2>4 DEF VoicesRequest
    <3> QED
      BY <1>13, <3>1
  <2> QED
    BY <1>2, <1>16, <2>1, <2>2, <2>3, <2>4 DEF Arrival
<1> QED
  BY <1>3, <1>4, <1>5, <1>6, <1>7, <1>8, <1>9, <1>10, <1>11, <1>12, <1>14, <1>15, <1>16
  DEF Next, Proceed, TakeLock, Compute

LEMMA CatalogInvariant == Spec => []CatalogInv
<1>1. [Next]_<<server, vars>> => [Next]_vars
  OBVIOUS
<1> QED
  BY CatalogInit, CatalogStep, <1>1, PTL DEF Spec

----------------------------------------------------------------------------
\* No session outlives the configuration and the task it was loaded from, and
\* the two only disagree where a reconfiguration was rejected half-way.
THEOREM SessionsAreCurrent == Spec => []SessionMatchesConfig
<1>1. CatalogInv => SessionMatchesConfig
  BY DEF CatalogInv
<1> QED
  BY CatalogInvariant, <1>1, PTL

\* Concurrent registrations of one id leave one entry.
THEOREM IdsAreUnique == Spec => []RegisteredOnce
<1>1. CatalogInv => RegisteredOnce
  BY DEF CatalogInv
<1> QED
  BY CatalogInvariant, <1>1, PTL

\* Types hold, and an entry has a config exactly when it is registered.
THEOREM CatalogTypes == Spec => []TypeOK
<1>1. CatalogInv => TypeOK
  BY DEF CatalogInv
<1> QED
  BY CatalogInvariant, <1>1, PTL

\* While an inference runs, its entry stays as it was.
LEMMA RunStep ==
  ASSUME CatalogInv, [Next]_vars, NEW c \in Clients, pc[c] = "run", pc'[c] = "run"
  PROVE  /\ config'[id[c]] = config[id[c]]
         /\ session'[id[c]] = session[id[c]]
         /\ session[id[c]] # NoConfig
<1> DEFINE i == id[c]
           Same == config'[i] = config[i] /\ session'[i] = session[i]
<1>1. /\ busy[i] = c /\ c # Nobody /\ session[i] # NoConfig
      /\ i \in Ids /\ i \in Registered
  BY DEF CatalogInv, ClientInv, TypeOK
<1>2. TypeOK /\ \A d \in Clients : ClientInv(d)
  BY DEF CatalogInv
\* Whoever changes an entry holds its guard.
<1>3. ASSUME NEW d \in Clients, UnloadModel(d) \/ Reconfigure(d) PROVE Same
  <2>1. busy[id[d]] = d /\ d # c
    BY <1>2, <1>3 DEF UnloadModel, Reconfigure, ClientInv
  <2>2. /\ config' = config \/ config' = [config EXCEPT ![id[d]] = want[d]]
        /\ session' = [session EXCEPT ![id[d]] = NoConfig]
    BY <1>3 DEF UnloadModel, Reconfigure
  <2> QED
    BY <1>1, <1>2, <2>1, <2>2 DEF TypeOK
<1>4. ASSUME NEW d \in Clients, Load(d) PROVE Same
  <2>1. d # c /\ config' = config /\ (op[d] # "load_new" => busy[id[d]] = d)
    BY <1>2, <1>4 DEF Load, ClientInv, Loading
  <2>2. session' = session \/ (op[d] # "load_new" /\ \E w : session' = [session EXCEPT ![id[d]] = w])
    BY <1>4 DEF Load, Unregistered
  <2> QED
    BY <1>1, <1>2, <2>1, <2>2 DEF TypeOK
<1>5. ASSUME NEW d \in Clients, Evict(d) \/ EvictFails(d) PROVE Same
  <2>1. PICK victims \in SUBSET Evictable(d) :
          session' = [j \in Ids |-> IF j \in victims THEN NoConfig ELSE session[j]]
    BY <1>5 DEF Evict, EvictFails
  <2>2. config' = config
    BY <1>5 DEF Evict, EvictFails
  <2> QED
    BY <1>1, <2>1, <2>2 DEF Evictable
\* A registration is of another id.
<1>6. ASSUME NEW d \in Clients, Register(d) PROVE Same
  <2>1. \/ config' = config /\ session' = session
        \/ /\ id[d] \notin Registered
           /\ config' = [config EXCEPT ![id[d]] = want[d]]
           /\ session' = [session EXCEPT ![id[d]] = fresh[d]]
    BY <1>6 DEF Register
  <2> QED
    BY <1>1, <1>2, <2>1 DEF TypeOK
<1>7. ASSUME NEW d \in Clients,
             \/ Arrival(d) \/ ReadMetadata(d) \/ AcquireRun(d) \/ AcquireTimeout(d)
             \/ LockMetadata(d) \/ Unchanged(d) \/ Ensure(d) \/ LockLoad(d) \/ LoadFails(d)
             \/ RunEnds(d) \/ Answer(d) \/ ListEntry(d) \/ ListDone(d)
      PROVE  Same
  BY <1>7 DEF Arrival, ModelsRequest, VoicesRequest, List, RunRequest, UnloadRequest,
    LoadRequest, LoadNewRequest, Begin, ReadMetadata, AcquireRun, AcquireTimeout, LockMetadata,
    Unchanged, Ensure, LockLoad, LoadFails, RunEnds, Answer, ListEntry, ListDone, entries
<1>8. CASE UNCHANGED vars
  BY <1>1, <1>8 DEF vars, entries
<1> QED
  BY <1>1, <1>3, <1>4, <1>5, <1>6, <1>7, <1>8 DEF Next, Proceed, TakeLock, Compute

\* No reconfiguration, unload or eviction touches the entry of an inference in
\* progress, for any clients, ids, configurations and servers.
THEOREM RunsAreUndisturbed == Spec => RunUndisturbed
<1>1. CatalogInv /\ [Next]_vars =>
        [\A c \in Clients : pc[c] = "run" /\ pc'[c] = "run" =>
           LET i == id[c] IN
             config'[i] = config[i] /\ session'[i] = session[i] /\ session[i] # NoConfig]_vars
  BY RunStep
<1>2. [Next]_<<server, vars>> => [Next]_vars
  OBVIOUS
<1> QED
  BY CatalogInvariant, <1>1, <1>2, PTL DEF Spec, RunUndisturbed
----------------------------------------------------------------------------
(* The locks: who may hold one, and why no clients wait in a circle.       *)

Reconfiguring == {"reconfigure", "ensure", "lock_load", "evict", "load", "answer"}
Guarded == Reconfiguring \cup {"lock_metadata", "run", "unload"}

LockInv(c) ==
  /\ \A i \in Ids : busy[i] = c => pc[c] \in Guarded /\ op[c] # "load_new"
  /\ \A i \in Ids : metadata[i] = c => pc[c] \in Reconfiguring /\ op[c] = "load"
  /\ loadLock = c => pc[c] \in {"evict", "load"}
  /\ modelsLock = c => pc[c] = "list"
  /\ pc[c] = "evict" => MaxLoadedModels > 0
  /\ ~UiManagement => op[c] \notin {"load", "load_new", "unload"}

LocksInv == server \in Deployments /\ \A c \in Clients : LockInv(c)

LEMMA LocksInit == Init => LocksInv
  BY DEF Init, LocksInv, LockInv

\* A step of c that lets the others be, and takes no lock but those its new
\* place allows.
LEMMA SteppedLocks ==
  ASSUME LocksInv, server' = server, NEW c \in Clients,
         \A d \in Clients \ {c} :
           /\ pc'[d] = pc[d] /\ op'[d] = op[d]
           /\ \A i \in Ids : busy'[i] = d => busy[i] = d
           /\ \A i \in Ids : metadata'[i] = d => metadata[i] = d
           /\ loadLock' = d => loadLock = d
           /\ modelsLock' = d => modelsLock = d,
         LockInv(c)'
  PROVE  LocksInv'
  BY DEF LocksInv, LockInv, UiManagement, MaxLoadedModels

\* A client that has ended its request holds nothing.
LEMMA FinishedLocks ==
  ASSUME TypeOK, LocksInv, server' = server, NEW c \in Clients, Finish(c)
  PROVE  LocksInv'
<1>1. \A d \in Clients \ {c} :
        /\ pc'[d] = pc[d] /\ op'[d] = op[d]
        /\ \A i \in Ids : busy'[i] = d => busy[i] = d
        /\ \A i \in Ids : metadata'[i] = d => metadata[i] = d
        /\ loadLock' = d => loadLock = d
        /\ modelsLock' = d => modelsLock = d
  BY DEF TypeOK, Finish, Goto, UnlockedBy
<1>2. LockInv(c)'
  BY DEF TypeOK, Finish, Goto, UnlockedBy, LockInv
<1> QED
  BY <1>1, <1>2, SteppedLocks

\* A step of c to another place that leaves locks and handler as they are.
LEMMA MovedLocks ==
  ASSUME TypeOK, LocksInv, server' = server, NEW c \in Clients, NEW label \in Pcs,
         UNCHANGED <<locks, op>>, pc' = [pc EXCEPT ![c] = label], LockInv(c)'
  PROVE  LocksInv'
  BY SteppedLocks DEF TypeOK, locks

LEMMA ArrivalLocks ==
  ASSUME TypeOK, LocksInv, server' = server, NEW c \in Clients, Arrival(c)
  PROVE  LocksInv'
<1> DEFINE Arrived(handler, label) ==
      /\ pc[c] = "ready" /\ UNCHANGED <<busy, metadata, loadLock>>
      /\ op' = [op EXCEPT ![c] = handler]
      /\ pc' = [pc EXCEPT ![c] = label]
      /\ modelsLock' = modelsLock \/ (modelsLock' = c /\ label = "list")
<1>1. ASSUME NEW handler, NEW label \in {"metadata", "ensure", "list"},
             Arrived(handler, label),
             handler \in {"load", "load_new", "unload"} => UiManagement
      PROVE  LocksInv'
  <2>0. /\ \A i \in Ids : busy[i] # c /\ metadata[i] # c
        /\ loadLock # c /\ modelsLock # c
    BY <1>1 DEF LocksInv, LockInv, Guarded, Reconfiguring
  <2>a. pc'[c] = label /\ op'[c] = handler
    BY <1>1 DEF TypeOK
  <2>1. LockInv(c)'
    BY <1>1, <2>0, <2>a DEF LockInv, UiManagement
  <2> QED
    BY <1>1, <2>1, SteppedLocks DEF TypeOK
<1>2. ASSUME NEW i \in Ids, RunRequest(c, i) PROVE LocksInv'
  <2>1. Arrived("run", "metadata")
    BY <1>2 DEF RunRequest, Begin, Goto, locks
  <2> QED
    BY <1>1, <2>1
<1>3. ASSUME NEW i \in Ids, UnloadRequest(c, i) PROVE LocksInv'
  <2>1. Arrived("unload", "metadata") /\ UiManagement
    BY <1>3 DEF UnloadRequest, Begin, Goto, locks
  <2> QED
    BY <1>1, <2>1
<1>4. ASSUME NEW i \in Ids, NEW w \in Configs, LoadRequest(c, i, w) PROVE LocksInv'
  <2>1. Arrived("load", "metadata") /\ UiManagement
    BY <1>4 DEF LoadRequest, Begin, Goto, locks
  <2> QED
    BY <1>1, <2>1
<1>5. ASSUME NEW i \in Ids, NEW w \in Configs, LoadNewRequest(c, i, w) PROVE LocksInv'
  <2>1. Arrived("load_new", "ensure") /\ UiManagement
    BY <1>5 DEF LoadNewRequest, Begin, Goto, locks
  <2> QED
    BY <1>1, <2>1
<1>6. ASSUME NEW handler \in {"models", "voices"}, NEW list, List(c, handler, list)
      PROVE  LocksInv'
  <2>1. Arrived(handler, "list")
    BY <1>6 DEF List, Goto
  <2> QED
    BY <1>1, <2>1
<1> QED
  BY <1>2, <1>3, <1>4, <1>5, <1>6 DEF Arrival, ModelsRequest, VoicesRequest

LEMMA LocksStep ==
  CatalogInv /\ LocksInv /\ [Next]_<<server, vars>> => LocksInv'
<1> SUFFICES ASSUME CatalogInv, LocksInv, [Next]_<<server, vars>> PROVE LocksInv'
  OBVIOUS
<1>t. TypeOK /\ \A c \in Clients : ClientInv(c) /\ LockInv(c)
  BY DEF CatalogInv, LocksInv
<1> USE DEF Goto
<1>1. CASE UNCHANGED <<server, vars>>
  BY <1>1 DEF vars, locks, request, LocksInv, LockInv, UiManagement, MaxLoadedModels
<1>2. ASSUME NEW c \in Clients, server' = server,
             \/ AcquireTimeout(c) \/ LoadFails(c) \/ RunEnds(c) \/ Answer(c)
             \/ ListDone(c) \/ UnloadModel(c) \/ EvictFails(c) \/ Register(c)
      PROVE  LocksInv'
  <2>1. Finish(c)
    BY <1>2 DEF AcquireTimeout, LoadFails, RunEnds, Answer, ListDone, UnloadModel,
      EvictFails, Register
  <2> QED
    BY <1>t, <1>2, <2>1, FinishedLocks
<1> USE DEF LockInv, Guarded, Reconfiguring, UiManagement, MaxLoadedModels
<1>3. ASSUME NEW c \in Clients, server' = server,
             ReadMetadata(c) \/ Unchanged(c) \/ Evict(c)
      PROVE  LocksInv'
  <2>1. /\ UNCHANGED <<locks, op>>
        /\ \/ pc[c] = "metadata" /\ pc' = [pc EXCEPT ![c] = "acquire"]
           \/ pc[c] = "reconfigure" /\ pc' = [pc EXCEPT ![c] = "ensure"]
           \/ pc[c] = "evict" /\ pc' = [pc EXCEPT ![c] = "load"]
    BY <1>3 DEF ReadMetadata, Unchanged, Evict, request
  <2>a. \/ pc[c] = "metadata" /\ pc'[c] = "acquire"
        \/ pc[c] = "reconfigure" /\ pc'[c] = "ensure"
        \/ pc[c] = "evict" /\ pc'[c] = "load"
    BY <1>t, <2>1 DEF TypeOK
  <2>2. LockInv(c)'
    BY <1>t, <1>3, <2>1, <2>a DEF locks
  <2> QED
    BY <1>t, <1>3, <2>1, <2>2, MovedLocks DEF Pcs
<1>4. ASSUME NEW c \in Clients, server' = server, AcquireRun(c) PROVE LocksInv'
  <2>1. /\ UNCHANGED <<metadata, loadLock, modelsLock, op>> /\ pc[c] = "acquire"
        /\ busy' = [busy EXCEPT ![id[c]] = c] /\ id[c] \in Ids
        /\ op[c] \in {"run", "load", "unload"}
    BY <1>4, <1>t DEF AcquireRun, request, TypeOK, ClientInv
  <2>2. PICK label \in {"ensure", "lock_metadata", "unload"} : pc' = [pc EXCEPT ![c] = label]
    BY <1>4, <2>1 DEF AcquireRun
  <2>3. /\ pc'[c] = label /\ \A d \in Clients \ {c} : pc'[d] = pc[d]
        /\ \A d \in Clients \ {c}, i \in Ids : busy'[i] = d => busy[i] = d
    BY <1>t, <2>1, <2>2 DEF TypeOK
  <2>4. \A i \in Ids : metadata[i] # c
    BY <1>t, <2>1
  <2>5. loadLock # c /\ modelsLock # c
    BY <1>t, <2>1
  <2>6. LockInv(c)'
    BY <1>t, <1>4, <2>1, <2>3, <2>4, <2>5
  <2> QED
    BY <1>4, <2>1, <2>3, <2>6, SteppedLocks
<1>5. ASSUME NEW c \in Clients, server' = server, LockMetadata(c) PROVE LocksInv'
  <2>1. /\ UNCHANGED <<busy, loadLock, modelsLock, op>> /\ pc[c] = "lock_metadata"
        /\ metadata' = [metadata EXCEPT ![id[c]] = c] /\ id[c] \in Ids
        /\ pc' = [pc EXCEPT ![c] = "reconfigure"] /\ op[c] = "load"
    BY <1>5, <1>t DEF LockMetadata, request, TypeOK, ClientInv
  <2>2. LockInv(c)'
    BY <1>t, <1>5, <2>1 DEF TypeOK
  <2> QED
    BY <1>t, <1>5, <2>1, <2>2, SteppedLocks DEF TypeOK
<1>6. ASSUME NEW c \in Clients, server' = server, Reconfigure(c) PROVE LocksInv'
  <2>1. CASE want[c] \in Rejected
    BY <1>t, <1>6, <2>1, FinishedLocks DEF Reconfigure
  <2>2. CASE want[c] \notin Rejected
    <3>1. /\ UNCHANGED <<locks, op>> /\ pc[c] = "reconfigure"
          /\ pc' = [pc EXCEPT ![c] = "ensure"]
      BY <1>6, <2>2 DEF Reconfigure, request
    <3>2. LockInv(c)'
      BY <1>t, <1>6, <3>1 DEF locks, TypeOK
    <3> QED
      BY <1>t, <1>6, <3>1, <3>2, MovedLocks DEF Pcs
  <2> QED
    BY <2>1, <2>2
<1>7. ASSUME NEW c \in Clients, server' = server, Ensure(c) PROVE LocksInv'
  <2>1. UNCHANGED <<locks, op>> /\ pc[c] = "ensure" /\ op[c] \in {"run", "load", "load_new"}
    BY <1>7, <1>t DEF Ensure, request, ClientInv, Loading
  <2>2. PICK label \in Pcs : pc' = [pc EXCEPT ![c] = label]
                             /\ (label \in {"lock_load", "load"} \/ label = AfterLoad(c))
    BY <1>7, <2>1 DEF Ensure, AfterLoad, Pcs
  <2>3. \/ label \in {"lock_load", "load"}
        \/ op[c] = "run" /\ label = "run"
        \/ op[c] = "load" /\ label = "answer"
        \/ op[c] = "load_new" /\ label = "register"
    BY <2>1, <2>2 DEF AfterLoad
  <2>4. LockInv(c)'
    BY <1>t, <1>7, <2>1, <2>2, <2>3 DEF locks, TypeOK
  <2> QED
    BY <1>t, <1>7, <2>1, <2>2, <2>4, MovedLocks
<1>8. ASSUME NEW c \in Clients, server' = server, LockLoad(c) PROVE LocksInv'
  <2>1. /\ UNCHANGED <<busy, metadata, modelsLock, op>> /\ pc[c] = "lock_load"
        /\ loadLock' = c
        /\ \/ MaxLoadedModels > 0 /\ pc' = [pc EXCEPT ![c] = "evict"]
           \/ pc' = [pc EXCEPT ![c] = "load"]
    BY <1>8 DEF LockLoad, request
  <2>a. /\ \/ pc'[c] = "evict" /\ MaxLoadedModels > 0
           \/ pc'[c] = "load"
        /\ \A d \in Clients \ {c} : pc'[d] = pc[d]
    BY <1>t, <2>1 DEF TypeOK
  <2>2. LockInv(c)'
    BY <1>t, <1>8, <2>1, <2>a
  <2> QED
    BY <1>8, <2>1, <2>2, <2>a, SteppedLocks
<1>9. ASSUME NEW c \in Clients, server' = server, Load(c) PROVE LocksInv'
  <2>1. /\ UNCHANGED <<busy, metadata, modelsLock, op>> /\ pc[c] = "load"
        /\ op[c] \in {"run", "load", "load_new"}
        /\ loadLock' = (IF loadLock = c THEN Nobody ELSE loadLock)
        /\ pc' = [pc EXCEPT ![c] = AfterLoad(c)]
    BY <1>9, <1>t DEF Load, request, ClientInv, Loading, UnlockedBy
  <2>2. \/ op[c] = "run" /\ AfterLoad(c) = "run"
        \/ op[c] = "load" /\ AfterLoad(c) = "answer"
        \/ op[c] = "load_new" /\ AfterLoad(c) = "register"
    BY <2>1 DEF AfterLoad
  <2>3. LockInv(c)'
    BY <1>t, <1>9, <2>1, <2>2 DEF TypeOK
  <2>4. \A d \in Clients \ {c} : pc'[d] = pc[d] /\ (loadLock' = d => loadLock = d)
    BY <1>t, <2>1 DEF TypeOK
  <2> QED
    BY <1>9, <2>1, <2>3, <2>4, SteppedLocks
<1>10. ASSUME NEW c \in Clients, server' = server, ListEntry(c) PROVE LocksInv'
  <2>1. UNCHANGED <<locks, pc, op>>
    BY <1>10 DEF ListEntry
  <2> QED
    BY <1>10, <2>1 DEF LocksInv, locks
<1> HIDE DEF LockInv, Guarded, Reconfiguring
<1> QED
  BY <1>t, <1>1, <1>2, <1>3, <1>4, <1>5, <1>6, <1>7, <1>8, <1>9, <1>10, ArrivalLocks
  DEF Next, Proceed, TakeLock, Compute

\* Whoever stands in the way of a client is further on in an order of places;
\* a listing waits for a reload only where models can be reloaded.
Rank(c) ==
  CASE pc[c] \in {"metadata", "acquire", "register"} -> 0
    [] pc[c] = "lock_metadata" -> 1
    [] pc[c] = "list" /\ UiManagement -> 1
    [] pc[c] = "lock_load" -> 2
    [] pc[c] = "evict" -> 3
    [] OTHER -> 4

NeverBoth == \A s \in Deployments : s.ui_management => s.max_loaded_models = 0

LEMMA WaitsForHigherRank ==
  ASSUME NeverBoth, CatalogInv, LocksInv, NEW c \in Clients, NEW d \in LockedOut(c)
  PROVE  d \in Clients => Rank(d) > Rank(c)
<1> SUFFICES ASSUME d \in Clients PROVE Rank(d) > Rank(c)
  OBVIOUS
<1>t. /\ TypeOK /\ LockInv(c) /\ LockInv(d) /\ ClientInv(c)
      /\ id[c] \in Ids /\ d # Nobody
  BY DEF CatalogInv, LocksInv, TypeOK, LockedOut
<1>u. UiManagement => pc[c] # "evict" /\ pc[d] # "evict"
  BY <1>t DEF LocksInv, LockInv, NeverBoth, UiManagement, MaxLoadedModels
<1> USE DEF Rank, LockInv, Guarded, Reconfiguring
<1>1. CASE pc[c] \in {"metadata", "lock_metadata"}
  <2>1. metadata[id[c]] = d
    BY <1>1 DEF LockedOut
  <2> QED
    BY <1>t, <1>1, <2>1
<1>2. CASE pc[c] = "acquire"
  <2>1. busy[id[c]] = d
    BY <1>2 DEF LockedOut
  <2> QED
    BY <1>t, <1>2, <2>1
<1>3. CASE pc[c] = "lock_load"
  <2>1. loadLock = d
    BY <1>3 DEF LockedOut
  <2> QED
    BY <1>t, <1>3, <2>1
<1>4. CASE pc[c] \in {"evict", "register"}
  <2>1. modelsLock = d
    BY <1>4 DEF LockedOut
  <2> QED
    BY <1>t, <1>u, <1>4, <2>1
<1>5. CASE pc[c] = "list"
  <2>1. todo[c] # <<>> /\ metadata[Head(todo[c])] = d /\ todo[c] \in Seq(Ids)
    BY <1>t, <1>5 DEF LockedOut, TypeOK
  <2>2. pc[d] \in Reconfiguring /\ op[d] = "load"
    BY <1>t, <2>1
  <2>3. UiManagement
    BY <1>t, <2>2
  <2> QED
    BY <1>u, <1>5, <2>2, <2>3
<1> QED
  BY <1>t, <1>1, <1>2, <1>3, <1>4, <1>5 DEF LockedOut

LEMMA NoCircle ==
  ASSUME NeverBoth, CatalogInv, LocksInv
  PROVE  NoCircularWait
<1> SUFFICES ASSUME NEW S \in (SUBSET Clients) \ {{}},
                    \A c \in S : LockedOut(c) \cap S # {}
             PROVE  FALSE
  BY DEF NoCircularWait
<1>1. \A c \in S : \E d \in S : Rank(d) > Rank(c)
  <2> TAKE c \in S
  <2>1. PICK d \in LockedOut(c) : d \in S
    OBVIOUS
  <2> QED
    BY <2>1, WaitsForHigherRank
<1>2. \A c \in S : Rank(c) \in 0..4
  BY DEF Rank
<1>3. PICK c0 \in S : TRUE
  OBVIOUS
<1>4. PICK c1 \in S : Rank(c1) > Rank(c0)
  BY <1>1
<1>5. PICK c2 \in S : Rank(c2) > Rank(c1)
  BY <1>1
<1>6. PICK c3 \in S : Rank(c3) > Rank(c2)
  BY <1>1
<1>7. PICK c4 \in S : Rank(c4) > Rank(c3)
  BY <1>1
<1>8. PICK c5 \in S : Rank(c5) > Rank(c4)
  BY <1>1
<1> QED
  BY <1>2, <1>4, <1>5, <1>6, <1>7, <1>8

\* No clients wait for each other's locks for ever, on any server that does
\* not combine --ui-management with a limit (with both, the listings and a
\* reload deadlock).
THEOREM NoDeadlock ==
  ASSUME NeverBoth
  PROVE  Spec => []NoCircularWait
<1>1. CatalogInv /\ LocksInv /\ [Next]_<<server, vars>> => LocksInv'
  BY LocksStep
<1>2. CatalogInv /\ LocksInv => NoCircularWait
  BY NoCircle
<1> QED
  BY LocksInit, <1>1, <1>2, CatalogInvariant, PTL DEF Spec
=============================================================================
