----------------------------- MODULE ModelPool ------------------------------
(***************************************************************************)
(* What the server promises of its models, whoever asks for them: at most  *)
(* max_loaded_models are resident, a run has a resident model to itself,   *)
(* and a model leaves memory only between runs (app/server/README.md, "A   *)
(* model that is mid-inference is never unloaded").                        *)
(***************************************************************************)
EXTENDS Integers, FiniteSets

CONSTANTS Models, MaxLoadedModels

VARIABLES resident, running

vars == <<resident, running>>

HasRoom(m) ==
  MaxLoadedModels = 0 \/ Cardinality(resident \cup {m}) <= MaxLoadedModels

Init == resident = {} /\ running = {}

Load(m) ==
  /\ m \notin resident
  /\ HasRoom(m)
  /\ resident' = resident \cup {m}
  /\ UNCHANGED running

Unload(m) ==
  /\ m \in resident \ running
  /\ resident' = resident \ {m}
  /\ UNCHANGED running

\* A run starts on a resident model, or on one loaded for it.
Begin(m) ==
  /\ m \notin running
  /\ m \in resident \/ HasRoom(m)
  /\ resident' = resident \cup {m}
  /\ running' = running \cup {m}

End(m) ==
  /\ m \in running
  /\ running' = running \ {m}
  /\ UNCHANGED resident

Next == \E m \in Models : Load(m) \/ Unload(m) \/ Begin(m) \/ End(m)

Spec == Init /\ [][Next]_vars
=============================================================================
