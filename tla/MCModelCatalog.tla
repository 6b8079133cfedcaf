--------------------------- MODULE MCModelCatalog ---------------------------
(***************************************************************************)
(* Instances of ModelCatalog for TLC.  "q8" and "q4" are two weights of    *)
(* one path, which handle_model_load does not tell apart; "typo" is        *)
(* rejected.                                                               *)
(***************************************************************************)
EXTENDS ModelCatalog

CONSTANTS m1, m2, c1, c2

ThreeConfigs == {"q8", "q4", "typo"}
TwoConfigs == {"q8", "typo"}
MCRejected == {"typo"}
MCKey == [w \in ThreeConfigs |-> IF w = "q4" THEN "q8" ELSE w]

Managed ==
  [models |-> <<m1>>, ui_management |-> TRUE, max_loaded_models |-> 0,
   memory_guard |-> TRUE, busy_timeout |-> FALSE]
Fixed ==
  [models |-> <<m1, m2>>, ui_management |-> FALSE, max_loaded_models |-> 1,
   memory_guard |-> FALSE, busy_timeout |-> TRUE]

\* A list that clients change, without a limit; a fixed one with a limit of one.
ManagedOrFixed == {Managed, Fixed}
\* Both at once.
ManagedTwo == {[Fixed EXCEPT !.ui_management = TRUE]}
=============================================================================
