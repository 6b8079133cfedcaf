------------------------- MODULE MCPackageInventory -------------------------
(***************************************************************************)
(* An instance of PackageInventory for TLC: a package of two files, one of *)
(* one, and two clients.  A behaviour is about one of two things, which    *)
(* share the package q8 and its installations: both packages, or one       *)
(* package and its listing (both at once are too many states).             *)
(***************************************************************************)
EXTENDS PackageInventory, TLC

CONSTANTS q8, solo, c1, c2, s1, s2

VARIABLE about

MCPaths == {"q8.gguf", "q8.json", "solo.gguf"}
MCFiles ==
  [p \in Packages |-> IF p = q8 THEN {"q8.gguf", "q8.json"}
                                ELSE {"solo.gguf"}]

\* "Demo" is a prefix of "Demo-solo", and no clean-up of the one matches the
\* other: the names differ before a dot.
MCStagingName ==
  [p \in Packages |-> IF p = q8 THEN <<"Demo", "v2">> ELSE <<"Demo-solo", "v2">>]

mcVars == <<vars, inventoryVars, about>>

MCInit == InventoryInit /\ about \in {"packages", "listing"}

\* Nobody lists the packages; nobody asks for the other one.
OnPackages == asker' = Nobody
OnListing ==
  /\ job[solo]' = "none"
  /\ \A c \in Callers : caller[c]' # "ready" => target[c]' = q8

MCNext ==
  /\ InventoryNext
  /\ IF about = "packages" THEN OnPackages ELSE OnListing
  /\ UNCHANGED about

MCSpec == MCInit /\ [][MCNext]_mcVars /\ InventoryFairness
=============================================================================
