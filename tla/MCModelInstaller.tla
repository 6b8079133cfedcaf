-------------------------- MODULE MCModelInstaller --------------------------
(***************************************************************************)
(* An instance of ModelInstaller for TLC: two precisions of one model,     *)
(* which share a directory and a sidecar.                                  *)
(***************************************************************************)
EXTENDS ModelInstaller

CONSTANTS q8, f16, c1

MCPaths == {"q8.gguf", "f16.gguf", "shared.json"}
MCFiles ==
  [p \in Packages |-> {"shared.json", IF p = q8 THEN "q8.gguf" ELSE "f16.gguf"}]
MCStagingName == [p \in Packages |-> <<"Demo">>]
=============================================================================
