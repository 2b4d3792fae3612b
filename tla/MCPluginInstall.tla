-------------------------- MODULE MCPluginInstall --------------------------
(* PluginInstall on a small instance: one build of two parts that asks for  *)
(* a capability, one of a single part that asks for none.                   *)
EXTENDS PluginInstall, TLC

CONSTANTS big, small, k, l, mail

MCCodeOf == big :> k @@ small :> l
MCCapsOf == big :> {mail} @@ small :> {}
MCPartsOf == k :> 2 @@ l :> 1
Symmetry == Permutations(Requests) \cup Permutations(Releases)
=============================================================================
