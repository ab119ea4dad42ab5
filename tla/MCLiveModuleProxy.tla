-------------------------- MODULE MCLiveModuleProxy --------------------------
(* Small instances of LiveModuleProxy.                                       *)
EXTENDS LiveModuleProxy, TLC

Symmetry == Permutations(Owner) \cup Permutations(Proc)
=============================================================================
