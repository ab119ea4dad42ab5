----------------------------- MODULE MCLiveProxy -----------------------------
(* LiveProxy on small instances.                                             *)
EXTENDS LiveProxy, TLC

OnlyNoPorts == {NoPorts}

Symmetry == Permutations(Call) \cup Permutations(Addr) \cup Permutations(Handle)
              \cup Permutations(Rid)
=============================================================================
