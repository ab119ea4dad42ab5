----------------------------- MODULE MCLiveModule -----------------------------
(* Small instances of LiveModule.                                            *)
EXTENDS LiveModule, TLC

Installed == {"loaded", "refused"}
Missing   == {"absent"}

Symmetry == Permutations(Owner) \cup Permutations(Rid)
              \cup Permutations(Cell) \cup Permutations(SdkHandle)
=============================================================================
