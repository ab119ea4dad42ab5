--------------------------- MODULE MCLiveManager ---------------------------
(* LiveManager on small instances.                                         *)
EXTENDS LiveManager, TLC

CONSTANTS c1, c2, c3, a1, a2, a3, h1, h2, h3, r1, r2

NoPorts    == {<<0, 0>>}
TwoPorts   == {<<0, 0>>, <<1, 1>>, <<1, 2>>}
RestartPorts == {<<1, 1>>, <<1, 2>>}

Symmetry ==
  Permutations(Call) \cup Permutations(Addr) \cup Permutations(Handle)
    \cup Permutations(Rid)
=============================================================================
