-------------------------- MODULE MCSSNManageModule --------------------------
(* SSNManageModule on small instances.                                       *)
EXTENDS SSNManageModule, TLC

CONSTANTS r1, r2

E(r, f, p) == [rid |-> r, form |-> f, port |-> p]

(* A channel stays, with its ports cut to 16 bits, while another one, with *)
(* no udp port, comes and goes; then it moves to other ports, after an     *)
(* entry whose url is lost.                                                *)
SomeLists ==
  {<<E(r1, "head", <<1>>)>>,
   <<E(r2, "plain", <<2, 4>>), E(r1, "head", <<5>>)>>,
   <<E(r1, "lookalike", <<1>>), E(r1, "plain", <<5, 2>>)>>}

SmallPorts == (0 .. 3) \X (0 .. 3)

Symmetry == Permutations(Call) \cup Permutations(Addr) \cup Permutations(Handle)
=============================================================================
