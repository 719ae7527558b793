--------------------------- MODULE MCCommandLine ----------------------------
(* Two processes in one function: a branch, a silent edge, an edge a CPA       *)
(* rejects and one at which it throws.                                       *)
EXTENDS CommandLine

E(from, to, silent, answer) == [from |-> from, to |-> to, silent |-> silent, answer |-> answer]

MCLoc == 1 .. 4
MCCFG == <<
  << E(1, 2, FALSE, "ok"), E(1, 3, FALSE, "ok") >>,
  << E(2, 3, TRUE, "ok"), E(2, 4, TRUE, "ok") >>,
  << E(3, 1, FALSE, "reject"), E(3, 4, FALSE, "ok"), E(3, 2, TRUE, "raise") >>,
  <<>> >>
=============================================================================
