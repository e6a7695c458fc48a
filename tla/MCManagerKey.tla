---------------------------- MODULE MCManagerKey ----------------------------
(* One row, three calls in every combination and order, and two wallets    *)
(* that register for the manager who decides.                              *)
EXTENDS ManagerKey, TLC

Symmetry == Permutations(Calls) \cup Permutations(Devices)
=============================================================================
