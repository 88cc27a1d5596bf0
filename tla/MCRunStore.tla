----------------------------- MODULE MCRunStore -----------------------------
(***************************************************************************)
(* RunStore for TLC: every interleaving of every store transaction.        *)
(***************************************************************************)
EXTENDS RunStore, TLC

StoreSymmetry == Permutations(Owners)
=============================================================================
