---------------------------- MODULE MCFactStore ----------------------------
(* Small instances of FactStore for TLC.                                   *)
EXTENDS FactStore, TLC

AllStorable == Keys \X Values

Symmetry == Permutations(Threads) \cup Permutations(Keys) \cup Permutations(Values)
                \cup Permutations(Rows)
=============================================================================
