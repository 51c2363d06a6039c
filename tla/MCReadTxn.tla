------------------------------ MODULE MCReadTxn ------------------------------
(***************************************************************************)
(* TLC instances of ReadTxn: the .cfg files of its runs choose the bounds.   *)
(* Iterators, transaction objects and cursors are interchangeable.           *)
(***************************************************************************)
EXTENDS ReadTxn, TLC

Symmetry == Permutations(Iterators) \cup Permutations(Txns) \cup Permutations(Cursors)

=============================================================================
