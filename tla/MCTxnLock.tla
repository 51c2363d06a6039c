------------------------------ MODULE MCTxnLock ------------------------------
(***************************************************************************)
(* TLC instances of TxnLock: the .cfg files of its runs choose the options,  *)
(* the operations and the bounds.                                            *)
(***************************************************************************)
EXTENDS TxnLock

=============================================================================
