--------------------------- MODULE MCEnvRegistry ---------------------------
(* Small instances of EnvRegistry for TLC: two threads, the first with two *)
(* wrappers, the second with the others.                                   *)
EXTENDS EnvRegistry, TLC

CONSTANTS w1, w2, w3, main, worker, p1, p2

MCThreadOf == [w \in Wrappers |-> IF w \in {w1, w2} THEN main ELSE worker]

DistinctFiles == [p \in Paths |-> p]      \* every path names a file of its own
OneFile == [p \in Paths |-> p1]           \* two spellings of one path
=============================================================================
