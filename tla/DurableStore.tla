---------------------------- MODULE DurableStore ----------------------------
(***************************************************************************)
(* What a transactional store promises about commits, flushes and crashes, *)
(* whatever its file looks like: transactions take effect one after        *)
(* another, a crash may take back the last of them, in order, and never    *)
(* one whose caller was told that it is durable.  (README.md of the        *)
(* repository: "ACID compliant", "crash-proof design"; overlappingSync     *)
(* "ensure[s] database integrity even if a crash occurs".)                 *)
(***************************************************************************)
EXTENDS Naturals

CONSTANT Txns      \* transactions: numbers, in the order in which they begin

VARIABLES
  current,         \* the transactions whose changes are visible
  durable          \* the ones whose callers were told that they are durable

Init == current \in SUBSET Txns /\ durable \in SUBSET current

\* A transaction takes effect after all earlier ones, durable at once or not.
Commit(t) ==
  /\ \A u \in current : u < t
  /\ current' = current \cup {t}
  /\ durable' \in {durable, durable \cup {t}}

\* Visible transactions are reported to be durable.
Flush ==
  /\ durable' \in SUBSET current /\ durable \subseteq durable'
  /\ UNCHANGED current

\* The transactions after n are lost.
Crash(n) ==
  /\ current' = {t \in current : t <= n} /\ durable \subseteq current'
  /\ UNCHANGED durable

Next == Flush \/ \E t \in Txns : Commit(t) \/ Crash(t)

Spec == Init /\ [][Next]_<<current, durable>>
=============================================================================
