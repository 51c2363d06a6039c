---------------------------- MODULE MCRangeScan ----------------------------
EXTENDS RangeScan

Kinds == {"range", "count", "values", "valuesCount", "exists"}

(* Queries with options that mean something together.  A range starts       *)
(* nowhere or at the middle key and ends nowhere or at an outer one.       *)
Meaningful ==
  {q \in [kind : Kinds, dupSort : BOOLEAN, key : {NoKey, 1}, start : 0..2,
          end : 0..3, reverse : BOOLEAN, values : BOOLEAN,
          snapshot : BOOLEAN, limit : {NoLimit, 1}, offset : 0..1] :
     /\ ValuesForKey(q) <=> q.key # NoKey
     /\ ValuesForKey(q) => q.dupSort /\ q.values /\ q.snapshot /\ q.end # 3
     /\ ~ValuesForKey(q) => q.start # 1 /\ q.end # 2
     /\ OnlyCount(q) => q.limit = NoLimit /\ q.snapshot
     /\ ~OnlyCount(q) => (q.limit = 1) = (q.offset = 1)
     /\ q.kind = "exists" => /\ ~q.reverse /\ q.offset = 0
                             /\ q.start # NoKey /\ q.end = NoKey}

(* All values of a dupSort database, key after key. *)
EveryDup(q) == q.dupSort /\ q.values /\ ~ValuesForKey(q)

(* The queries the code answers as the reference does. *)
Exact ==
  {q \in Meaningful :
     /\ ~(EveryDup(q) /\ q.reverse /\ q.start # NoKey)
     /\ ~(EveryDup(q) /\ OnlyCount(q) /\ q.offset > 0)
     /\ ~(q.dupSort /\ ~q.snapshot)
     /\ ~(q.kind = "valuesCount" /\ q.offset > 0)}

(* Queries outside it, one kind each. *)
ReverseStarts ==
  {q \in Meaningful : /\ EveryDup(q) /\ q.reverse /\ q.start # NoKey
                      /\ q.kind = "range" /\ q.snapshot}
OffsetCounts == {q \in Meaningful : EveryDup(q) /\ OnlyCount(q) /\ q.offset > 0}
RenewedDups == {q \in Meaningful : EveryDup(q) /\ ~OnlyCount(q) /\ ~q.snapshot}
Renewed == {q \in Exact : ~q.snapshot}
============================================================================
