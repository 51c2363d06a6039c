-------------------------- MODULE RangeScanProofs --------------------------
(***************************************************************************)
(* What holds of every query of RangeScan, for all keys, values and        *)
(* databases: AnswersExact, RenewedOrder and StableFound, each under a      *)
(* named condition on the queries (SnapshotScans, CountScans, RenewedScans) *)
(* that leaves out those for which the property is false.                  *)
(*                                                                         *)
(* The argument: the first entry leads those the query reaches (FirstStep), *)
(* and a move goes to the next item (MoveStep); so the i-th move meets the  *)
(* item of place i, the number of items before it, or the end (Meets,      *)
(* VisitedPlaces).  An iteration, its offset and a count are such moves.   *)
(***************************************************************************)
EXTENDS RangeScan, FiniteSetTheorems, SequenceTheorems, TLAPS

-----------------------------------------------------------------------------
(* Numbers and finite sets. *)

\* Every nonempty set of natural numbers has a least element.
LEMMA LeastNumber ==
    ASSUME NEW S, S \subseteq Nat, S # {}
    PROVE  \E n \in S : \A m \in S : n <= m
<1> DEFINE Less == {ss \in Nat \X Nat : ss[1] < ss[2]}
<1>1. IsWellFoundedOn(Less, Nat) BY NatLessThanWellFounded DEF OpToRel
<1> HIDE DEF Less
<1>2. PICK n \in S : \A m \in S : <<m, n>> \notin Less BY <1>1, WFMin
<1>3. \A m \in S : ~(m < n) BY <1>2 DEF Less
<1> QED BY <1>3

\* g is the sequence of n moves from a that F makes.
MovesOf(g, D, a, F, n) ==
    g \in [0..n -> D] /\ g[0] = a /\ \A i \in 1..n : g[i] = F[g[i - 1]]

\* A sequence of moves exists for every number of moves.
LEMMA MovesExist ==
    ASSUME NEW D, NEW a \in D, NEW F \in [D -> D], NEW n \in Nat
    PROVE  \E g : MovesOf(g, D, a, F, n)
<1> DEFINE Moves(m, g) == MovesOf(g, D, a, F, m)
           None == {m \in Nat : ~\E g : Moves(m, g)}
<1>1. SUFFICES ASSUME None # {} PROVE FALSE
  <2>1. n \notin None BY <1>1
  <2> QED BY <2>1
<1>2. PICK m \in None : \A k \in None : m <= k BY <1>1, LeastNumber
<1>3. m # 0
  <2>1. Moves(0, [i \in 0..0 |-> a]) BY DEF MovesOf
  <2>2. 0 \notin None BY <2>1
  <2> QED BY <1>2, <2>2
<1>4. m \in Nat /\ m - 1 \in Nat /\ ~(m <= m - 1) BY <1>2, <1>3
<1>5. m - 1 \notin None BY <1>2, <1>4
<1>6. PICK g : Moves(m - 1, g) BY <1>4, <1>5
<1> DEFINE h == [i \in 0..m |-> IF i = m THEN F[g[m - 1]] ELSE g[i]]
<1>7. Moves(m, h)
  <2>1. g[m - 1] \in D /\ F[g[m - 1]] \in D BY <1>4, <1>6 DEF MovesOf
  <2>2. \A i \in 0..m : i # m => i \in 0..(m - 1) /\ g[i] \in D BY <1>4, <1>6 DEF MovesOf
  <2>3. h \in [0..m -> D] BY <2>1, <2>2
  <2>4. h[0] = a BY <1>3, <1>4, <1>6 DEF MovesOf
  <2>5. \A i \in 1..m : h[i] = F[h[i - 1]]
    <3> TAKE i \in 1..m
    <3>1. i - 1 \in 0..m /\ i - 1 # m /\ i \in 0..m BY <1>4
    <3>2. CASE i = m BY <1>4, <3>1, <3>2
    <3>3. CASE i # m
      <4>1. i \in 1..(m - 1) BY <1>4, <3>3
      <4> QED BY <1>6, <3>1, <3>3, <4>1 DEF MovesOf
    <3> QED BY <3>2, <3>3
  <2> QED BY <2>3, <2>4, <2>5 DEF MovesOf
<1> HIDE DEF Moves
<1> QED BY <1>2, <1>7

-----------------------------------------------------------------------------
(* The order of the entries. *)

\* A database is finite, and its entries are pairs of numbers.
LEMMA EntryTypes ==
    /\ IsFiniteSet(Entries)
    /\ \A e \in Entries : /\ e[1] \in Keys /\ e[2] \in Vals /\ e = <<e[1], e[2]>>
                          /\ e[1] \in Nat /\ e[2] \in Nat /\ e[1] # 0 /\ e[2] # 0
    /\ NoEntry \notin Entries
<1>1. Keys \subseteq Nat \ {0} /\ Vals \subseteq Nat \ {0} BY ScansAssumption
<1>2. IsFiniteSet(Entries) BY ScansAssumption, FS_Product DEF Entries
<1>3. NoEntry \notin Entries BY <1>1 DEF NoEntry, Entries
<1>4. ASSUME NEW e \in Entries
      PROVE  /\ e[1] \in Keys /\ e[2] \in Vals /\ e = <<e[1], e[2]>>
             /\ e[1] \in Nat /\ e[2] \in Nat /\ e[1] # 0 /\ e[2] # 0
  <2>1. e[1] \in Keys /\ e[2] \in Vals /\ e = <<e[1], e[2]>> BY DEF Entries
  <2> QED BY <1>1, <2>1
<1> QED BY <1>2, <1>3, <1>4

Pairs == Nat \X Nat
LEMMA OrderFacts ==
    /\ \A e \in Pairs : ~Before(e, e)
    /\ \A e, f \in Pairs : e = f \/ Before(e, f) \/ Before(f, e)
    /\ \A e, f \in Pairs : ~(Before(e, f) /\ Before(f, e))
    /\ \A e, f, g \in Pairs : Before(e, f) /\ Before(f, g) => Before(e, g)
BY DEF Before, Pairs

LEMMA EntryPairs == Entries \subseteq Pairs
  BY EntryTypes DEF Pairs, Entries

\* The number of elements of a subset.
LEMMA Counted ==
    ASSUME NEW S, IsFiniteSet(S), NEW T, T \subseteq S
    PROVE  /\ IsFiniteSet(T) /\ Cardinality(T) \in Nat /\ Cardinality(S) \in Nat
           /\ Cardinality(T) <= Cardinality(S)
           /\ T # S => Cardinality(T) < Cardinality(S)
BY FS_Subset, FS_CardinalityType

\* Of finitely many entries, one comes before all others and one after all others.
LEMMA Extremes ==
    ASSUME NEW S, S \subseteq Pairs, IsFiniteSet(S), S # {}
    PROVE  /\ \E e \in S : \A f \in S : ~Before(f, e)
           /\ \E e \in S : \A f \in S : ~Before(e, f)
<1> DEFINE Under(e) == {f \in S : Before(f, e)}
           Over(e) == {f \in S : Before(e, f)}
           Low == {Cardinality(Under(e)) : e \in S}
           High == {Cardinality(Over(e)) : e \in S}
<1>1. Low \subseteq Nat /\ Low # {} /\ High \subseteq Nat /\ High # {}
  <2>1. \A e \in S : Cardinality(Under(e)) \in Nat /\ Cardinality(Over(e)) \in Nat
    BY Counted
  <2> QED BY <2>1
<1>2. \E e \in S : \A f \in S : ~Before(f, e)
  <2>1. PICK e \in S : \A f \in S : Cardinality(Under(e)) <= Cardinality(Under(f))
    <3>1. PICK n \in Low : \A m \in Low : n <= m BY <1>1, LeastNumber
    <3> QED BY <3>1
  <2>2. ASSUME NEW f \in S, Before(f, e) PROVE FALSE
    <3>1. Under(f) \subseteq Under(e) /\ f \in Under(e) /\ f \notin Under(f)
      BY <2>2, OrderFacts
    <3>2. IsFiniteSet(Under(e)) BY Counted
    <3>3. Cardinality(Under(f)) < Cardinality(Under(e)) /\ Cardinality(Under(f)) \in Nat
          /\ Cardinality(Under(e)) \in Nat
      BY <3>1, <3>2, Counted
    <3> QED BY <2>1, <3>3
  <2> QED BY <2>2
<1>3. \E e \in S : \A f \in S : ~Before(e, f)
  <2>1. PICK e \in S : \A f \in S : Cardinality(Over(e)) <= Cardinality(Over(f))
    <3>1. PICK n \in High : \A m \in High : n <= m BY <1>1, LeastNumber
    <3> QED BY <3>1
  <2>2. ASSUME NEW f \in S, Before(e, f) PROVE FALSE
    <3>1. Over(f) \subseteq Over(e) /\ f \in Over(e) /\ f \notin Over(f)
      BY <2>2, OrderFacts
    <3>2. IsFiniteSet(Over(e)) BY Counted
    <3>3. Cardinality(Over(f)) < Cardinality(Over(e)) /\ Cardinality(Over(f)) \in Nat
          /\ Cardinality(Over(e)) \in Nat
      BY <3>1, <3>2, Counted
    <3> QED BY <2>1, <3>3
  <2> QED BY <2>2
<1> QED BY <1>2, <1>3

\* What mdb_cursor_first and mdb_cursor_last find.
LEMMA FirstLast ==
    ASSUME NEW S, S \subseteq Entries
    PROVE  /\ S = {} => mdb_cursor_first(S) = NoEntry /\ mdb_cursor_last(S) = NoEntry
           /\ S # {} => /\ mdb_cursor_first(S) \in S
                        /\ \A f \in S : f = mdb_cursor_first(S) \/ Before(mdb_cursor_first(S), f)
                        /\ mdb_cursor_last(S) \in S
                        /\ \A f \in S : f = mdb_cursor_last(S) \/ Before(f, mdb_cursor_last(S))
<1>1. S \subseteq Pairs /\ IsFiniteSet(S) BY EntryTypes, EntryPairs, Counted
<1>2. CASE S = {} BY <1>2 DEF mdb_cursor_first, mdb_cursor_last
<1>3. CASE S # {}
  <2>1. /\ mdb_cursor_first(S) \in S /\ \A f \in S : ~Before(f, mdb_cursor_first(S))
        /\ mdb_cursor_last(S) \in S /\ \A f \in S : ~Before(mdb_cursor_last(S), f)
    BY <1>1, <1>3, Extremes DEF mdb_cursor_first, mdb_cursor_last
  <2> QED BY <1>1, <1>3, <2>1, OrderFacts
<1> QED BY <1>2, <1>3

-----------------------------------------------------------------------------
(* The order of the items that a query returns. *)

\* The item of f comes after that of e, in the direction of the query.
Past(q, e, f) == Ahead(q, Item(q, e), Item(q, f))
Same(q, e, f) == Item(q, e) = Item(q, f)

\* A query for the values of a key stays at that key.
Within(q, e, f) == ValuesForKey(q) => f[1] = e[1]

LEMMA ItemOrder ==
    ASSUME NEW q \in Queries, NEW e \in Entries, NEW f \in Entries
    PROVE  /\ q.values => /\ Past(q, e, f) <=> IF q.reverse THEN Before(f, e) ELSE Before(e, f)
                          /\ Same(q, e, f) <=> e = f
           /\ ~q.values => /\ Past(q, e, f) <=> IF q.reverse THEN f[1] < e[1] ELSE e[1] < f[1]
                           /\ Same(q, e, f) <=> e[1] = f[1]
<1>1. /\ e[1] \in Nat /\ e[2] \in Nat /\ f[1] \in Nat /\ f[2] \in Nat
  BY EntryTypes
<1>2. CASE q.values BY <1>2 DEF Past, Same, Ahead, Item
<1>3. CASE ~q.values
  <2>1. Item(q, e) = <<e[1], 0>> /\ Item(q, f) = <<f[1], 0>> BY <1>3 DEF Item
  <2>2. Same(q, e, f) <=> e[1] = f[1] BY <2>1 DEF Same
  <2>3. Before(<<e[1], 0>>, <<f[1], 0>>) <=> e[1] < f[1] BY <1>1 DEF Before
  <2>4. Before(<<f[1], 0>>, <<e[1], 0>>) <=> f[1] < e[1] BY <1>1 DEF Before
  <2> QED BY <1>3, <2>1, <2>2, <2>3, <2>4 DEF Past, Ahead
<1> QED BY <1>2, <1>3

LEMMA ItemFacts ==
    ASSUME NEW q \in Queries, NEW e \in Entries, NEW f \in Entries, NEW g \in Entries
    PROVE  /\ Same(q, e, f) \/ Past(q, e, f) \/ Past(q, f, e)
           /\ ~(Past(q, e, f) /\ Past(q, f, e))
           /\ Same(q, e, f) => ~Past(q, e, f)
           /\ Past(q, e, f) /\ Past(q, f, g) => Past(q, e, g)
           /\ Past(q, e, f) /\ Same(q, f, g) => Past(q, e, g)
           /\ Same(q, e, f) /\ Past(q, f, g) => Past(q, e, g)
<1>1. /\ Item(q, e) \in Pairs /\ Item(q, f) \in Pairs /\ Item(q, g) \in Pairs
  BY EntryTypes DEF Item, Pairs
<1>2. CASE q.reverse BY <1>1, <1>2, OrderFacts DEF Past, Same, Ahead
<1>3. CASE ~q.reverse BY <1>1, <1>3, OrderFacts DEF Past, Same, Ahead
<1> QED BY <1>2, <1>3

\* Queries for the values of a key that return no values make no sense.
Sensible(q) == ValuesForKey(q) => q.values

\* A move goes to the next item.
LEMMA MoveStep ==
    ASSUME NEW q \in Queries, Sensible(q), NEW d, d \subseteq Entries, NEW e \in Entries, NEW m,
           m = Move(q, d, e, iteratingOp(q))
    PROVE  /\ m = NoEntry => \A f \in d : Within(q, e, f) => ~Past(q, e, f)
           /\ m # NoEntry => /\ m \in d /\ Within(q, e, m) /\ Past(q, e, m)
                             /\ \A f \in d : Within(q, e, f) /\ Past(q, e, f) =>
                                  Same(q, m, f) \/ Past(q, m, f)
<1> DEFINE N == {f \in d : (IF q.reverse THEN Before(f, e) ELSE Before(e, f))
                              /\ Admits(iteratingOp(q), e, f)}
<1>1. ASSUME NEW f \in d
      PROVE  f \in N <=> Within(q, e, f) /\ Past(q, e, f)
  <2>1. f \in Entries /\ q.values \in BOOLEAN BY DEF Queries
  <2>2. e[1] \in Nat /\ f[1] \in Nat /\ e[2] \in Nat /\ f[2] \in Nat BY <2>1, EntryTypes
  <2>3. CASE q.values /\ ValuesForKey(q)
    BY <2>1, <2>3, ItemOrder DEF iteratingOp, Admits, Within
  <2>4. CASE q.values /\ ~ValuesForKey(q)
    BY <2>1, <2>4, ItemOrder DEF iteratingOp, Admits, Within
  <2>5. CASE ~q.values
    <3>1. iteratingOp(q) = "NODUP" /\ ~ValuesForKey(q) BY <2>5 DEF iteratingOp, Sensible
    <3>2. Past(q, e, f) <=> IF q.reverse THEN f[1] < e[1] ELSE e[1] < f[1]
      BY <2>1, <2>5, ItemOrder
    <3>3. Admits("NODUP", e, f) <=> f[1] # e[1] BY DEF Admits
    <3>4. /\ Before(f, e) /\ f[1] # e[1] <=> f[1] < e[1]
          /\ Before(e, f) /\ f[1] # e[1] <=> e[1] < f[1]
      BY <2>2 DEF Before
    <3> QED BY <3>1, <3>2, <3>3, <3>4 DEF Within
  <2> QED BY <2>1, <2>3, <2>4, <2>5
<1>2. N \subseteq Entries /\ N \subseteq d OBVIOUS
<1>3. m = IF q.reverse THEN mdb_cursor_last(N) ELSE mdb_cursor_first(N)
  <2>1. e # NoEntry BY EntryTypes
  <2> QED BY <2>1 DEF Move, mdb_cursor_prev, mdb_cursor_next
<1>4. CASE N = {}
  <2>1. m = NoEntry BY <1>3, <1>4, FirstLast
  <2> QED BY <1>1, <1>4, <2>1
<1>5. CASE N # {}
  <2>1. m \in N /\ \A f \in N : f = m \/ (IF q.reverse THEN Before(f, m) ELSE Before(m, f))
    BY <1>2, <1>3, <1>5, FirstLast
  <2>2. m \in d /\ m \in Entries /\ Within(q, e, m) /\ Past(q, e, m) /\ m # NoEntry
    BY <1>1, <1>2, <2>1, EntryTypes
  <2>3. ASSUME NEW f \in d, Within(q, e, f), Past(q, e, f) PROVE Same(q, m, f) \/ Past(q, m, f)
    <3>1. f \in N /\ f \in Entries BY <1>1, <2>3
    <3>2. f = m \/ (IF q.reverse THEN Before(f, m) ELSE Before(m, f)) BY <2>1, <3>1
    <3>3. CASE q.values BY <2>2, <3>1, <3>2, <3>3, ItemOrder
    <3>4. CASE ~q.values
      <4>1. m[1] \in Nat /\ f[1] \in Nat BY <2>2, <3>1, EntryTypes
      <4>2. f[1] = m[1] \/ (IF q.reverse THEN f[1] < m[1] ELSE m[1] < f[1])
        BY <3>2, <4>1 DEF Before
      <4> QED BY <2>2, <3>1, <3>4, <4>2, ItemOrder
    <3> QED BY <3>3, <3>4
  <2> QED BY <2>2, <2>3
<1> QED BY <1>4, <1>5

-----------------------------------------------------------------------------
(* Where a query starts. *)

\* A database without duplicates.
Single(d) == \A e, f \in d : e[1] = f[1] => e = f

\* The entries that are not before the start, for a query from key k.
Onward(q, x) == IF q.reverse THEN x <= q.start ELSE x >= q.start
Reach(q, d, k) ==
    {e \in d : IF ValuesForKey(q) THEN e[1] = k /\ (q.start = NoKey \/ Onward(q, e[2]))
               ELSE k = NoKey \/ (IF q.reverse THEN e[1] <= k ELSE e[1] >= k)}

\* A reverse query for all values of a dupSort database does not find the last
\* value of its start key (see ReverseStart.cfg).
FindsStart(q, d, k) ==
    q.values /\ ~ValuesForKey(q) /\ q.reverse /\ k # NoKey => Single(d)

\* m is the first of the entries in R.
Leads(q, R, m) ==
    /\ m = NoEntry => R = {}
    /\ m # NoEntry => m \in R /\ \A f \in R : Same(q, m, f) \/ Past(q, m, f)

\* The first and the last of a set of entries lead it.
LEMMA ExtremesLead ==
    ASSUME NEW q \in Queries, NEW R, R \subseteq Entries
    PROVE  /\ ~q.reverse => Leads(q, R, mdb_cursor_first(R))
           /\ q.reverse => Leads(q, R, mdb_cursor_last(R))
<1>1. CASE R = {} BY <1>1, FirstLast DEF Leads
<1>2. CASE R # {}
  <2> DEFINE m == IF q.reverse THEN mdb_cursor_last(R) ELSE mdb_cursor_first(R)
  <2>1. m \in R /\ \A f \in R : f = m \/ (IF q.reverse THEN Before(f, m) ELSE Before(m, f))
    BY <1>2, FirstLast
  <2> HIDE DEF m
  <2>2. m # NoEntry /\ m \in Entries BY <2>1, EntryTypes
  <2>3. \A f \in R : Same(q, m, f) \/ Past(q, m, f)
    <3> TAKE f \in R
    <3>1. f \in Entries /\ (f = m \/ (IF q.reverse THEN Before(f, m) ELSE Before(m, f)))
      BY <2>1
    <3>2. q.values \in BOOLEAN BY DEF Queries
    <3>3. CASE q.values BY <2>2, <3>1, <3>3, ItemOrder
    <3>4. CASE ~q.values
      <4>1. m[1] \in Nat /\ f[1] \in Nat BY <2>2, <3>1, EntryTypes
      <4>2. f[1] = m[1] \/ (IF q.reverse THEN f[1] < m[1] ELSE m[1] < f[1])
        BY <3>1, <4>1 DEF Before
      <4> QED BY <2>2, <3>1, <3>4, <4>2, ItemOrder
    <3> QED BY <3>2, <3>3, <3>4
  <2>4. Leads(q, R, m) BY <2>1, <2>2, <2>3 DEF Leads
  <2> QED BY <2>4 DEF m
<1> QED BY <1>1, <1>2

\* The first entry of a query for the values of a key.
LEMMA ValuesStart ==
    ASSUME NEW q \in Queries, ValuesForKey(q), q.values, q.kind # "exists",
           NEW d, d \subseteq Entries, NEW k \in Nat
    PROVE  Leads(q, Reach(q, d, k), FirstOfValues(q, d, k))
<1> DEFINE R == Reach(q, d, k)
           S == {e \in OfKey(d, k) : e[2] >= q.start}
           found == mdb_cursor_first(S)
<1>1. /\ R \subseteq Entries /\ S \subseteq Entries /\ OfKey(d, k) \subseteq Entries
      /\ q.start \in Nat /\ q.reverse \in BOOLEAN
      /\ \A e \in d : e[1] \in Nat /\ e[2] \in Nat /\ e = <<e[1], e[2]>>
  <2>1. q.start \in Nat BY ScansAssumption DEF Queries, NoKey
  <2> QED BY <2>1, EntryTypes DEF Reach, OfKey, Queries
<1>2. CASE q.start = NoKey
  <2>1. R = OfKey(d, k) BY <1>2 DEF Reach, OfKey
  <2>2. FirstOfValues(q, d, k) = IF q.reverse THEN mdb_cursor_last(R) ELSE mdb_cursor_first(R)
    BY <1>2, <2>1 DEF FirstOfValues, mdb_cursor_set
  <2> QED BY <1>1, <2>2, ExtremesLead
<1>3. CASE q.start # NoKey /\ ~q.reverse
  <2>1. R = S BY <1>3 DEF Reach, OfKey, Onward
  <2>2. FirstOfValues(q, d, k) = mdb_cursor_first(R)
    BY <1>3, <2>1 DEF FirstOfValues, mdb_cursor_set
  <2> QED BY <1>1, <1>3, <2>2, ExtremesLead
<1>4. CASE q.start # NoKey /\ q.reverse
  <2>1. R = {e \in d : e[1] = k /\ e[2] <= q.start} BY <1>4 DEF Reach, Onward
  <2>2. FirstOfValues(q, d, k) = IF found = NoEntry THEN mdb_cursor_last(OfKey(d, k))
                                 ELSE IF found[2] # q.start THEN mdb_cursor_prev(d, found, "DUP")
                                 ELSE found
    BY <1>4 DEF FirstOfValues, mdb_cursor_set
  <2>3. CASE found = NoEntry
    <3>1. S = {} BY <1>1, <2>3, FirstLast, EntryTypes
    <3>2. R = OfKey(d, k) BY <1>1, <2>1, <3>1 DEF OfKey
    <3> QED BY <1>1, <1>4, <2>2, <2>3, <3>2, ExtremesLead
  <2>4. CASE found # NoEntry
    <3>1. found \in S /\ \A f \in S : f = found \/ Before(found, f)
      BY <1>1, <2>4, FirstLast
    <3> HIDE DEF found
    <3>2. found \in d /\ found \in Entries /\ found[1] = k /\ found[2] \in Nat /\ found[2] >= q.start
      BY <1>1, <3>1 DEF OfKey
    <3>3. \A f \in d : f[1] = k /\ f[2] >= q.start => found[2] <= f[2]
      <4> SUFFICES ASSUME NEW f \in d, f[1] = k, f[2] >= q.start PROVE found[2] <= f[2]
        OBVIOUS
      <4>1. f = found \/ Before(found, f) BY <3>1 DEF OfKey
      <4> QED BY <1>1, <3>2, <4>1 DEF Before
    <3>4. CASE found[2] # q.start
      <4>1. R = {f \in d : Before(f, found) /\ Admits("DUP", found, f)}
        <5>1. ASSUME NEW f \in d
              PROVE  (f[1] = k /\ f[2] <= q.start) <=> (Before(f, found) /\ Admits("DUP", found, f))
          <6>1. f[1] \in Nat /\ f[2] \in Nat BY <1>1
          <6>2. Admits("DUP", found, f) <=> f[1] = k BY <3>2 DEF Admits
          <6>3. f[1] = k => (Before(f, found) <=> f[2] < found[2]) BY <3>2, <6>1 DEF Before
          <6>4. f[1] = k => (f[2] <= q.start <=> f[2] < found[2])
            BY <1>1, <3>2, <3>3, <3>4, <6>1
          <6> QED BY <6>2, <6>3, <6>4
        <5> QED BY <2>1, <5>1
      <4>2. FirstOfValues(q, d, k) = mdb_cursor_last(R)
        BY <2>2, <2>4, <3>4, <4>1 DEF mdb_cursor_prev
      <4> QED BY <1>1, <1>4, <4>2, ExtremesLead
    <3>5. CASE found[2] = q.start
      <4>1. found \in R BY <2>1, <3>2, <3>5
      <4>2. \A f \in R : Same(q, found, f) \/ Past(q, found, f)
        <5> TAKE f \in R
        <5>1. f \in Entries /\ f \in d /\ f[1] = k /\ f[2] <= found[2] BY <1>1, <2>1, <3>5
        <5>2. f = found \/ Before(f, found)
          <6>1. f = <<f[1], f[2]>> /\ found = <<found[1], found[2]>> /\ f[2] \in Nat
            BY <1>1, <3>2, <5>1
          <6> QED BY <3>2, <5>1, <6>1 DEF Before
        <5> QED BY <1>4, <3>2, <5>1, <5>2, ItemOrder
      <4> QED BY <2>2, <2>4, <3>5, <4>1, <4>2 DEF Leads
    <3> QED BY <3>4, <3>5
  <2> QED BY <2>3, <2>4
<1> QED BY <1>1, <1>2, <1>3, <1>4

\* The first entry of a query over keys.
LEMMA RangeStart ==
    ASSUME NEW q \in Queries, ~ValuesForKey(q),
           NEW d, d \subseteq Entries, NEW k \in Nat, FindsStart(q, d, k)
    PROVE  Leads(q, Reach(q, d, k), FirstOfRange(q, d, k))
<1> DEFINE R == Reach(q, d, k)
           S == {e \in d : e[1] >= k}
           found == mdb_cursor_first(S)
<1>1. /\ R \subseteq Entries /\ S \subseteq Entries /\ q.reverse \in BOOLEAN /\ q.values \in BOOLEAN
      /\ \A e \in d : e[1] \in Nat /\ e[2] \in Nat /\ e = <<e[1], e[2]>>
  BY EntryTypes DEF Reach, Queries
<1>2. CASE k = NoKey
  <2>1. R = d BY <1>2 DEF Reach
  <2>2. FirstOfRange(q, d, k) = IF q.reverse THEN mdb_cursor_last(R) ELSE mdb_cursor_first(R)
    BY <1>2, <2>1 DEF FirstOfRange
  <2> QED BY <1>1, <2>2, ExtremesLead
<1>3. CASE k # NoKey /\ ~q.reverse
  <2>1. R = S BY <1>3 DEF Reach
  <2>2. FirstOfRange(q, d, k) = mdb_cursor_first(R)
    BY <1>3, <2>1 DEF FirstOfRange, mdb_cursor_set
  <2> QED BY <1>1, <1>3, <2>2, ExtremesLead
<1>4. CASE k # NoKey /\ q.reverse
  <2>1. R = {e \in d : e[1] <= k} BY <1>4 DEF Reach
  <2>2. FirstOfRange(q, d, k) = IF found = NoEntry THEN mdb_cursor_last(d)
                                ELSE IF found[1] # k THEN mdb_cursor_prev(d, found, "ALL")
                                ELSE found
    BY <1>4 DEF FirstOfRange, mdb_cursor_set
  <2>3. CASE found = NoEntry
    <3>1. S = {} BY <1>1, <2>3, FirstLast, EntryTypes
    <3>2. R = d BY <1>1, <2>1, <3>1
    <3> QED BY <1>1, <1>4, <2>2, <2>3, <3>2, ExtremesLead
  <2>4. CASE found # NoEntry
    <3>1. found \in S /\ \A f \in S : f = found \/ Before(found, f)
      BY <1>1, <2>4, FirstLast
    <3> HIDE DEF found
    <3>2. found \in d /\ found \in Entries /\ found[1] \in Nat /\ found[1] >= k /\ found[2] \in Nat
      BY <1>1, <3>1
    <3>3. \A f \in d : f[1] >= k => f = found \/ Before(found, f)
      BY <3>1
    <3>4. CASE found[1] # k
      <4>1. R = {f \in d : Before(f, found) /\ Admits("ALL", found, f)}
        <5>1. ASSUME NEW f \in d
              PROVE  f[1] <= k <=> (Before(f, found) /\ Admits("ALL", found, f))
          <6>1. f[1] \in Nat /\ f[2] \in Nat BY <1>1
          <6>2. Admits("ALL", found, f) BY DEF Admits
          <6>3. f[1] <= k => Before(f, found) BY <3>2, <3>4, <6>1 DEF Before
          <6>4. ~(f[1] <= k) => ~Before(f, found)
            BY <1>1, <3>2, <3>3, <6>1 DEF Before
          <6> QED BY <6>2, <6>3, <6>4
        <5> QED BY <2>1, <5>1
      <4>2. FirstOfRange(q, d, k) = mdb_cursor_last(R)
        BY <2>2, <2>4, <3>4, <4>1 DEF mdb_cursor_prev
      <4> QED BY <1>1, <1>4, <4>2, ExtremesLead
    <3>5. CASE found[1] = k
      <4>1. found \in R BY <2>1, <3>2, <3>5
      <4>2. \A f \in R : Same(q, found, f) \/ Past(q, found, f)
        <5> TAKE f \in R
        <5>1. f \in Entries /\ f \in d /\ f[1] <= found[1] /\ f[1] \in Nat BY <1>1, <2>1, <3>5
        <5>2. CASE q.values
          <6>1. f = found \/ f[1] < found[1]
            BY <1>4, <3>2, <5>1, <5>2 DEF FindsStart, Single
          <6>2. f = found \/ Before(f, found) BY <6>1 DEF Before
          <6> QED BY <1>4, <3>2, <5>1, <5>2, <6>2, ItemOrder
        <5>3. CASE ~q.values
          <6>1. f[1] = found[1] \/ f[1] < found[1] BY <3>2, <5>1
          <6> QED BY <1>4, <3>2, <5>1, <5>3, <6>1, ItemOrder
        <5> QED BY <1>1, <5>2, <5>3
      <4> QED BY <2>2, <2>4, <3>5, <4>1, <4>2 DEF Leads
    <3> QED BY <3>4, <3>5
  <2> QED BY <2>3, <2>4
<1> QED BY <1>1, <1>2, <1>3, <1>4

\* The first entry of a query.
LEMMA FirstStep ==
    ASSUME NEW q \in Queries, Sensible(q), q.kind # "exists",
           NEW d, d \subseteq Entries, NEW k \in Nat, FindsStart(q, d, k)
    PROVE  Leads(q, Reach(q, d, k), FirstEntry(q, d, k))
BY ValuesStart, RangeStart DEF Sensible, FirstEntry

\* A move from an entry, or from nothing, is to an entry or to nothing.
LEMMA MoveTypes ==
    ASSUME NEW q, NEW d, d \subseteq Entries, NEW op, NEW e
    PROVE  /\ Move(q, d, e, op) \in Entries \cup {NoEntry}
           /\ Move(q, d, NoEntry, op) = NoEntry
<1>1. \A S : S \subseteq Entries => /\ mdb_cursor_first(S) \in Entries \cup {NoEntry}
                                    /\ mdb_cursor_last(S) \in Entries \cup {NoEntry}
  <2> SUFFICES ASSUME NEW S, S \subseteq Entries
               PROVE  /\ mdb_cursor_first(S) \in Entries \cup {NoEntry}
                      /\ mdb_cursor_last(S) \in Entries \cup {NoEntry}
    OBVIOUS
  <2>1. CASE S = {} BY <2>1, FirstLast
  <2>2. CASE S # {} BY <2>2, FirstLast
  <2> QED BY <2>1, <2>2
<1>2. /\ mdb_cursor_next(d, e, op) \in Entries \cup {NoEntry}
      /\ mdb_cursor_prev(d, e, op) \in Entries \cup {NoEntry}
  <2> DEFINE N == {f \in d : Before(e, f) /\ Admits(op, e, f)}
             P == {f \in d : Before(f, e) /\ Admits(op, e, f)}
  <2>1. N \subseteq Entries /\ P \subseteq Entries OBVIOUS
  <2>2. /\ mdb_cursor_next(d, e, op) = NoEntry \/ mdb_cursor_next(d, e, op) = mdb_cursor_first(N)
        /\ mdb_cursor_prev(d, e, op) = NoEntry \/ mdb_cursor_prev(d, e, op) = mdb_cursor_last(P)
    BY DEF mdb_cursor_next, mdb_cursor_prev
  <2> HIDE DEF N, P
  <2> QED BY <1>1, <2>1, <2>2
<1> QED BY <1>2 DEF Move, mdb_cursor_next, mdb_cursor_prev

\* g is what n moves meet from the first entry on.
MeetsBy(g, q, d, first, op, n) ==
    /\ g \in [0..n -> Entries \cup {NoEntry}] /\ g[0] = first
    /\ \A i \in 1..n : g[i] = Move(q, d, g[i - 1], op)

\* The entries that a number of moves meet.
LEMMA VisitedMoves ==
    ASSUME NEW q, NEW d, d \subseteq Entries, NEW first \in Entries \cup {NoEntry},
           NEW op, NEW n \in Nat
    PROVE  MeetsBy(Visited(q, d, first, op, n), q, d, first, op, n)
<1> DEFINE EN == Entries \cup {NoEntry}
           F == [e \in EN |-> Move(q, d, e, op)]
           visit[i \in 0..n] == IF i = 0 THEN first ELSE Move(q, d, visit[i - 1], op)
<1>1. first \in EN OBVIOUS
<1>2. F \in [EN -> EN] BY MoveTypes
<1> HIDE DEF F, EN
<1>3. PICK g : MovesOf(g, EN, first, F, n) BY <1>1, <1>2, MovesExist
<1>4. g \in [0..n -> EN] /\ g[0] = first /\ \A i \in 1..n : g[i] = F[g[i - 1]]
  BY <1>3 DEF MovesOf
<1>5. \A i \in 1..n : g[i] = Move(q, d, g[i - 1], op)
  <2> TAKE i \in 1..n
  <2>1. i - 1 \in 0..n OBVIOUS
  <2>2. g[i - 1] \in EN BY <1>4, <2>1
  <2>3. F[g[i - 1]] = Move(q, d, g[i - 1], op) BY <2>2 DEF F
  <2> QED BY <1>4, <2>3
<1>6. g = [i \in 0..n |-> IF i = 0 THEN first ELSE Move(q, d, g[i - 1], op)]
  BY <1>4, <1>5
<1>7. visit = [i \in 0..n |-> IF i = 0 THEN first ELSE Move(q, d, visit[i - 1], op)]
  BY <1>6
<1>8. Visited(q, d, first, op, n) = visit BY DEF Visited
<1> HIDE DEF visit
<1>9. visit[0] = first /\ \A i \in 1..n : visit[i] = Move(q, d, visit[i - 1], op)
  BY <1>7
<1>10. \A i \in 0..n : visit[i] \in EN
  <2> TAKE i \in 0..n
  <2>1. CASE i = 0 BY <1>1, <1>9, <2>1
  <2>2. CASE i # 0 BY <1>9, <2>2, MoveTypes DEF EN
  <2> QED BY <2>1, <2>2
<1>11. visit \in [0..n -> EN] BY <1>7, <1>10
<1>12. MeetsBy(visit, q, d, first, op, n) BY <1>9, <1>11 DEF EN, MeetsBy
<1> QED BY <1>8, <1>12

\* Without an offset doPosition finds the first entry.
LEMMA PositionFirst ==
    ASSUME NEW q, NEW d, d \subseteq Entries, NEW k, FirstEntry(q, d, k) \in Entries \cup {NoEntry}
    PROVE  doPosition(q, d, k, 0) = FirstEntry(q, d, k)
<1>1. PICK a, op : a = FirstEntry(q, d, k) /\ op = iteratingOp(q) OBVIOUS
<1>2. PICK g : g = Visited(q, d, a, op, 0) OBVIOUS
<1>3. MeetsBy(Visited(q, d, a, op, 0), q, d, a, op, 0) BY <1>1, VisitedMoves
<1>4. g[0] = a BY <1>2, <1>3 DEF MeetsBy
<1> QED BY <1>1, <1>2, <1>4 DEF doPosition

-----------------------------------------------------------------------------
(* What a query wants. *)

\* Where a query starts to read.
From(q) == IF ValuesForKey(q) THEN q.key ELSE q.start

\* What is past the end stays past it as the query goes on.
LEMMA EndStays ==
    ASSUME NEW q \in Queries, Sensible(q), NEW e \in Entries, NEW f \in Entries, Within(q, e, f)
    PROVE  /\ PastEnd(q, e) /\ Past(q, e, f) => PastEnd(q, f)
           /\ Same(q, e, f) => (PastEnd(q, e) <=> PastEnd(q, f))
<1>1. /\ e[1] \in Nat /\ e[2] \in Nat /\ f[1] \in Nat /\ f[2] \in Nat
      /\ e = <<e[1], e[2]>> /\ f = <<f[1], f[2]>>
      /\ q.end \in Nat /\ q.reverse \in BOOLEAN /\ q.values \in BOOLEAN
  BY EntryTypes, ScansAssumption DEF Queries, NoKey
<1>2. CASE ValuesForKey(q)
  <2>1. q.values /\ f[1] = e[1] BY <1>2 DEF Sensible, Within
  <2>2. /\ Past(q, e, f) <=> IF q.reverse THEN f[2] < e[2] ELSE e[2] < f[2]
        /\ Same(q, e, f) <=> e[2] = f[2]
    BY <1>1, <2>1, ItemOrder DEF Before
  <2>3. CASE q.reverse BY <1>1, <1>2, <2>2, <2>3 DEF PastEnd
  <2>4. CASE ~q.reverse BY <1>1, <1>2, <2>2, <2>4 DEF PastEnd
  <2> QED BY <2>3, <2>4
<1>3. CASE ~ValuesForKey(q)
  <2>1. /\ Past(q, e, f) => IF q.reverse THEN f[1] <= e[1] ELSE e[1] <= f[1]
        /\ Same(q, e, f) => e[1] = f[1]
    <3>1. CASE q.values BY <1>1, <3>1, ItemOrder DEF Before
    <3>2. CASE ~q.values BY <1>1, <3>2, ItemOrder
    <3> QED BY <1>1, <3>1, <3>2
  <2>3. CASE q.reverse BY <1>1, <1>3, <2>1, <2>3 DEF PastEnd
  <2>4. CASE ~q.reverse BY <1>1, <1>3, <2>1, <2>4 DEF PastEnd
  <2> QED BY <2>3, <2>4
<1> QED BY <1>2, <1>3

\* A query wants what it reaches, up to its end.
LEMMA WantedReach ==
    ASSUME NEW q \in Queries, NEW d, d \subseteq Entries
    PROVE  /\ Wanted(q, d) = {e \in Reach(q, d, From(q)) : ~PastEnd(q, e)}
           /\ Wanted(q, d) \subseteq d
           /\ From(q) \in Nat
<1>1. /\ \A e \in d : e[1] \in Nat /\ e[2] \in Nat
      /\ q.end \in Nat /\ q.start \in Nat /\ q.key \in Nat /\ q.reverse \in BOOLEAN
  BY EntryTypes, ScansAssumption DEF Queries, NoKey
<1>2. ASSUME NEW e \in d
      PROVE  e \in Wanted(q, d) <=> e \in Reach(q, d, From(q)) /\ ~PastEnd(q, e)
  <2>1. e[1] \in Nat /\ e[2] \in Nat BY <1>1
  <2>2. CASE ValuesForKey(q) /\ q.reverse
    BY <1>1, <2>1, <2>2 DEF Wanted, Reach, Onward, From, PastEnd
  <2>3. CASE ValuesForKey(q) /\ ~q.reverse
    BY <1>1, <2>1, <2>3 DEF Wanted, Reach, Onward, From, PastEnd
  <2>4. CASE ~ValuesForKey(q) /\ q.reverse
    BY <1>1, <2>1, <2>4 DEF Wanted, Reach, From, PastEnd
  <2>5. CASE ~ValuesForKey(q) /\ ~q.reverse
    BY <1>1, <2>1, <2>5 DEF Wanted, Reach, From, PastEnd
  <2> QED BY <2>2, <2>3, <2>4, <2>5
<1>3. Wanted(q, d) \subseteq d /\ Reach(q, d, From(q)) \subseteq d BY DEF Wanted, Reach
<1>4. From(q) \in Nat BY <1>1 DEF From
<1> QED BY <1>2, <1>3, <1>4

\* What a query reaches from k on is closed under moving on.
LEMMA ReachStays ==
    ASSUME NEW q \in Queries, Sensible(q), NEW d, d \subseteq Entries, NEW k \in Nat,
           NEW e \in Reach(q, d, k), NEW f \in d, Within(q, e, f), Past(q, e, f)
    PROVE  f \in Reach(q, d, k)
<1>1. /\ e \in Entries /\ f \in Entries /\ e[1] \in Nat /\ e[2] \in Nat /\ f[1] \in Nat /\ f[2] \in Nat
      /\ q.start \in Nat /\ q.reverse \in BOOLEAN /\ q.values \in BOOLEAN
  BY EntryTypes, ScansAssumption DEF Queries, NoKey, Reach
<1>2. CASE ValuesForKey(q)
  <2>1. q.values /\ f[1] = e[1] BY <1>2 DEF Sensible, Within
  <2>2. IF q.reverse THEN f[2] < e[2] ELSE e[2] < f[2]
    BY <1>1, <2>1, ItemOrder DEF Before
  <2>3. CASE q.reverse BY <1>1, <1>2, <2>1, <2>2, <2>3 DEF Reach, Onward
  <2>4. CASE ~q.reverse BY <1>1, <1>2, <2>1, <2>2, <2>4 DEF Reach, Onward
  <2> QED BY <2>3, <2>4
<1>3. CASE ~ValuesForKey(q)
  <2>1. IF q.reverse THEN f[1] <= e[1] ELSE e[1] <= f[1]
    <3>1. CASE q.values BY <1>1, <3>1, ItemOrder DEF Before
    <3>2. CASE ~q.values BY <1>1, <3>2, ItemOrder
    <3> QED BY <1>1, <3>1, <3>2
  <2>3. CASE q.reverse BY <1>1, <1>3, <2>1, <2>3 DEF Reach
  <2>4. CASE ~q.reverse BY <1>1, <1>3, <2>1, <2>4 DEF Reach
  <2> QED BY <2>3, <2>4
<1> QED BY <1>2, <1>3

\* All that a query for values reaches is at its key.
LEMMA ReachWithin ==
    ASSUME NEW q, NEW d, NEW k, NEW e \in Reach(q, d, k), NEW f \in Reach(q, d, k)
    PROVE  Within(q, e, f)
BY DEF Within, Reach

-----------------------------------------------------------------------------
(* The place of an item in the answer. *)

\* The items that come before x.
Earlier(q, d, x) == {y \in Items(q, d) : Ahead(q, y, x)}
Place(q, d, x) == Cardinality(Earlier(q, d, x))

LEMMA ItemsFinite ==
    ASSUME NEW q \in Queries, NEW d, d \subseteq Entries
    PROVE  /\ IsFiniteSet(Items(q, d)) /\ Cardinality(Items(q, d)) \in Nat
           /\ \A x : IsFiniteSet(Earlier(q, d, x)) /\ Place(q, d, x) \in Nat
                     /\ Place(q, d, x) <= Cardinality(Items(q, d))
           /\ \A x \in Items(q, d) : x \in Pairs /\ Place(q, d, x) < Cardinality(Items(q, d))
<1>1. IsFiniteSet(d) BY EntryTypes, Counted
<1>2. Wanted(q, d) \subseteq d BY WantedReach
<1>3. IsFiniteSet(Wanted(q, d)) BY <1>1, <1>2, FS_Subset
<1>4. IsFiniteSet(Items(q, d))
  <2> DEFINE f == [e \in Wanted(q, d) |-> Item(q, e)]
  <2>1. f \in Surjection(Wanted(q, d), Items(q, d)) BY DEF Surjection, Items
  <2> HIDE DEF f
  <2> QED BY <1>3, <2>1, FS_Surjection
<1>5. \A x \in Items(q, d) : x \in Pairs
  <2>1. \A e \in Wanted(q, d) : e \in Entries BY <1>2
  <2>2. \A e \in Entries : Item(q, e) \in Pairs BY EntryTypes DEF Item, Pairs
  <2> QED BY <2>1, <2>2 DEF Items
<1>6. \A x : Earlier(q, d, x) \subseteq Items(q, d) BY DEF Earlier
<1>7. \A x \in Items(q, d) : x \notin Earlier(q, d, x)
  BY <1>5, OrderFacts DEF Earlier, Ahead
<1> DEFINE I == Items(q, d)
<1> HIDE DEF I
<1>8. \A T : T \subseteq I => IsFiniteSet(T) /\ Cardinality(T) \in Nat /\ Cardinality(I) \in Nat
                              /\ Cardinality(T) <= Cardinality(I)
                              /\ (T # I => Cardinality(T) < Cardinality(I))
  <2>1. IsFiniteSet(I) BY <1>4 DEF I
  <2> QED BY <2>1, Counted
<1> QED BY <1>4, <1>5, <1>6, <1>7, <1>8 DEF I, Place

\* Items with the same place are the same.
LEMMA PlaceUnique ==
    ASSUME NEW q \in Queries, NEW d, d \subseteq Entries,
           NEW x \in Items(q, d), NEW y \in Items(q, d), Place(q, d, x) = Place(q, d, y)
    PROVE  x = y
<1>1. \A u, v \in Items(q, d) : Ahead(q, u, v) => Place(q, d, u) < Place(q, d, v)
  <2> SUFFICES ASSUME NEW u \in Items(q, d), NEW v \in Items(q, d), Ahead(q, u, v)
               PROVE  Place(q, d, u) < Place(q, d, v)
    OBVIOUS
  <2> DEFINE U == Earlier(q, d, u)
             V == Earlier(q, d, v)
  <2>1. \A z \in Items(q, d) : z \in Pairs BY ItemsFinite
  <2>2. U \subseteq V /\ u \in V /\ u \notin U
    BY <2>1, OrderFacts DEF Earlier, Ahead
  <2>3. IsFiniteSet(V) BY ItemsFinite
  <2> HIDE DEF U, V
  <2>4. Cardinality(U) < Cardinality(V) BY <2>2, <2>3, Counted
  <2> QED BY <2>4 DEF U, V, Place
<1>2. x \in Pairs /\ y \in Pairs BY ItemsFinite
<1>3. x = y \/ Ahead(q, x, y) \/ Ahead(q, y, x) BY <1>2, OrderFacts DEF Ahead
<1>4. Place(q, d, x) \in Nat /\ Place(q, d, y) \in Nat BY ItemsFinite
<1> QED BY <1>1, <1>3, <1>4

\* The first item has place 0.
LEMMA FirstPlace ==
    ASSUME NEW q \in Queries, Sensible(q), NEW d, d \subseteq Entries, NEW m,
           Leads(q, Reach(q, d, From(q)), m)
    PROVE  IF m = NoEntry \/ PastEnd(q, m) THEN Items(q, d) = {}
           ELSE m \in Wanted(q, d) /\ Place(q, d, Item(q, m)) = 0
<1> DEFINE R == Reach(q, d, From(q))
<1>1. /\ Wanted(q, d) = {e \in R : ~PastEnd(q, e)} /\ From(q) \in Nat
      /\ R \subseteq Entries
  BY WantedReach DEF Reach
<1>2. CASE m = NoEntry
  <2>1. R = {} BY <1>2 DEF Leads
  <2> QED BY <1>1, <1>2, <2>1 DEF Items
<1>3. CASE m # NoEntry /\ PastEnd(q, m)
  <2>1. m \in R /\ \A f \in R : Same(q, m, f) \/ Past(q, m, f) BY <1>3 DEF Leads
  <2>2. \A f \in R : PastEnd(q, f)
    <3> TAKE f \in R
    <3>1. Within(q, m, f) BY <2>1, ReachWithin
    <3>2. m \in Entries /\ f \in Entries BY <1>1, <2>1
    <3> QED BY <1>3, <2>1, <3>1, <3>2, EndStays
  <2> QED BY <1>1, <1>3, <2>2 DEF Items
<1>4. CASE m # NoEntry /\ ~PastEnd(q, m)
  <2>1. m \in R /\ \A f \in R : Same(q, m, f) \/ Past(q, m, f) BY <1>4 DEF Leads
  <2>2. m \in Wanted(q, d) BY <1>1, <1>4, <2>1
  <2>3. Earlier(q, d, Item(q, m)) = {}
    <3>1. ASSUME NEW f \in Wanted(q, d), Ahead(q, Item(q, f), Item(q, m)) PROVE FALSE
      <4>1. f \in R /\ f \in Entries /\ m \in Entries BY <1>1, <2>1
      <4>2. Past(q, f, m) BY <3>1 DEF Past
      <4> QED BY <2>1, <4>1, <4>2, ItemFacts
    <3> QED BY <3>1 DEF Earlier, Items
  <2> QED BY <1>4, <2>2, <2>3, FS_EmptySet DEF Place
<1> QED BY <1>2, <1>3, <1>4

\* A move raises the place by one.
LEMMA NextPlace ==
    ASSUME NEW q \in Queries, Sensible(q), NEW d, d \subseteq Entries,
           NEW e \in Wanted(q, d), NEW m, m = Move(q, d, e, iteratingOp(q))
    PROVE  IF m = NoEntry \/ PastEnd(q, m)
           THEN Cardinality(Items(q, d)) = Place(q, d, Item(q, e)) + 1
           ELSE m \in Wanted(q, d) /\ Place(q, d, Item(q, m)) = Place(q, d, Item(q, e)) + 1
<1> DEFINE R == Reach(q, d, From(q))
           W == Wanted(q, d)
           I == Items(q, d)
           E == Earlier(q, d, Item(q, e))
<1>1. /\ W = {f \in R : ~PastEnd(q, f)} /\ From(q) \in Nat /\ W \subseteq R
      /\ R \subseteq Entries /\ R \subseteq d /\ W \subseteq Entries
  BY WantedReach DEF Reach
<1>2. e \in Entries /\ e \in R /\ ~PastEnd(q, e) BY <1>1
<1>3. /\ m = NoEntry => \A f \in d : Within(q, e, f) => ~Past(q, e, f)
      /\ m # NoEntry => /\ m \in d /\ Within(q, e, m) /\ Past(q, e, m)
                        /\ \A f \in d : Within(q, e, f) /\ Past(q, e, f) =>
                             Same(q, m, f) \/ Past(q, m, f)
  BY <1>2, MoveStep, SMTT(30)
<1>4. Item(q, e) \in I /\ Item(q, e) \notin E
  <2>1. Item(q, e) \in I BY DEF Items
  <2>2. Item(q, e) \in Pairs BY <2>1, ItemsFinite
  <2> QED BY <2>1, <2>2, OrderFacts DEF Earlier, Ahead
<1>5. IsFiniteSet(E) /\ Cardinality(E \cup {Item(q, e)}) = Cardinality(E) + 1
  <2>1. IsFiniteSet(E) BY ItemsFinite
  <2> QED BY <1>4, <2>1, FS_AddElement
<1>6. \A f \in W : f \in d /\ f \in Entries /\ Within(q, e, f) BY <1>1, <1>2, ReachWithin
<1>7. CASE m = NoEntry \/ PastEnd(q, m)
  <2>1. ASSUME NEW f \in W PROVE ~Past(q, e, f)
    <3>1. f \in d /\ f \in Entries /\ Within(q, e, f) /\ ~PastEnd(q, f) BY <1>1, <1>6
    <3>2. ASSUME Past(q, e, f) PROVE FALSE
      <4>1. m # NoEntry /\ PastEnd(q, m) /\ m \in Entries BY <1>3, <1>7, <3>1, <3>2
      <4>2. Same(q, m, f) \/ Past(q, m, f) BY <1>3, <3>1, <3>2, <4>1
      <4>3. Within(q, m, f) BY <1>3, <3>1, <4>1 DEF Within
      <4> QED BY <3>1, <4>1, <4>2, <4>3, EndStays
    <3> QED BY <3>2
  <2>2. I = E \cup {Item(q, e)}
    <3>1. ASSUME NEW f \in W PROVE Item(q, f) \in E \cup {Item(q, e)}
      <4>1. Same(q, e, f) \/ Past(q, f, e) BY <1>2, <1>6, <2>1, <3>1, ItemFacts
      <4>2. Item(q, f) \in I BY <3>1 DEF Items
      <4> QED BY <4>1, <4>2 DEF Same, Past, Earlier
    <3>2. \A x \in I : \E f \in W : x = Item(q, f) BY DEF Items
    <3>3. E \subseteq I BY DEF Earlier
    <3> HIDE DEF I, E, W
    <3> QED BY <1>4, <3>1, <3>2, <3>3
  <2> QED BY <1>5, <1>7, <2>2 DEF Place
<1>8. CASE m # NoEntry /\ ~PastEnd(q, m)
  <2>1. m \in R BY <1>1, <1>2, <1>3, <1>8, ReachStays
  <2>2. m \in W /\ m \in Entries BY <1>1, <1>8, <2>1
  <2> DEFINE M == Earlier(q, d, Item(q, m))
  <2>3. \A f \in W : Past(q, f, m) <=> Same(q, e, f) \/ Past(q, f, e)
    <3> TAKE f \in W
    <3>1. f \in d /\ f \in Entries /\ Within(q, e, f) BY <1>6
    <3>2. CASE Same(q, e, f)
      <4>1. Past(q, f, m) BY <1>2, <1>3, <1>8, <2>2, <3>1, <3>2, ItemFacts DEF Same
      <4> QED BY <3>2, <4>1
    <3>3. CASE Past(q, f, e)
      <4>1. Past(q, f, m) BY <1>2, <1>3, <1>8, <2>2, <3>1, <3>3, ItemFacts
      <4> QED BY <3>3, <4>1
    <3>4. CASE Past(q, e, f)
      <4>1. Same(q, m, f) \/ Past(q, m, f) BY <1>3, <1>8, <3>1, <3>4
      <4>2. ~Past(q, f, m) BY <2>2, <3>1, <4>1, ItemFacts DEF Same
      <4>3. ~Same(q, e, f) /\ ~Past(q, f, e) BY <1>2, <3>1, <3>4, ItemFacts
      <4> QED BY <4>2, <4>3
    <3> QED BY <1>2, <3>1, <3>2, <3>3, <3>4, ItemFacts
  <2>4. M = E \cup {Item(q, e)}
    <3>1. \A f \in W : Ahead(q, Item(q, f), Item(q, m)) <=>
            Item(q, e) = Item(q, f) \/ Ahead(q, Item(q, f), Item(q, e))
      BY <2>3 DEF Past, Same
    <3>2. \A x \in I : Ahead(q, x, Item(q, m)) <=> Item(q, e) = x \/ Ahead(q, x, Item(q, e))
      BY <3>1 DEF Items
    <3> HIDE DEF I
    <3>3. /\ \A x : x \in M <=> x \in I /\ Ahead(q, x, Item(q, m))
          /\ \A x : x \in E <=> x \in I /\ Ahead(q, x, Item(q, e))
      BY DEF Earlier, I
    <3> HIDE DEF M, E
    <3> QED BY <1>4, <3>2, <3>3
  <2> QED BY <1>5, <1>8, <2>2, <2>4 DEF Place
<1> QED BY <1>7, <1>8

\* e is what a query meets at place p: an item, or the end.
Meets(q, d, e, p) ==
    IF e = NoEntry \/ PastEnd(q, e) THEN Cardinality(Items(q, d)) <= p
    ELSE e \in Wanted(q, d) /\ Place(q, d, Item(q, e)) = p

LEMMA MeetsNext ==
    ASSUME NEW q \in Queries, Sensible(q), NEW d, d \subseteq Entries,
           NEW e \in Entries \cup {NoEntry}, NEW p \in Nat, Meets(q, d, e, p),
           NEW m, m = Move(q, d, e, iteratingOp(q))
    PROVE  Meets(q, d, m, p + 1)
<1>1. p <= p + 1 /\ p + 1 <= p + 1 /\ p + 1 \in Nat /\ Cardinality(Items(q, d)) \in Nat
  BY ItemsFinite
<1>2. CASE e = NoEntry
  <2>1. m = NoEntry BY <1>2, MoveTypes
  <2>2. Cardinality(Items(q, d)) <= p BY <1>2 DEF Meets
  <2> QED BY <1>1, <2>1, <2>2 DEF Meets
<1>3. CASE e # NoEntry /\ PastEnd(q, e)
  <2>1. e \in Entries BY <1>3
  <2>2. Cardinality(Items(q, d)) <= p BY <1>3 DEF Meets
  <2>3. m = NoEntry \/ (m \in Entries /\ Within(q, e, m) /\ Past(q, e, m))
    BY <2>1, MoveStep
  <2>4. m = NoEntry \/ PastEnd(q, m) BY <1>3, <2>1, <2>3, EndStays
  <2> QED BY <1>1, <2>2, <2>4 DEF Meets
<1>4. CASE e # NoEntry /\ ~PastEnd(q, e)
  <2>1. e \in Wanted(q, d) /\ Place(q, d, Item(q, e)) = p BY <1>4 DEF Meets
  <2> QED BY <1>1, <2>1, NextPlace DEF Meets
<1> QED BY <1>2, <1>3, <1>4

\* Every move of a query goes to the next place.
LEMMA VisitedPlaces ==
    ASSUME NEW q \in Queries, Sensible(q), NEW d, d \subseteq Entries,
           NEW first \in Entries \cup {NoEntry}, NEW p \in Nat, Meets(q, d, first, p),
           NEW n \in Nat
    PROVE  \A i \in 0..n : Meets(q, d, Visited(q, d, first, iteratingOp(q), n)[i], p + i)
<1>0. PICK op : op = iteratingOp(q) OBVIOUS
<1> DEFINE g == Visited(q, d, first, op, n)
           Bad == {i \in 0..n : ~Meets(q, d, g[i], p + i)}
<1>1a. MeetsBy(g, q, d, first, op, n) BY VisitedMoves
<1> HIDE DEF g
<1>1. /\ g \in [0..n -> Entries \cup {NoEntry}] /\ g[0] = first
      /\ \A i \in 1..n : g[i] = Move(q, d, g[i - 1], op)
  BY <1>1a DEF MeetsBy
<1>2. Meets(q, d, g[0], p + 0) BY <1>1
<1>3. ASSUME NEW i \in 1..n, Meets(q, d, g[i - 1], p + (i - 1))
      PROVE  Meets(q, d, g[i], p + i)
  <2>1. i - 1 \in 0..n /\ p + (i - 1) \in Nat /\ (p + (i - 1)) + 1 = p + i OBVIOUS
  <2>2. g[i - 1] \in Entries \cup {NoEntry} /\ g[i] = Move(q, d, g[i - 1], iteratingOp(q))
    BY <1>0, <1>1, <2>1
  <2>3. Meets(q, d, g[i], (p + (i - 1)) + 1) BY <1>3, <2>1, <2>2, MeetsNext
  <2> QED BY <2>1, <2>3
<1>4. Bad = {}
  <2>1. Bad \subseteq Nat /\ \A i : i \in Bad <=> i \in 0..n /\ ~Meets(q, d, g[i], p + i) OBVIOUS
  <2> HIDE DEF Bad
  <2> SUFFICES ASSUME Bad # {} PROVE FALSE OBVIOUS
  <2>2. PICK i \in Bad : \A j \in Bad : i <= j BY <2>1, LeastNumber
  <2>3. i # 0 BY <1>2, <2>1, <2>2
  <2>4. i \in 1..n /\ i - 1 \in 0..n /\ ~(i <= i - 1) BY <2>1, <2>2, <2>3
  <2>5. Meets(q, d, g[i - 1], p + (i - 1)) BY <2>1, <2>2, <2>4
  <2> QED BY <1>3, <2>1, <2>2, <2>4, <2>5
<1> QED BY <1>0, <1>4 DEF g

\* The first entry of a query is at place 0.
LEMMA MeetsFirst ==
    ASSUME NEW q \in Queries, Sensible(q), q.kind # "exists",
           NEW d, d \subseteq Entries, FindsStart(q, d, From(q))
    PROVE  /\ FirstEntry(q, d, From(q)) \in Entries \cup {NoEntry}
           /\ Meets(q, d, FirstEntry(q, d, From(q)), 0)
<1>1. Leads(q, Reach(q, d, From(q)), FirstEntry(q, d, From(q))) BY WantedReach, FirstStep
<1>2. Cardinality({}) <= 0 BY FS_EmptySet
<1>3. FirstEntry(q, d, From(q)) \in Entries \cup {NoEntry} BY <1>1 DEF Leads, Reach
<1> QED BY <1>1, <1>2, <1>3, FirstPlace DEF Meets

\* What doPosition finds after the offset.
LEMMA OffsetPlace ==
    ASSUME NEW q \in Queries, Sensible(q), q.kind # "exists",
           NEW d, d \subseteq Entries, FindsStart(q, d, From(q)), NEW offset \in Nat
    PROVE  /\ doPosition(q, d, From(q), offset) \in Entries \cup {NoEntry}
           /\ Meets(q, d, doPosition(q, d, From(q), offset), offset)
<1> DEFINE first == FirstEntry(q, d, From(q))
           g == Visited(q, d, first, iteratingOp(q), offset)
<1>1. first \in Entries \cup {NoEntry} /\ Meets(q, d, first, 0) BY MeetsFirst
<1> HIDE DEF first
<1>1a. PICK op : op = iteratingOp(q) OBVIOUS
<1>1b. MeetsBy(Visited(q, d, first, op, offset), q, d, first, op, offset) BY <1>1, VisitedMoves
<1>2. g \in [0..offset -> Entries \cup {NoEntry}] BY <1>1a, <1>1b DEF MeetsBy
<1>3. \A i \in 0..offset : Meets(q, d, g[i], 0 + i) BY <1>1, VisitedPlaces
<1>4. doPosition(q, d, From(q), offset) = g[offset] BY DEF doPosition, first
<1> HIDE DEF g
<1>5. 0 + offset = offset /\ offset \in 0..offset OBVIOUS
<1> QED BY <1>2, <1>3, <1>4, <1>5

\* A cursor positioned again without an offset.
LEMMA Repositioned ==
    ASSUME NEW q \in Queries, Sensible(q), q.kind # "exists",
           NEW d, d \subseteq Entries, NEW k \in Nat, FindsStart(q, d, k)
    PROVE  Leads(q, Reach(q, d, k), doPosition(q, d, k, 0))
<1>1. Leads(q, Reach(q, d, k), FirstEntry(q, d, k)) BY FirstStep
<1>2. FirstEntry(q, d, k) \in Entries \cup {NoEntry} BY <1>1 DEF Leads, Reach
<1> QED BY <1>1, <1>2, PositionFirst

\* Items in their places make up the answer.
LEMMA AnswerPlaces ==
    ASSUME NEW q \in Queries, NEW d, d \subseteq Entries, NEW s \in Seq(Pairs),
           \A i \in 1..Len(s) : s[i] \in Items(q, d) /\ Place(q, d, s[i]) = q.offset + i - 1,
           q.limit # NoLimit => Len(s) <= q.limit
    PROVE  /\ IsPrefix(s, Answer(q, d))
           /\ \/ Cardinality(Items(q, d)) <= q.offset + Len(s)
              \/ AtLimit(q, Len(s))
              => s = Answer(q, d)
<1> DEFINE S == Items(q, d)
           n == Cardinality(S) - q.offset
           m == IF AtLimit(q, n) THEN q.limit ELSE n
           k == IF m > 0 THEN m ELSE 0
           A == Answer(q, d)
           el(i) == CHOOSE x \in S : Place(q, d, x) = q.offset + i - 1
<1>1. A = [i \in 1..k |-> el(i)] BY DEF Answer, Place, Earlier
<1>2. Cardinality(S) \in Nat /\ q.offset \in Nat /\ Len(s) \in Nat /\ n \in Int
      /\ (q.limit = NoLimit \/ q.limit \in Nat) /\ NoLimit \notin Nat
  BY ItemsFinite DEF Queries, NoLimit
<1>3. \A i \in 1..Len(s) : s[i] = el(i)
  <2> TAKE i \in 1..Len(s)
  <2>1. s[i] \in S /\ Place(q, d, s[i]) = q.offset + i - 1 OBVIOUS
  <2>2. el(i) \in S /\ Place(q, d, el(i)) = q.offset + i - 1 BY <2>1
  <2> HIDE DEF el, S
  <2>3. Place(q, d, s[i]) = Place(q, d, el(i)) BY <2>1, <2>2
  <2> QED BY <2>1, <2>2, <2>3, PlaceUnique DEF S
<1>4. Len(s) > 0 => Len(s) <= n
  <2> SUFFICES ASSUME Len(s) > 0 PROVE Len(s) <= n OBVIOUS
  <2>1. Len(s) \in 1..Len(s) BY <1>2
  <2>2. s[Len(s)] \in S /\ Place(q, d, s[Len(s)]) = q.offset + Len(s) - 1 BY <2>1
  <2>3. Place(q, d, s[Len(s)]) < Cardinality(S) BY <2>2, ItemsFinite
  <2> HIDE DEF S
  <2> QED BY <1>2, <2>2, <2>3
<1>5. k \in Nat /\ Len(s) <= k BY <1>2, <1>4 DEF AtLimit
<1>6. Cardinality(S) <= q.offset + Len(s) \/ AtLimit(q, Len(s)) => k = Len(s)
  BY <1>2, <1>4 DEF AtLimit
<1> HIDE DEF S, n, m, k, el, A
<1>7. A \in Seq({el(i) : i \in 1..k}) /\ Len(A) = k BY <1>1, <1>5
<1>8. \A i \in 1..Len(s) : A[i] = s[i] BY <1>1, <1>2, <1>3, <1>5
<1>9. IsPrefix(s, A)
  <2>1. SubSeq(s, 1, Len(s)) = SubSeq(A, 1, Len(s)) BY <1>2, <1>5, <1>7, <1>8
  <2> QED BY <1>5, <1>7, <2>1 DEF IsPrefix
<1>10. k = Len(s) => s = A
  <2> SUFFICES ASSUME k = Len(s) PROVE s = A OBVIOUS
  <2>1. \A i \in 1..Len(s) : A[i] \in Pairs BY <1>8, LenProperties
  <2>2. s \in [1..Len(s) -> Pairs] BY LenProperties
  <2>3. A = [i \in 1..Len(s) |-> A[i]] BY <1>1
  <2> QED BY <1>8, <2>2, <2>3
<1> QED BY <1>6, <1>9, <1>10 DEF A, S

-----------------------------------------------------------------------------
(* The states of a query. *)

\* The queries with a snapshot that the code answers as the reference does.
SnapshotScans ==
    \A q \in Scans : ~OnlyCount(q) /\ q.snapshot =>
      /\ Sensible(q)
      /\ ~(q.dupSort /\ q.values /\ ~ValuesForKey(q) /\ q.reverse /\ q.start # NoKey)

\* The queries without a snapshot that keep their order.
RenewedScans ==
    \A q \in Scans : ~OnlyCount(q) /\ ~q.snapshot => ~q.dupSort /\ ~ValuesForKey(q)

\* The contents of the database and of its transactions.
Contents ==
    /\ query \in Scans
    /\ db \subseteq Entries /\ view \subseteq Entries
    /\ readTxn = NoTxn \/ readTxn \subseteq Entries
    /\ ~query.dupSort => /\ Single(db) /\ Single(view)
                         /\ readTxn = NoTxn \/ Single(readTxn)

\* What stayed in the database is in every transaction of the query.
StableSeen ==
    /\ stable \subseteq db
    /\ phase = "ready" => readTxn = NoTxn
    /\ readTxn = NoTxn \/ stable \subseteq readTxn
    /\ phase = "open" => stable \subseteq view

\* A query with a snapshot has returned the first items of its answer.
ScanPlaces ==
    /\ out \in Seq(Pairs)
    /\ phase = "ready" => out = <<>> /\ count = 0
    /\ phase # "ready" =>
         /\ \A i \in 1..Len(out) : /\ out[i] \in Items(query, view)
                                   /\ Place(query, view, out[i]) = query.offset + i - 1
         /\ query.limit # NoLimit => Len(out) <= query.limit
    /\ phase = "open" =>
         /\ count = Len(out)
         /\ count = 0 => currentKey = From(query)
         /\ count > 0 => at \in Wanted(query, view) /\ Item(query, at) = out[count]
    /\ phase = "done" => out = Answer(query, view)

ScanInv == ~OnlyCount(query) /\ query.snapshot => ScanPlaces

\* x has a key before that of y, in the direction of the query.
KeyAhead(q, x, y) == IF q.reverse THEN y[1] < x[1] ELSE x[1] < y[1]

\* A query without a snapshot has returned items with one key after the other.
KeysInOrder ==
    /\ out \in Seq(Pairs)
    /\ phase = "ready" => out = <<>> /\ count = 0
    /\ \A i \in 1..Len(out) : Wanted(query, {out[i]}) = {out[i]}
    /\ \A i, j \in 1..Len(out) : i < j => KeyAhead(query, out[i], out[j])
    /\ phase = "open" =>
         /\ count = Len(out)
         /\ count = 0 => currentKey = query.start
         /\ count > 0 => at \in view /\ at[1] = currentKey /\ Item(query, at) = out[count]

OrderInv == ~OnlyCount(query) /\ ~query.snapshot => KeysInOrder

\* Such a query has returned, passed over by a renewal, or not yet come to every
\* entry it wants that stayed in the database.
StableMet ==
    /\ phase = "open" /\ count > 0 =>
         \A s \in Wanted(query, stable) :
            Item(query, s) \in ToSet(out) \cup jumped \/ KeyAhead(query, <<currentKey>>, s)
    /\ phase = "done" => Items(query, stable) \subseteq ToSet(out) \cup jumped

StableInv ==
    ~OnlyCount(query) /\ ~query.snapshot /\ query.offset = 0 /\ query.limit = NoLimit => StableMet

\* What a step of next() does.
Took(d, here, e) ==
    /\ phase = "open"
    /\ d = IF Renews THEN TxnView ELSE view
    /\ here = IF Renews THEN RenewedAt(d) ELSE at
    /\ e = IF count = 0 THEN doPosition(query, d, currentKey, query.offset)
           ELSE Move(query, d, here, iteratingOp(query))
    /\ view' = d /\ at' = e
    /\ readTxn' = IF Renews THEN d ELSE readTxn
    /\ jumped' = IF Renews /\ count > 0 /\ here[1] # currentKey
                 THEN jumped \cup {Item(query, here)} ELSE jumped
    /\ db' = db /\ query' = query /\ stable' = stable
    /\ IF e = NoEntry \/ PastEnd(query, e) \/ AtLimit(query, count)
       THEN phase' = "done" /\ out' = out
       ELSE /\ phase' = "open" /\ out' = Append(out, Item(query, e))
            /\ count' = count + 1 /\ currentKey' = KeyAfter(e)

LEMMA NextTook ==
    ASSUME next PROVE \E d, here, e : Took(d, here, e)
<1>1. PICK d : d = IF Renews THEN TxnView ELSE view OBVIOUS
<1>2. PICK here : here = IF Renews THEN RenewedAt(d) ELSE at OBVIOUS
<1>3. PICK e : e = IF count = 0 THEN doPosition(query, d, currentKey, query.offset)
                   ELSE Move(query, d, here, iteratingOp(query)) OBVIOUS
<1>4. Took(d, here, e)
  <2>1. CASE e = NoEntry \/ PastEnd(query, e) BY <1>1, <1>2, <1>3, <2>1 DEF next, Took
  <2>2. CASE ~(e = NoEntry \/ PastEnd(query, e)) /\ AtLimit(query, count)
    BY <1>1, <1>2, <1>3, <2>2 DEF next, Took
  <2>3. CASE ~(e = NoEntry \/ PastEnd(query, e)) /\ ~AtLimit(query, count)
    BY <1>1, <1>2, <1>3, <2>3 DEF next, Took
  <2> QED BY <2>1, <2>2, <2>3
<1> QED BY <1>4

\* Two entries with one key in a database where a key has one value at most.
LEMMA SingleAtFirst ==
    ASSUME NEW d, d \subseteq Entries, \A k \in Keys : Cardinality(OfKey(d, k)) <= 1
    PROVE  Single(d)
<1> SUFFICES ASSUME NEW e \in d, NEW f \in d, e[1] = f[1], e # f PROVE FALSE
  BY DEF Single
<1>1. e[1] \in Keys /\ e \in OfKey(d, e[1]) /\ f \in OfKey(d, e[1]) BY EntryTypes DEF OfKey
<1> DEFINE S == OfKey(d, e[1])
<1>2. IsFiniteSet(S) /\ Cardinality(S) <= 1 /\ Cardinality(S) \in Nat
  <2>1. S \subseteq d /\ IsFiniteSet(d) BY EntryTypes, Counted DEF OfKey
  <2>2. IsFiniteSet(S) BY <2>1, FS_Subset
  <2> QED BY <1>1, <2>2, FS_CardinalityType
<1>3. Cardinality({e, f}) = 2 /\ {e, f} \subseteq S
  <2>1. IsFiniteSet({e}) /\ Cardinality({e}) = 1 BY FS_Singleton
  <2>2. {e} \cup {f} = {e, f} /\ f \notin {e} BY <1>1
  <2>3. Cardinality({e} \cup {f}) = Cardinality({e}) + 1 BY <2>1, <2>2, FS_AddElement
  <2> QED BY <1>1, <2>1, <2>2, <2>3
<1> HIDE DEF S
<1>4. Cardinality({e, f}) <= Cardinality(S) BY <1>2, <1>3, Counted
<1> QED BY <1>2, <1>3, <1>4

\* A committed put or removal leaves one value per key.
LEMMA SingleStays ==
    ASSUME NEW d, Single(d), NEW e
    PROVE  Single((d \ OfKey(d, e[1])) \cup {e}) /\ Single(d \ {e}) /\ Single({})
BY DEF Single, OfKey

LEMMA ContentsStart == Init => Contents /\ StableSeen
<1> SUFFICES ASSUME Init PROVE Contents /\ StableSeen OBVIOUS
<1>1. db \subseteq Entries /\ view = {} /\ readTxn = NoTxn /\ query \in Scans /\ stable = db
      /\ phase = "ready"
  BY DEF Init
<1>2. ~query.dupSort => Single(db) BY <1>1, SingleAtFirst DEF Init
<1>3. Single({}) BY DEF Single
<1> QED BY <1>1, <1>2, <1>3 DEF Contents, StableSeen

LEMMA ContentsStep == Contents /\ [Next]_vars => Contents'
<1> SUFFICES ASSUME Contents, [Next]_vars PROVE Contents' OBVIOUS
<1>1. /\ query \in Scans /\ db \subseteq Entries /\ view \subseteq Entries
      /\ readTxn = NoTxn \/ readTxn \subseteq Entries
      /\ ~query.dupSort => /\ Single(db) /\ Single(view)
                           /\ readTxn = NoTxn \/ Single(readTxn)
      /\ TxnView \subseteq Entries /\ (~query.dupSort => Single(TxnView))
  BY DEF Contents, TxnView
<1>2. CASE iterate BY <1>1, <1>2 DEF iterate, Contents
<1>3. CASE getCount BY <1>1, <1>3 DEF getCount, Contents
<1>4. CASE next
  <2>1. PICK d, here, e : Took(d, here, e) BY <1>4, NextTook
  <2> QED BY <1>1, <2>1 DEF Took, Contents
<1>5. CASE return BY <1>1, <1>5 DEF return, Contents
<1>6. CASE renewReadTxn BY <1>1, <1>6 DEF renewReadTxn, Contents
<1>7. CASE resetReadTxn BY <1>1, <1>7 DEF resetReadTxn, Contents
<1>8. CASE Commit
  <2>1. PICK e \in Entries :
          db' \in {(IF query.dupSort THEN db ELSE db \ OfKey(db, e[1])) \cup {e}, db \ {e}} \ {db}
    BY <1>8 DEF Commit
  <2>2. db' \subseteq Entries /\ (~query.dupSort => Single(db'))
    <3>1. CASE query.dupSort BY <1>1, <2>1, <3>1
    <3>2. CASE ~query.dupSort
      <4>1. db' = (db \ OfKey(db, e[1])) \cup {e} \/ db' = db \ {e} BY <2>1, <3>2
      <4>2. PICK D : D = db OBVIOUS
      <4>3. Single((D \ OfKey(D, e[1])) \cup {e}) /\ Single(D \ {e})
        BY <1>1, <3>2, <4>2, SingleStays
      <4>4. db' = (D \ OfKey(D, e[1])) \cup {e} \/ db' = D \ {e} BY <4>1, <4>2
      <4>5. Single(db') BY <4>3, <4>4
      <4> QED BY <1>1, <4>1, <4>5
    <3> QED BY <3>1, <3>2
  <2> QED BY <1>1, <1>8, <2>2 DEF Commit, Contents
<1>9. CASE Finished \/ UNCHANGED vars BY <1>1, <1>9 DEF Finished, vars, Contents
<1> QED BY <1>2, <1>3, <1>4, <1>5, <1>6, <1>7, <1>8, <1>9 DEF Next

LEMMA StableStep == Contents /\ StableSeen /\ [Next]_vars => StableSeen'
<1> SUFFICES ASSUME Contents, StableSeen, [Next]_vars PROVE StableSeen' OBVIOUS
<1>1. stable \subseteq TxnView BY DEF StableSeen, TxnView
<1>2. CASE iterate BY <1>1, <1>2 DEF iterate, StableSeen, TxnView
<1>3. CASE getCount BY <1>1, <1>3 DEF getCount, StableSeen
<1>4. CASE next
  <2>1. PICK d, here, e : Took(d, here, e) BY <1>4, NextTook
  <2>2. stable \subseteq d BY <1>1, <2>1 DEF Took, StableSeen
  <2>3. /\ db' = db /\ stable' = stable /\ view' = d /\ phase' \in {"open", "done"}
        /\ readTxn' = readTxn \/ readTxn' = d
    BY <2>1 DEF Took
  <2> QED BY <2>2, <2>3 DEF StableSeen
<1>5. CASE return BY <1>5 DEF return, StableSeen
<1>6. CASE renewReadTxn BY <1>6 DEF renewReadTxn, StableSeen
<1>7. CASE resetReadTxn BY <1>7 DEF resetReadTxn, StableSeen
<1>8. CASE Commit BY <1>8 DEF Commit, StableSeen
<1>9. CASE Finished \/ UNCHANGED vars BY <1>9 DEF Finished, vars, StableSeen
<1> QED BY <1>2, <1>3, <1>4, <1>5, <1>6, <1>7, <1>8, <1>9 DEF Next

\* A query of the hypotheses finds its first entry.
LEMMA SnapshotFinds ==
    ASSUME SnapshotScans, Contents, ~OnlyCount(query), query.snapshot,
           NEW d, ~query.dupSort => Single(d)
    PROVE  /\ query \in Queries /\ Sensible(query) /\ query.kind # "exists"
           /\ FindsStart(query, d, From(query))
<1>1. query \in Scans /\ query \in Queries BY ScansAssumption DEF Contents
<1>2. /\ Sensible(query)
      /\ ~(query.dupSort /\ query.values /\ ~ValuesForKey(query) /\ query.reverse
           /\ query.start # NoKey)
  BY <1>1 DEF SnapshotScans
<1>3. query.kind # "exists" BY DEF OnlyCount
<1> QED BY <1>1, <1>2, <1>3 DEF FindsStart, From

\* next() of a query with a snapshot takes the item of the next place, or ends
\* with the whole answer.
LEMMA ScanNext ==
    ASSUME SnapshotScans, Contents, ~OnlyCount(query), query.snapshot, ScanPlaces, next
    PROVE  ScanPlaces'
<1>1. PICK d, here, e : Took(d, here, e) BY NextTook
<1>2. PICK q, v, s, n : q = query /\ v = view /\ s = out /\ n = count OBVIOUS
<1>3. /\ q \in Queries /\ Sensible(q) /\ q.kind # "exists" /\ FindsStart(q, v, From(q))
      /\ v \subseteq Entries
  BY <1>2, SnapshotFinds DEF Contents
<1>4. /\ query' = q /\ view' = v /\ at' = e
      /\ e = IF n = 0 THEN doPosition(q, v, From(q), q.offset)
             ELSE Move(q, v, at, iteratingOp(q))
      /\ IF e = NoEntry \/ PastEnd(q, e) \/ AtLimit(q, n)
         THEN phase' = "done" /\ out' = s
         ELSE /\ phase' = "open" /\ out' = Append(s, Item(q, e)) /\ count' = n + 1
  BY <1>1, <1>2 DEF Took, Renews, ScanPlaces
<1>5. /\ s \in Seq(Pairs) /\ n = Len(s) /\ n \in Nat
      /\ \A i \in 1..n : s[i] \in Items(q, v) /\ Place(q, v, s[i]) = q.offset + i - 1
      /\ q.limit # NoLimit => n <= q.limit
      /\ n > 0 => at \in Wanted(q, v) /\ Item(q, at) = s[n]
  <2>1. s \in Seq(Pairs) /\ n = Len(s) BY <1>1, <1>2 DEF Took, ScanPlaces
  <2>2. n \in Nat BY <2>1, LenProperties
  <2> QED BY <1>1, <1>2, <2>1, <2>2 DEF Took, ScanPlaces
<1>6. q.offset \in Nat /\ (q.limit = NoLimit \/ q.limit \in Nat) /\ NoLimit \notin Nat
  BY <1>3 DEF Queries, NoLimit
<1>7. Meets(q, v, e, q.offset + n)
  <2>1. CASE n = 0
    <3>1. Meets(q, v, e, q.offset) BY <1>3, <1>4, <1>6, <2>1, OffsetPlace
    <3>2. q.offset + n = q.offset BY <1>6, <2>1
    <3> QED BY <3>1, <3>2
  <2>2. CASE n # 0
    <3>1. PICK a : a = at OBVIOUS
    <3>2. a \in Wanted(q, v) /\ Item(q, a) = s[n] /\ e = Move(q, v, a, iteratingOp(q))
      BY <1>4, <1>5, <2>2, <3>1
    <3>3. Place(q, v, Item(q, a)) = q.offset + n - 1 BY <1>5, <2>2, <3>2
    <3>4. a \in Entries /\ a # NoEntry /\ ~PastEnd(q, a)
      BY <1>3, <3>2, WantedReach, EntryTypes
    <3>5. q.offset + n - 1 \in Nat /\ (q.offset + n - 1) + 1 = q.offset + n
      BY <1>5, <1>6, <2>2
    <3>6. Meets(q, v, a, q.offset + n - 1) BY <3>2, <3>3, <3>4 DEF Meets
    <3>7. Meets(q, v, e, (q.offset + n - 1) + 1)
      BY <1>3, <3>2, <3>4, <3>5, <3>6, MeetsNext
    <3> QED BY <3>5, <3>7
  <2> QED BY <2>1, <2>2
<1>8. CASE e = NoEntry \/ PastEnd(q, e) \/ AtLimit(q, n)
  <2>1. phase' = "done" /\ out' = s BY <1>4, <1>8
  <2>2. Cardinality(Items(q, v)) <= q.offset + Len(s) \/ AtLimit(q, Len(s))
    BY <1>5, <1>7, <1>8 DEF Meets
  <2>3. s = Answer(q, v) BY <1>3, <1>5, <2>2, AnswerPlaces
  <2> QED BY <1>4, <1>5, <2>1, <2>3 DEF ScanPlaces
<1>9. CASE ~(e = NoEntry \/ PastEnd(q, e) \/ AtLimit(q, n))
  <2>1. phase' = "open" /\ out' = Append(s, Item(q, e)) /\ count' = n + 1 BY <1>4, <1>9
  <2>2. e \in Wanted(q, v) /\ Place(q, v, Item(q, e)) = q.offset + n
    BY <1>7, <1>9 DEF Meets
  <2>3. Item(q, e) \in Items(q, v) /\ Item(q, e) \in Pairs
    <3>1. Item(q, e) \in Items(q, v) BY <2>2 DEF Items
    <3> QED BY <1>3, <3>1, ItemsFinite
  <2> DEFINE t == Append(s, Item(q, e))
  <2>4. /\ t \in Seq(Pairs) /\ Len(t) = n + 1 /\ t[n + 1] = Item(q, e)
        /\ \A i \in 1..n : t[i] = s[i]
    BY <1>5, <2>3, AppendProperties
  <2> HIDE DEF t
  <2>5. \A i \in 1..Len(t) : t[i] \in Items(q, v) /\ Place(q, v, t[i]) = q.offset + i - 1
    <3> TAKE i \in 1..Len(t)
    <3>1. CASE i = n + 1
      <4>1. q.offset + i - 1 = q.offset + n BY <1>5, <1>6, <3>1
      <4> QED BY <2>2, <2>3, <2>4, <3>1, <4>1
    <3>2. CASE i # n + 1
      <4>1. i \in 1..n BY <1>5, <2>4, <3>2
      <4> QED BY <1>5, <2>4, <4>1
    <3> QED BY <3>1, <3>2
  <2>6. q.limit # NoLimit => Len(t) <= q.limit
    BY <1>5, <1>6, <1>9, <2>4 DEF AtLimit
  <2>7. n + 1 # 0 BY <1>5
  <2>8. out' = t BY <2>1 DEF t
  <2> QED BY <1>4, <2>1, <2>2, <2>4, <2>5, <2>6, <2>7, <2>8 DEF ScanPlaces
<1> QED BY <1>8, <1>9

LEMMA ScanStart == Init => ScanInv
BY DEF Init, ScanInv, ScanPlaces

LEMMA ScanStep ==
    ASSUME SnapshotScans
    PROVE  Contents /\ ScanInv /\ [Next]_vars => ScanInv'
<1> SUFFICES ASSUME Contents, ScanInv, [Next]_vars PROVE ScanInv' OBVIOUS
<1>1. query' = query
  BY DEF Next, iterate, getCount, next, return, renewReadTxn, resetReadTxn, Commit, Finished, vars
<1> SUFFICES ASSUME ~OnlyCount(query), query.snapshot PROVE ScanPlaces'
  BY <1>1 DEF ScanInv
<1>2. ScanPlaces BY DEF ScanInv
<1>3. CASE iterate
  <2>1. out' = <<>> /\ count' = 0 /\ phase' = "open" /\ currentKey' = From(query)
    BY <1>2, <1>3 DEF iterate, ScanPlaces, From
  <2>2. query \in Queries BY ScansAssumption DEF Contents
  <2>3. query.limit # NoLimit => 0 <= query.limit BY <2>2 DEF Queries
  <2>4. <<>> \in Seq(Pairs) /\ Len(<<>>) = 0 OBVIOUS
  <2> QED BY <1>1, <2>1, <2>3, <2>4 DEF ScanPlaces
<1>4. CASE getCount BY <1>4 DEF getCount
<1>5. CASE next BY <1>2, <1>5, ScanNext
<1>6. CASE return BY <1>2, <1>6 DEF return, ScanPlaces
<1>7. CASE renewReadTxn BY <1>2, <1>7 DEF renewReadTxn, ScanPlaces
<1>8. CASE resetReadTxn BY <1>2, <1>8 DEF resetReadTxn, ScanPlaces
<1>9. CASE Commit BY <1>2, <1>9 DEF Commit, ScanPlaces
<1>10. CASE Finished \/ UNCHANGED vars BY <1>2, <1>10 DEF Finished, vars, ScanPlaces
<1> QED BY <1>3, <1>4, <1>5, <1>6, <1>7, <1>8, <1>9, <1>10 DEF Next

\* A query with a snapshot returns the answer of the reference.
LEMMA ScanInvImplies ==
    ASSUME SnapshotScans PROVE Contents /\ ScanInv => ScanExact
<1> SUFFICES ASSUME Contents, ScanInv, ~OnlyCount(query), query.snapshot
             PROVE  LET a == IF phase = "ready" THEN <<>> ELSE Answer(query, view)
                    IN  IsPrefix(out, a) /\ (phase = "done" => out = a)
  BY DEF ScanExact
<1>1. ScanPlaces BY DEF ScanInv
<1>2. CASE phase = "ready"
  <2>1. IsPrefix(<<>>, <<>>) BY DEF IsPrefix
  <2> QED BY <1>1, <1>2, <2>1 DEF ScanPlaces
<1>3. CASE phase # "ready"
  <2>1. PICK q, v, s : q = query /\ v = view /\ s = out OBVIOUS
  <2>2. /\ q \in Queries /\ v \subseteq Entries /\ s \in Seq(Pairs)
        /\ \A i \in 1..Len(s) : s[i] \in Items(q, v) /\ Place(q, v, s[i]) = q.offset + i - 1
        /\ q.limit # NoLimit => Len(s) <= q.limit
    BY <1>1, <1>3, <2>1, ScansAssumption DEF ScanPlaces, Contents
  <2>3. IsPrefix(s, Answer(q, v)) BY <2>2, AnswerPlaces
  <2> QED BY <1>1, <1>3, <2>1, <2>3 DEF ScanPlaces
<1> QED BY <1>2, <1>3

-----------------------------------------------------------------------------
(* Queries without a snapshot, over databases with one value per key. *)

\* There the order of the items is that of the keys.
LEMMA PastKey ==
    ASSUME NEW q \in Queries, NEW d, d \subseteq Entries, Single(d), NEW e \in d, NEW f \in d
    PROVE  /\ Past(q, e, f) <=> KeyAhead(q, e, f)
           /\ Same(q, e, f) => e = f
           /\ e = f \/ KeyAhead(q, e, f) \/ KeyAhead(q, f, e)
<1>1. /\ e \in Entries /\ f \in Entries /\ e[1] \in Nat /\ f[1] \in Nat
      /\ e[1] = f[1] => e = f
      /\ q.values \in BOOLEAN /\ q.reverse \in BOOLEAN
  BY EntryTypes DEF Single, Queries
<1>2. CASE q.values
  <2>1. /\ Past(q, e, f) <=> IF q.reverse THEN Before(f, e) ELSE Before(e, f)
        /\ Same(q, e, f) <=> e = f
    BY <1>1, <1>2, ItemOrder
  <2>2. (Before(e, f) <=> e[1] < f[1]) /\ (Before(f, e) <=> f[1] < e[1])
    <3>1. CASE e = f
      <4>1. e[2] \in Nat BY <1>1, EntryTypes
      <4> QED BY <1>1, <3>1, <4>1 DEF Before
    <3>2. CASE e # f BY <1>1, <3>2 DEF Before
    <3> QED BY <3>1, <3>2
  <2> QED BY <1>1, <2>1, <2>2 DEF KeyAhead
<1>3. CASE ~q.values BY <1>1, <1>3, ItemOrder DEF KeyAhead
<1> QED BY <1>1, <1>2, <1>3

\* A move goes to the next key.
LEMMA KeyMove ==
    ASSUME NEW q \in Queries, ~ValuesForKey(q), NEW d, d \subseteq Entries, Single(d),
           NEW h \in d, NEW m, m = Move(q, d, h, iteratingOp(q))
    PROVE  /\ m = NoEntry => \A f \in d : ~KeyAhead(q, h, f)
           /\ m # NoEntry => /\ m \in d /\ KeyAhead(q, h, m)
                             /\ \A f \in d : KeyAhead(q, h, f) => f = m \/ KeyAhead(q, m, f)
<1>1. Sensible(q) /\ h \in Entries BY DEF Sensible
<1>2. \A f \in d : Within(q, h, f) BY DEF Within
<1>3. /\ m = NoEntry => \A f \in d : ~Past(q, h, f)
      /\ m # NoEntry => /\ m \in d /\ Past(q, h, m)
                        /\ \A f \in d : Past(q, h, f) => Same(q, m, f) \/ Past(q, m, f)
  BY <1>1, <1>2, MoveStep, SMTT(30)
<1>4. \A f \in d : Past(q, h, f) <=> KeyAhead(q, h, f) BY PastKey
<1>5. m \in d => \A f \in d : /\ Past(q, m, f) <=> KeyAhead(q, m, f)
                              /\ Same(q, m, f) => m = f
  BY PastKey
<1> QED BY <1>3, <1>4, <1>5

\* A move from the entry of key k, or from where a renewal positions the cursor
\* for key k, passes over that entry only when it is not of key k.
LEMMA RenewedMove ==
    ASSUME NEW q \in Queries, ~ValuesForKey(q), q.kind # "exists",
           NEW d, d \subseteq Entries, Single(d), NEW k \in Nat, k # NoKey,
           NEW h, (h \in d /\ h[1] = k) \/ h = doPosition(q, d, k, 0),
           NEW e, e = Move(q, d, h, iteratingOp(q))
    PROVE  /\ e # NoEntry => e \in d /\ KeyAhead(q, <<k>>, e)
           /\ \A f \in d : KeyAhead(q, <<k>>, f) =>
                \/ f = h /\ h[1] # k
                \/ e # NoEntry /\ (f = e \/ KeyAhead(q, e, f))
<1>1. Sensible(q) /\ FindsStart(q, d, k) /\ q.reverse \in BOOLEAN
      /\ \A f \in d : f[1] \in Nat /\ f \in Entries
  BY EntryTypes DEF Sensible, FindsStart, Queries
<1>2. /\ h = NoEntry \/ (h \in d /\ (h[1] = k \/ KeyAhead(q, <<k>>, h)))
      /\ \A f \in d : KeyAhead(q, <<k>>, f) => h \in d /\ ((f = h /\ h[1] # k) \/ KeyAhead(q, h, f))
  <2>1. CASE h \in d /\ h[1] = k BY <2>1 DEF KeyAhead
  <2>2. CASE h = doPosition(q, d, k, 0)
    <3>1. Leads(q, Reach(q, d, k), h) BY <1>1, <2>2, Repositioned
    <3>2. \A f \in d : f \in Reach(q, d, k) <=> f[1] = k \/ KeyAhead(q, <<k>>, f)
      <4> TAKE f \in d
      <4>1. f[1] \in Nat BY <1>1
      <4>2. f \in Reach(q, d, k) <=> IF q.reverse THEN f[1] <= k ELSE f[1] >= k
        BY DEF Reach
      <4>3. (f[1] = k \/ KeyAhead(q, <<k>>, f)) <=> IF q.reverse THEN f[1] <= k ELSE f[1] >= k
        BY <1>1, <4>1 DEF KeyAhead
      <4> QED BY <4>2, <4>3
    <3>3. Reach(q, d, k) \subseteq d BY DEF Reach
    <3>4. CASE h = NoEntry BY <3>1, <3>2, <3>4 DEF Leads
    <3>5. CASE h # NoEntry
      <4>1. h \in Reach(q, d, k) /\ \A f \in Reach(q, d, k) : Same(q, h, f) \/ Past(q, h, f)
        BY <3>1, <3>5 DEF Leads
      <4>2. \A f \in d : KeyAhead(q, <<k>>, f) => f[1] # k BY <1>1 DEF KeyAhead
      <4>3. \A f \in Reach(q, d, k) : f = h \/ KeyAhead(q, h, f)
        BY <3>3, <4>1, PastKey
      <4> QED BY <3>2, <3>3, <4>1, <4>2, <4>3
    <3> QED BY <3>4, <3>5
  <2> QED BY <2>1, <2>2
<1>3. CASE h = NoEntry
  <2>1. e = NoEntry BY <1>3 DEF Move, mdb_cursor_next, mdb_cursor_prev
  <2>2. h \notin d BY <1>1, <1>3, EntryTypes
  <2> QED BY <1>2, <2>1, <2>2
<1>4. CASE h # NoEntry
  <2>1. h \in d /\ (h[1] = k \/ KeyAhead(q, <<k>>, h)) BY <1>2, <1>4
  <2>2. /\ e = NoEntry => \A f \in d : ~KeyAhead(q, h, f)
        /\ e # NoEntry => /\ e \in d /\ KeyAhead(q, h, e)
                          /\ \A f \in d : KeyAhead(q, h, f) => f = e \/ KeyAhead(q, e, f)
    BY <2>1, KeyMove
  <2>3. e # NoEntry => KeyAhead(q, <<k>>, e)
    BY <1>1, <2>1, <2>2 DEF KeyAhead
  <2> QED BY <1>2, <2>2, <2>3
<1> QED BY <1>3, <1>4

\* The items of the range of a query.
InRange(q, x) == Wanted(q, {x}) = {x}

LEMMA RangeFacts ==
    ASSUME NEW q \in Queries, ~ValuesForKey(q)
    PROVE  /\ \A x : InRange(q, x) <=>
                /\ q.start = NoKey \/ (IF q.reverse THEN x[1] <= q.start ELSE x[1] >= q.start)
                /\ q.end = NoKey \/ (IF q.reverse THEN x[1] > q.end ELSE x[1] < q.end)
           /\ \A d, e : e \in Wanted(q, d) <=> e \in d /\ InRange(q, e)
           /\ \A e : Item(q, e)[1] = e[1]
<1>1. \A x : InRange(q, x) <=>
        /\ q.start = NoKey \/ (IF q.reverse THEN x[1] <= q.start ELSE x[1] >= q.start)
        /\ q.end = NoKey \/ (IF q.reverse THEN x[1] > q.end ELSE x[1] < q.end)
  <2> TAKE x
  <2>1. InRange(q, x) <=> x \in Wanted(q, {x}) BY DEF InRange, Wanted
  <2> QED BY <2>1 DEF Wanted
<1>2. \A d, e : e \in Wanted(q, d) <=> e \in d /\ InRange(q, e)
  BY <1>1 DEF Wanted
<1>3. \A e : Item(q, e)[1] = e[1] BY DEF Item
<1> QED BY <1>1, <1>2, <1>3

\* After an item of the range, an entry that is not past the end is in the range.
LEMMA RangeGoesOn ==
    ASSUME NEW q \in Queries, ~ValuesForKey(q), NEW x, x[1] \in Nat, InRange(q, x),
           NEW e \in Entries, KeyAhead(q, x, e)
    PROVE  InRange(q, Item(q, e)) <=> ~PastEnd(q, e)
<1>1. e[1] \in Nat /\ q.start \in Nat /\ q.end \in Nat /\ q.reverse \in BOOLEAN
  BY EntryTypes, ScansAssumption DEF Queries, NoKey
<1>2. CASE q.reverse BY <1>1, <1>2, RangeFacts DEF KeyAhead, PastEnd
<1>3. CASE ~q.reverse BY <1>1, <1>3, RangeFacts DEF KeyAhead, PastEnd
<1> QED BY <1>2, <1>3

\* What next() moves on from, in a query without a snapshot.
LEMMA RenewedFrom ==
    ASSUME RenewedScans, Contents, ~OnlyCount(query), ~query.snapshot, KeysInOrder,
           NEW d, NEW h, NEW e, Took(d, h, e)
    PROVE  /\ query \in Queries /\ ~ValuesForKey(query) /\ query.kind # "exists"
           /\ d \subseteq Entries /\ Single(d)
           /\ out \in Seq(Pairs) /\ count = Len(out) /\ count \in Nat
           /\ count = 0 => e = doPosition(query, d, From(query), query.offset)
           /\ count > 0 => /\ currentKey \in Nat /\ currentKey # NoKey
                           /\ e = Move(query, d, h, iteratingOp(query))
                           /\ \/ ~Renews /\ h \in d /\ h[1] = currentKey
                              \/ Renews /\ h = doPosition(query, d, currentKey, 0)
                           /\ out[count][1] = currentKey
<1>1. /\ query \in Queries /\ ~ValuesForKey(query) /\ query.kind # "exists" /\ ~query.dupSort
  BY ScansAssumption DEF Contents, RenewedScans, OnlyCount
<1>2. TxnView \subseteq Entries /\ Single(TxnView) /\ view \subseteq Entries /\ Single(view)
  BY <1>1 DEF Contents, TxnView
<1>3. d \subseteq Entries /\ Single(d) BY <1>2 DEF Took
<1>4. phase = "open" /\ out \in Seq(Pairs) /\ count = Len(out) BY DEF Took, KeysInOrder
<1>5. count \in Nat BY <1>4, LenProperties
<1>6. count = 0 => e = doPosition(query, d, From(query), query.offset)
  BY <1>1, <1>4 DEF Took, KeysInOrder, From
<1>7. ASSUME count > 0
      PROVE  /\ currentKey \in Nat /\ currentKey # NoKey
             /\ e = Move(query, d, h, iteratingOp(query))
             /\ \/ ~Renews /\ h \in d /\ h[1] = currentKey
                \/ Renews /\ h = doPosition(query, d, currentKey, 0)
             /\ out[count][1] = currentKey
  <2>1. at \in view /\ at[1] = currentKey /\ out[count] = Item(query, at)
    BY <1>4, <1>7 DEF KeysInOrder
  <2>2. currentKey \in Nat /\ currentKey # NoKey
    BY <1>2, <2>1, EntryTypes DEF NoKey
  <2>3. out[count][1] = currentKey BY <2>1 DEF Item
  <2>4. e = Move(query, d, h, iteratingOp(query)) BY <1>5, <1>7 DEF Took
  <2>5. \/ ~Renews /\ h \in d /\ h[1] = currentKey
        \/ Renews /\ h = doPosition(query, d, currentKey, 0)
    BY <2>1 DEF Took, RenewedAt
  <2> QED BY <2>2, <2>3, <2>4, <2>5
<1> QED BY <1>1, <1>3, <1>4, <1>5, <1>6, <1>7

LEMMA OrderNext ==
    ASSUME RenewedScans, Contents, ~OnlyCount(query), ~query.snapshot, KeysInOrder, next
    PROVE  KeysInOrder'
<1>1. PICK d, h, e : Took(d, h, e) BY NextTook
<1>2. PICK q, s, n, k : q = query /\ s = out /\ n = count /\ k = currentKey OBVIOUS
<1>3. /\ q \in Queries /\ ~ValuesForKey(q) /\ q.kind # "exists"
      /\ d \subseteq Entries /\ Single(d)
      /\ s \in Seq(Pairs) /\ n = Len(s) /\ n \in Nat
      /\ n = 0 => e = doPosition(q, d, From(q), q.offset)
      /\ n > 0 => /\ k \in Nat /\ k # NoKey
                  /\ e = Move(q, d, h, iteratingOp(q))
                  /\ (h \in d /\ h[1] = k) \/ h = doPosition(q, d, k, 0)
                  /\ s[n][1] = k
  BY <1>1, <1>2, RenewedFrom
<1>4. /\ \A i \in 1..n : InRange(q, s[i])
      /\ \A i, j \in 1..n : i < j => KeyAhead(q, s[i], s[j])
  BY <1>2, <1>3 DEF KeysInOrder, InRange
<1>5. /\ query' = q /\ view' = d /\ at' = e
      /\ IF e = NoEntry \/ PastEnd(q, e) \/ AtLimit(q, n)
         THEN phase' = "done" /\ out' = s
         ELSE /\ phase' = "open" /\ out' = Append(s, Item(q, e)) /\ count' = n + 1
              /\ currentKey' = e[1]
  BY <1>1, <1>2, <1>3 DEF Took, KeyAfter
<1>6. CASE e = NoEntry \/ PastEnd(q, e) \/ AtLimit(q, n)
  BY <1>3, <1>4, <1>5, <1>6 DEF KeysInOrder, InRange
<1>7. CASE ~(e = NoEntry \/ PastEnd(q, e) \/ AtLimit(q, n))
  <2>1. /\ phase' = "open" /\ out' = Append(s, Item(q, e)) /\ count' = n + 1
        /\ currentKey' = e[1]
    BY <1>5, <1>7
  <2>2. e \in d /\ InRange(q, Item(q, e)) /\ (n > 0 => KeyAhead(q, s[n], Item(q, e)))
    <3>1. CASE n = 0
      <4>1. Sensible(q) /\ FindsStart(q, d, From(q)) /\ q.offset \in Nat
        BY <1>3 DEF Sensible, FindsStart, Queries
      <4>2. e \in Wanted(q, d) BY <1>3, <1>7, <3>1, <4>1, OffsetPlace DEF Meets
      <4> QED BY <1>3, <3>1, <4>2, RangeFacts
    <3>2. CASE n # 0
      <4>1. n > 0 /\ n \in 1..n BY <1>3, <3>2
      <4>2. e \in d /\ KeyAhead(q, <<k>>, e) BY <1>3, <1>7, <4>1, RenewedMove
      <4>3. e \in Entries /\ KeyAhead(q, s[n], e) BY <1>3, <4>1, <4>2 DEF KeyAhead
      <4>4. InRange(q, Item(q, e)) BY <1>3, <1>4, <1>7, <4>1, <4>3, RangeGoesOn
      <4>5. Item(q, e)[1] = e[1] BY <1>3, RangeFacts
      <4> QED BY <4>2, <4>3, <4>4, <4>5 DEF KeyAhead
    <3> QED BY <3>1, <3>2
  <2>3. Item(q, e) \in Pairs /\ Item(q, e)[1] = e[1] /\ e[1] \in Nat
    <3>1. e \in Entries BY <1>3, <2>2
    <3> QED BY <3>1, EntryTypes DEF Item, Pairs
  <2> DEFINE y == Item(q, e)
             t == Append(s, y)
  <2>4. /\ t \in Seq(Pairs) /\ Len(t) = n + 1 /\ t[n + 1] = y
        /\ \A i \in 1..n : t[i] = s[i]
    BY <1>3, <2>3, AppendProperties
  <2>5. \A i \in 1..n : KeyAhead(q, s[i], y)
    <3> TAKE i \in 1..n
    <3>1. n \in 1..n /\ s[i][1] \in Nat /\ s[n][1] \in Nat
      BY <1>3, LenProperties DEF Pairs
    <3>2. i = n \/ KeyAhead(q, s[i], s[n]) BY <1>3, <1>4, <3>1
    <3>3. KeyAhead(q, s[n], y) /\ y[1] \in Nat BY <1>3, <2>2, <2>3
    <3> HIDE DEF y
    <3> QED BY <3>1, <3>2, <3>3 DEF KeyAhead
  <2> HIDE DEF t, y
  <2>6. \A i \in 1..Len(t) : i = n + 1 \/ i \in 1..n BY <1>3, <2>4
  <2>7. \A i \in 1..Len(t) : InRange(q, t[i])
    BY <1>4, <2>2, <2>4, <2>6 DEF y
  <2>8. \A i, j \in 1..Len(t) : i < j => KeyAhead(q, t[i], t[j])
    <3> TAKE i, j \in 1..Len(t)
    <3> HAVE i < j
    <3>1. i \in 1..n BY <1>3, <2>4
    <3>2. CASE j = n + 1 BY <2>4, <2>5, <3>1, <3>2
    <3>3. CASE j # n + 1 BY <1>4, <2>4, <2>6, <3>1, <3>3
    <3> QED BY <3>2, <3>3
  <2>9. out' = t /\ n + 1 # 0 BY <1>3, <2>1 DEF t, y
  <2> QED BY <1>5, <2>1, <2>2, <2>4, <2>7, <2>8, <2>9 DEF KeysInOrder, InRange, y
<1> QED BY <1>6, <1>7

LEMMA OrderStart == Init => OrderInv
BY DEF Init, OrderInv, KeysInOrder

LEMMA OrderStep ==
    ASSUME RenewedScans
    PROVE  Contents /\ OrderInv /\ [Next]_vars => OrderInv'
<1> SUFFICES ASSUME Contents, OrderInv, [Next]_vars PROVE OrderInv' OBVIOUS
<1>1. query' = query
  BY DEF Next, iterate, getCount, next, return, renewReadTxn, resetReadTxn, Commit, Finished, vars
<1> SUFFICES ASSUME ~OnlyCount(query), ~query.snapshot PROVE KeysInOrder'
  BY <1>1 DEF OrderInv
<1>2. KeysInOrder BY DEF OrderInv
<1>3. CASE iterate
  <2>1. ~ValuesForKey(query) BY DEF Contents, RenewedScans
  <2>2. out' = out /\ out = <<>> /\ count' = 0 /\ currentKey' = query.start
    BY <1>2, <1>3, <2>1 DEF iterate, KeysInOrder
  <2> QED BY <1>1, <1>2, <2>2 DEF KeysInOrder
<1>4. CASE getCount BY <1>4 DEF getCount
<1>5. CASE next BY <1>2, <1>5, OrderNext
<1>6. CASE return BY <1>2, <1>6 DEF return, KeysInOrder
<1>7. CASE renewReadTxn BY <1>2, <1>7 DEF renewReadTxn, KeysInOrder
<1>8. CASE resetReadTxn BY <1>2, <1>8 DEF resetReadTxn, KeysInOrder
<1>9. CASE Commit BY <1>2, <1>9 DEF Commit, KeysInOrder
<1>10. CASE Finished \/ UNCHANGED vars BY <1>2, <1>10 DEF Finished, vars, KeysInOrder
<1> QED BY <1>3, <1>4, <1>5, <1>6, <1>7, <1>8, <1>9, <1>10 DEF Next

LEMMA OrderInvImplies ==
    ASSUME RenewedScans PROVE Contents /\ OrderInv => RenewedOrder
<1> SUFFICES ASSUME Contents, OrderInv, ~OnlyCount(query), ~query.snapshot
             PROVE  /\ \A i, j \in DOMAIN out : i < j =>
                         /\ Ahead(query, out[i], out[j])
                         /\ ~query.dupSort => out[i][1] # out[j][1]
                    /\ Wanted(query, ToSet(out)) = ToSet(out)
  BY DEF RenewedOrder
<1>1. PICK q, s : q = query /\ s = out OBVIOUS
<1>2. q \in Queries /\ ~ValuesForKey(q) BY <1>1, ScansAssumption DEF Contents, RenewedScans
<1>3. /\ s \in Seq(Pairs) /\ \A i \in 1..Len(s) : InRange(q, s[i])
      /\ \A i, j \in 1..Len(s) : i < j => KeyAhead(q, s[i], s[j])
  BY <1>1 DEF OrderInv, KeysInOrder, InRange
<1>4. DOMAIN s = 1..Len(s) /\ \A i \in 1..Len(s) : s[i][1] \in Nat
  BY <1>3, LenProperties DEF Pairs
<1>5. \A i, j \in DOMAIN s : i < j => Ahead(q, s[i], s[j]) /\ s[i][1] # s[j][1]
  <2> TAKE i, j \in DOMAIN s
  <2> HAVE i < j
  <2>1. KeyAhead(q, s[i], s[j]) /\ s[i][1] \in Nat /\ s[j][1] \in Nat BY <1>3, <1>4
  <2> QED BY <2>1 DEF KeyAhead, Ahead, Before
<1>6. \A x \in ToSet(s) : InRange(q, x) BY <1>3, <1>4 DEF ToSet
<1>7. Wanted(q, ToSet(s)) = ToSet(s)
  <2>1. \A x : x \in Wanted(q, ToSet(s)) <=> x \in ToSet(s) /\ InRange(q, x)
    BY <1>2, RangeFacts
  <2> QED BY <1>6, <2>1
<1> QED BY <1>1, <1>5, <1>7

LEMMA StableMetNext ==
    ASSUME RenewedScans, Contents, StableSeen, ~OnlyCount(query), ~query.snapshot, KeysInOrder,
           query.offset = 0, query.limit = NoLimit, StableMet, next
    PROVE  StableMet'
<1>1. PICK d, h, e : Took(d, h, e) BY NextTook
<1>2. PICK q, s, n, k, S, J, K :
        q = query /\ s = out /\ n = count /\ k = currentKey /\ S = stable /\ J = jumped /\ K = jumped'
  OBVIOUS
<1>3. /\ q \in Queries /\ ~ValuesForKey(q) /\ q.kind # "exists"
      /\ d \subseteq Entries /\ Single(d)
      /\ s \in Seq(Pairs) /\ n = Len(s) /\ n \in Nat
      /\ n = 0 => e = doPosition(q, d, From(q), q.offset)
      /\ n > 0 => /\ k \in Nat /\ k # NoKey
                  /\ e = Move(q, d, h, iteratingOp(q))
                  /\ \/ ~Renews /\ h \in d /\ h[1] = k
                     \/ Renews /\ h = doPosition(q, d, k, 0)
  BY <1>1, <1>2, RenewedFrom
<1>4. /\ S \subseteq d /\ J \subseteq K
      /\ Renews /\ n > 0 /\ h[1] # k => Item(q, h) \in K
      /\ n > 0 => \A f \in Wanted(q, S) : Item(q, f) \in ToSet(s) \cup J \/ KeyAhead(q, <<k>>, f)
  BY <1>1, <1>2 DEF Took, StableSeen, StableMet, TxnView
<1>5. /\ query' = q /\ stable' = S /\ jumped' = K
      /\ IF e = NoEntry \/ PastEnd(q, e)
         THEN phase' = "done" /\ out' = s
         ELSE /\ phase' = "open" /\ out' = Append(s, Item(q, e)) /\ count' = n + 1
              /\ currentKey' = e[1]
  BY <1>1, <1>2, <1>3 DEF Took, KeyAfter, AtLimit
<1>6. \A f \in Wanted(q, S) : f \in d /\ f \in Entries /\ InRange(q, f) /\ ~PastEnd(q, f)
  <2> TAKE f \in Wanted(q, S)
  <2>1. S \subseteq Entries BY <1>3, <1>4
  <2>2. ~PastEnd(q, f) /\ f \in S BY <1>3, <2>1, WantedReach
  <2>3. InRange(q, f) BY <1>3, RangeFacts
  <2> QED BY <1>3, <1>4, <2>2, <2>3
<1>7. ASSUME NEW f \in Wanted(q, S)
      PROVE  \/ Item(q, f) \in ToSet(s) \cup K
             \/ e # NoEntry /\ e \in d /\ (f = e \/ KeyAhead(q, e, f))
  <2>1. f \in d /\ f \in Entries BY <1>6
  <2>2. CASE n = 0
    <3>1. Sensible(q) /\ FindsStart(q, d, From(q)) /\ From(q) \in Nat
          /\ e = doPosition(q, d, From(q), 0)
      BY <1>2, <1>3, <2>2, WantedReach DEF Sensible, FindsStart
    <3>2. Leads(q, Reach(q, d, From(q)), e) BY <1>3, <3>1, Repositioned
    <3>3. f \in Reach(q, d, From(q))
      <4>1. S \subseteq Entries BY <1>3, <1>4
      <4>2. f \in Reach(q, S, From(q)) BY <1>3, <4>1, WantedReach
      <4> QED BY <2>1, <4>2 DEF Reach
    <3>4. e # NoEntry /\ e \in Reach(q, d, From(q)) /\ (Same(q, e, f) \/ Past(q, e, f))
      BY <3>2, <3>3 DEF Leads
    <3>5. e \in d BY <3>4 DEF Reach
    <3> QED BY <1>3, <2>1, <3>4, <3>5, PastKey
  <2>3. CASE n # 0
    <3>1. n > 0 BY <1>3, <2>3
    <3>2. CASE Item(q, f) \in ToSet(s) \cup J BY <1>4, <3>2
    <3>3. CASE KeyAhead(q, <<k>>, f)
      <4>1. /\ e # NoEntry => e \in d
            /\ \/ f = h /\ h[1] # k
               \/ e # NoEntry /\ (f = e \/ KeyAhead(q, e, f))
        BY <1>3, <2>1, <3>1, <3>3, RenewedMove
      <4> QED BY <1>3, <1>4, <3>1, <4>1
    <3> QED BY <1>4, <3>1, <3>2, <3>3
  <2> QED BY <2>2, <2>3
<1>8. CASE e = NoEntry \/ PastEnd(q, e)
  <2>1. \A f \in Wanted(q, S) : Item(q, f) \in ToSet(s) \cup K
    <3> TAKE f \in Wanted(q, S)
    <3> SUFFICES ASSUME e # NoEntry, e \in d, f = e \/ KeyAhead(q, e, f) PROVE FALSE
      BY <1>7
    <3>1. f \in d /\ f \in Entries /\ e \in Entries /\ ~PastEnd(q, f) /\ PastEnd(q, e)
      BY <1>3, <1>6, <1>8
    <3>2. Past(q, e, f) BY <1>3, <3>1, PastKey
    <3>3. Sensible(q) /\ Within(q, e, f) BY <1>3 DEF Sensible, Within
    <3> QED BY <1>3, <3>1, <3>2, <3>3, EndStays
  <2>2. Items(q, S) \subseteq ToSet(s) \cup K BY <2>1 DEF Items
  <2> QED BY <1>5, <1>8, <2>2 DEF StableMet
<1>9. CASE ~(e = NoEntry \/ PastEnd(q, e))
  <2>1. /\ phase' = "open" /\ out' = Append(s, Item(q, e)) /\ count' = n + 1
        /\ currentKey' = e[1]
    BY <1>5, <1>9
  <2>2. ASSUME e \in d PROVE ToSet(s) \cup {Item(q, e)} \subseteq ToSet(Append(s, Item(q, e)))
    <3>1. Item(q, e) \in Pairs BY <1>3, <2>2, EntryTypes DEF Item, Pairs
    <3> DEFINE y == Item(q, e)
               t == Append(s, y)
    <3>2. /\ t \in Seq(Pairs) /\ Len(t) = n + 1 /\ t[n + 1] = y
          /\ \A i \in 1..n : t[i] = s[i]
      BY <1>3, <3>1, AppendProperties
    <3> HIDE DEF t, y
    <3>3. DOMAIN s = 1..n /\ DOMAIN t = 1..(n + 1) /\ n + 1 \in 1..(n + 1)
          /\ \A i \in 1..n : i \in 1..(n + 1)
      BY <1>3, <3>2, LenProperties
    <3>4. ToSet(s) \cup {y} \subseteq ToSet(t) BY <3>2, <3>3 DEF ToSet
    <3> QED BY <3>4 DEF t, y
  <2>3. ASSUME NEW f \in Wanted(q, S)
        PROVE  \/ Item(q, f) \in ToSet(Append(s, Item(q, e))) \cup K
               \/ KeyAhead(q, <<e[1]>>, f)
    <3>1. CASE Item(q, f) \in K BY <3>1
    <3>2. CASE e # NoEntry /\ e \in d /\ (f = e \/ KeyAhead(q, e, f))
      BY <2>2, <3>2 DEF KeyAhead
    <3>3. CASE Item(q, f) \in ToSet(s)
      <4>1. \A z \in ToSet(s) : z \in ToSet(Append(s, Item(q, e)))
        BY <1>3, AppendProperties DEF ToSet
      <4> QED BY <3>3, <4>1
    <3> QED BY <1>7, <3>1, <3>2, <3>3
  <2> QED BY <1>5, <2>1, <2>3 DEF StableMet
<1> QED BY <1>8, <1>9

LEMMA MetStart == Init => StableInv
BY DEF Init, StableInv, StableMet

LEMMA MetStep ==
    ASSUME RenewedScans
    PROVE  Contents /\ StableSeen /\ OrderInv /\ StableInv /\ [Next]_vars => StableInv'
<1> SUFFICES ASSUME Contents, StableSeen, OrderInv, StableInv, [Next]_vars PROVE StableInv'
  OBVIOUS
<1>1. query' = query
  BY DEF Next, iterate, getCount, next, return, renewReadTxn, resetReadTxn, Commit, Finished, vars
<1> SUFFICES ASSUME ~OnlyCount(query), ~query.snapshot, query.offset = 0, query.limit = NoLimit
             PROVE StableMet'
  BY <1>1 DEF StableInv
<1>2. StableMet /\ KeysInOrder BY DEF StableInv, OrderInv
<1>3. CASE iterate BY <1>2, <1>3 DEF iterate, StableMet, KeysInOrder
<1>4. CASE getCount BY <1>4 DEF getCount
<1>5. CASE next BY <1>2, <1>5, StableMetNext
<1>6. CASE return BY <1>6 DEF return, StableMet
<1>7. CASE renewReadTxn BY <1>2, <1>7 DEF renewReadTxn, StableMet
<1>8. CASE resetReadTxn BY <1>2, <1>8 DEF resetReadTxn, StableMet
<1>9. CASE Commit
  <2>1. PICK q, S, T : q = query /\ S = stable /\ T = stable' OBVIOUS
  <2>2. q \in Queries /\ ~ValuesForKey(q) /\ T \subseteq S
    BY <1>9, <2>1, ScansAssumption DEF Commit, Contents, RenewedScans
  <2>3. Wanted(q, T) \subseteq Wanted(q, S) BY <2>2, RangeFacts
  <2>4. /\ phase = "open" /\ phase' = phase /\ count' = count /\ out' = out
        /\ jumped' = jumped /\ currentKey' = currentKey
    BY <1>9 DEF Commit
  <2>5. count > 0 => \A f \in Wanted(q, S) :
          Item(q, f) \in ToSet(out) \cup jumped \/ KeyAhead(q, <<currentKey>>, f)
    BY <1>2, <2>1, <2>4 DEF StableMet
  <2> QED BY <1>1, <2>1, <2>3, <2>4, <2>5 DEF StableMet
<1>10. CASE Finished \/ UNCHANGED vars BY <1>2, <1>10 DEF Finished, vars, StableMet
<1> QED BY <1>3, <1>4, <1>5, <1>6, <1>7, <1>8, <1>9, <1>10 DEF Next

-----------------------------------------------------------------------------
(* Counting. *)

\* The length of an answer without a limit.
LEMMA AnswerLength ==
    ASSUME NEW q \in Queries, NEW d, d \subseteq Entries
    PROVE  Len(Answer([q EXCEPT !.limit = NoLimit], d))
             = IF Cardinality(Items(q, d)) > q.offset
               THEN Cardinality(Items(q, d)) - q.offset ELSE 0
<1>1. PICK r : r = [q EXCEPT !.limit = NoLimit] OBVIOUS
<1>2. /\ r.kind = q.kind /\ r.key = q.key /\ r.start = q.start /\ r.end = q.end
      /\ r.reverse = q.reverse /\ r.values = q.values /\ r.offset = q.offset /\ r.limit = NoLimit
  BY <1>1 DEF Queries
<1>3. Items(r, d) = Items(q, d)
  <2>1. Wanted(r, d) = Wanted(q, d) BY <1>2 DEF Wanted, ValuesForKey
  <2>2. \A e : Item(r, e) = Item(q, e) BY <1>2 DEF Item
  <2> QED BY <2>1, <2>2 DEF Items
<1> DEFINE S == Items(q, d)
           n == Cardinality(S) - q.offset
           k == IF n > 0 THEN n ELSE 0
           el(i) == CHOOSE x \in Items(r, d) :
                      Cardinality({y \in Items(r, d) : Ahead(r, y, x)}) = r.offset + i - 1
           A == Answer(r, d)
<1>4. A = [i \in 1..k |-> el(i)] BY <1>2, <1>3 DEF Answer, AtLimit
<1>5. Cardinality(S) \in Nat /\ q.offset \in Nat BY ItemsFinite DEF Queries
<1>6. k \in Nat /\ k = IF Cardinality(S) > q.offset THEN Cardinality(S) - q.offset ELSE 0
  BY <1>5
<1> HIDE DEF A, S, n, k, el
<1>7. A \in Seq({el(i) : i \in 1..k}) /\ Len(A) = k BY <1>4, <1>6
<1> QED BY <1>1, <1>6, <1>7 DEF A, S

\* The steps that a count takes are those that meet an item.
LEMMA CountRun ==
    ASSUME NEW q \in Queries, Sensible(q), NEW d, d \subseteq Entries,
           NEW first \in Entries \cup {NoEntry}, NEW p \in Nat, Meets(q, d, first, p),
           NEW visit, visit = Visited(q, d, first, iteratingOp(q), Cardinality(d)),
           NEW counted, counted = {i \in 0..Cardinality(d) : \A j \in 0..i :
                                     visit[j] # NoEntry /\ ~PastEnd(q, visit[j])}
    PROVE  /\ \A i : i \in counted <=> i \in Nat /\ p + i < Cardinality(Items(q, d))
           /\ \A i \in counted : /\ visit[i] \in Wanted(q, d)
                                 /\ Place(q, d, Item(q, visit[i])) = p + i
<1>1. PICK n, c : n = Cardinality(d) /\ c = Cardinality(Items(q, d)) OBVIOUS
<1>2. n \in Nat /\ c \in Nat /\ c <= n
  <2>1. IsFiniteSet(d) /\ Wanted(q, d) \subseteq d BY EntryTypes, Counted, WantedReach
  <2>2. /\ IsFiniteSet(Wanted(q, d)) /\ Cardinality(Wanted(q, d)) <= n
        /\ Cardinality(Wanted(q, d)) \in Nat /\ n \in Nat
    BY <1>1, <2>1, Counted
  <2> DEFINE f == [e \in Wanted(q, d) |-> Item(q, e)]
  <2>3. f \in Surjection(Wanted(q, d), Items(q, d)) BY DEF Surjection, Items
  <2> HIDE DEF f
  <2>4. c <= Cardinality(Wanted(q, d)) BY <1>1, <2>2, <2>3, FS_Surjection
  <2>5. c \in Nat BY <1>1, ItemsFinite
  <2> QED BY <2>2, <2>4, <2>5
<1>3. \A i \in 0..n : Meets(q, d, visit[i], p + i) BY <1>1, <1>2, VisitedPlaces
<1>4. \A i \in 0..n : IF p + i < c
                      THEN /\ visit[i] # NoEntry /\ ~PastEnd(q, visit[i])
                           /\ visit[i] \in Wanted(q, d)
                           /\ Place(q, d, Item(q, visit[i])) = p + i
                      ELSE visit[i] = NoEntry \/ PastEnd(q, visit[i])
  <2> TAKE i \in 0..n
  <2>1. Meets(q, d, visit[i], p + i) BY <1>3
  <2>2. CASE visit[i] = NoEntry \/ PastEnd(q, visit[i])
    <3>1. c <= p + i BY <1>1, <2>1, <2>2 DEF Meets
    <3>2. ~(p + i < c) BY <1>2, <3>1
    <3> QED BY <2>2, <3>2
  <2>3. CASE ~(visit[i] = NoEntry \/ PastEnd(q, visit[i]))
    <3>1. visit[i] \in Wanted(q, d) /\ Place(q, d, Item(q, visit[i])) = p + i
      BY <2>1, <2>3 DEF Meets
    <3>2. Item(q, visit[i]) \in Items(q, d) BY <3>1 DEF Items
    <3>3. p + i < c BY <1>1, <3>1, <3>2, ItemsFinite
    <3> QED BY <2>3, <3>1, <3>3
  <2> QED BY <2>2, <2>3
<1>5. \A i : i \in counted <=> i \in 0..n /\ \A j \in 0..i : visit[j] # NoEntry /\ ~PastEnd(q, visit[j])
  BY <1>1
<1>6. \A i : i \in counted <=> i \in Nat /\ p + i < c
  <2> TAKE i
  <2>1. ASSUME i \in counted PROVE i \in Nat /\ p + i < c
    <3>1. i \in 0..n /\ i \in 0..i BY <1>2, <1>5, <2>1
    <3>2. visit[i] # NoEntry /\ ~PastEnd(q, visit[i]) BY <1>5, <2>1, <3>1
    <3> QED BY <1>4, <3>1, <3>2
  <2>2. ASSUME i \in Nat, p + i < c PROVE i \in counted
    <3>1. i \in 0..n /\ \A j \in 0..i : j \in 0..n /\ p + j < c BY <1>2, <2>2
    <3> QED BY <1>4, <1>5, <3>1
  <2> QED BY <2>1, <2>2
<1>7. \A i \in counted : i \in 0..n /\ p + i < c BY <1>5, <1>6
<1> QED BY <1>1, <1>4, <1>6, <1>7

\* A query that counts the values of each key in one step.
ByKey(q) == q.dupSort /\ iteratingOp(q) = "ALL"

\* The queries that count what the reference does.
CountSensible(q) ==
    IF q.kind = "exists" THEN q.start # NoKey /\ ~q.reverse
    ELSE Sensible(q) /\ (CountsAtOnce(q) \/ ByKey(q) => q.offset = 0)

\* doesExist finds an entry exactly when it is there.
LEMMA ExistsExact ==
    ASSUME NEW q \in Queries, q.kind = "exists", CountSensible(q), NEW d, d \subseteq Entries
    PROVE  (CountAll(q, d) > 0) = (<<q.key, q.start>> \in d)
<1> DEFINE R == OfKey(d, q.key) \cap {<<q.key, q.start>>}
           e == doPosition(q, d, q.key, 0)
<1>1. R \subseteq Entries /\ OfKey(d, q.key) \subseteq Entries BY DEF OfKey
<1>2. FirstEntry(q, d, q.key) = mdb_cursor_first(R)
  BY DEF FirstEntry, FirstOfValues, ValuesForKey, CountSensible, mdb_cursor_set
<1>3. mdb_cursor_first(R) \in Entries \cup {NoEntry}
  <2>1. CASE R = {} BY <2>1, <1>1, FirstLast
  <2>2. CASE R # {} BY <2>2, <1>1, FirstLast
  <2> QED BY <2>1, <2>2
<1>4. e = mdb_cursor_first(R) BY <1>2, <1>3, PositionFirst
<1>5. CountAll(q, d) = IF e = NoEntry THEN 0 ELSE mdb_cursor_count(d, e)
  BY DEF CountAll, CountsAtOnce
<1>6. (<<q.key, q.start>> \in d) <=> R # {} BY DEF OfKey
<1> HIDE DEF e
<1>7. CASE R = {}
  <2>1. CountAll(q, d) = 0 BY <1>1, <1>4, <1>5, <1>7, FirstLast
  <2> QED BY <1>6, <1>7, <2>1
<1>8. CASE R # {}
  <2>1. e \in R BY <1>1, <1>4, <1>8, FirstLast
  <2>2. e # NoEntry /\ e \in OfKey(d, e[1]) BY <1>1, <2>1, EntryTypes DEF OfKey
  <2>3. IsFiniteSet(OfKey(d, e[1])) /\ Cardinality(OfKey(d, e[1])) \in Nat
    <3>1. OfKey(d, e[1]) \subseteq Entries BY DEF OfKey
    <3> QED BY <3>1, EntryTypes, Counted
  <2>4. Cardinality(OfKey(d, e[1])) # 0 BY <2>2, <2>3, FS_EmptySet
  <2>5. CountAll(q, d) > 0 BY <1>5, <2>2, <2>3, <2>4 DEF mdb_cursor_count
  <2> QED BY <1>6, <1>8, <2>5
<1> QED BY <1>7, <1>8

\* mdb_cursor_count alone counts all the values of a key.
LEMMA AtOnceExact ==
    ASSUME NEW q \in Queries, CountsAtOnce(q), q.kind # "exists", CountSensible(q),
           NEW d, d \subseteq Entries
    PROVE  CountAll(q, d) = Cardinality(Items(q, d))
<1> DEFINE e == doPosition(q, d, q.key, 0)
           W == Wanted(q, d)
<1>1. /\ ValuesForKey(q) /\ q.values /\ q.start = NoKey /\ q.end = NoKey /\ From(q) = q.key
      /\ Sensible(q) /\ q.key \in Nat
  BY WantedReach DEF CountsAtOnce, CountSensible, Sensible, ValuesForKey, From
<1>2. W = OfKey(d, q.key)
  BY <1>1 DEF Wanted, OfKey
<1>3. Items(q, d) = W
  <2>1. \A f : Item(q, f) = f BY <1>1 DEF Item
  <2> QED BY <2>1 DEF Items
<1>4. Leads(q, Reach(q, d, q.key), e)
  <2>1. FindsStart(q, d, q.key) BY <1>1 DEF FindsStart
  <2> QED BY <1>1, <2>1, Repositioned
<1>5. CountAll(q, d) = IF e = NoEntry THEN 0 ELSE mdb_cursor_count(d, e)
  BY DEF CountAll
<1>6. Reach(q, d, q.key) = OfKey(d, q.key) BY <1>1 DEF Reach, OfKey
<1> HIDE DEF e, W
<1>7. CASE e = NoEntry BY <1>2, <1>3, <1>4, <1>5, <1>6, <1>7, FS_EmptySet DEF Leads
<1>8. CASE e # NoEntry
  <2>1. e[1] = q.key BY <1>4, <1>6, <1>8 DEF Leads, OfKey
  <2> QED BY <1>2, <1>3, <1>5, <1>8, <2>1 DEF mdb_cursor_count
<1> QED BY <1>7, <1>8

\* Counting step by step counts the items after the offset.
LEMMA StepsExact ==
    ASSUME NEW q \in Queries, ~CountsAtOnce(q), ~ByKey(q), CountSensible(q),
           OnlyCount(q), NEW d, d \subseteq Entries, ~q.dupSort => Single(d)
    PROVE  CountAll(q, d) = IF Cardinality(Items(q, d)) > q.offset
                            THEN Cardinality(Items(q, d)) - q.offset ELSE 0
<1>1. Sensible(q) /\ q.kind # "exists" /\ q.offset \in Nat /\ q.values \in BOOLEAN
  BY DEF CountSensible, CountsAtOnce, Queries
<1>2. FindsStart(q, d, From(q)) BY <1>1 DEF FindsStart, ByKey, iteratingOp
<1> DEFINE first == doPosition(q, d, From(q), q.offset)
           visit == Visited(q, d, first, iteratingOp(q), Cardinality(d))
           counted == {i \in 0..Cardinality(d) : \A j \in 0..i :
                         visit[j] # NoEntry /\ ~PastEnd(q, visit[j])}
<1>3. first \in Entries \cup {NoEntry} /\ Meets(q, d, first, q.offset)
  BY <1>1, <1>2, OffsetPlace
<1>4. CountAll(q, d) = Cardinality(counted)
  BY DEF CountAll, CountFrom, ByKey, From
<1>5. PICK c, o : c = Cardinality(Items(q, d)) /\ o = q.offset OBVIOUS
<1>6. c \in Nat /\ o \in Nat BY <1>1, <1>5, ItemsFinite
<1> HIDE DEF first
<1>6a. visit = Visited(q, d, first, iteratingOp(q), Cardinality(d)) OBVIOUS
<1> HIDE DEF visit
<1>6b. counted = {i \in 0..Cardinality(d) : \A j \in 0..i :
                    visit[j] # NoEntry /\ ~PastEnd(q, visit[j])}
  OBVIOUS
<1> HIDE DEF counted
<1>7. \A i : i \in counted <=> i \in Nat /\ o + i < c
  BY <1>1, <1>3, <1>5, <1>6a, <1>6b, CountRun
<1>8. counted = 0..(c - o - 1)
  <2>1. \A i : i \in 0..(c - o - 1) <=> i \in Nat /\ o + i < c BY <1>6
  <2> QED BY <1>7, <2>1
<1>9. Cardinality(counted) = IF 0 > c - o - 1 THEN 0 ELSE (c - o - 1) - 0 + 1
  BY <1>6, <1>8, FS_Interval
<1> QED BY <1>4, <1>5, <1>6, <1>9

\* Counting key by key counts the values of every key of the range.
LEMMA KeysExact ==
    ASSUME NEW q \in Queries, ~CountsAtOnce(q), ByKey(q), CountSensible(q),
           OnlyCount(q), NEW d, d \subseteq Entries
    PROVE  CountAll(q, d) = Cardinality(Items(q, d))
<1>1. PICK r : r = [q EXCEPT !.values = FALSE] OBVIOUS
<1>2. /\ r \in Queries /\ r.kind = q.kind /\ r.start = q.start /\ r.end = q.end
      /\ r.reverse = q.reverse /\ r.values = FALSE
  BY <1>1 DEF Queries
<1>3. /\ q.values /\ q.kind = "count" /\ ~ValuesForKey(q) /\ ~ValuesForKey(r) /\ q.offset = 0
      /\ iteratingOp(r) = "NODUP" /\ Sensible(r) /\ From(q) = q.start /\ From(r) = q.start
  <2>1. q.values /\ ~ValuesForKey(q) BY DEF ByKey, iteratingOp
  <2>2. q.kind = "count" BY <2>1 DEF OnlyCount, ValuesForKey
  <2>3. q.offset = 0 BY <2>2 DEF CountSensible
  <2> QED BY <1>2, <2>1, <2>2, <2>3 DEF ValuesForKey, iteratingOp, Sensible, From
<1> DEFINE first == doPosition(q, d, q.start, 0)
           visit == Visited(q, d, first, "NODUP", Cardinality(d))
           counted == {i \in 0..Cardinality(d) : \A j \in 0..i :
                         visit[j] # NoEntry /\ ~PastEnd(q, visit[j])}
           P == {c \in counted \X d : c[2] \in OfKey(d, visit[c[1]][1])}
<1>4. CountAll(q, d) = Cardinality(P)
  <2>1. CountAll(q, d) = CountFrom(q, d, first) BY <1>3 DEF CountAll
  <2> QED BY <2>1 DEF CountFrom, ByKey
<1>5. first \in Entries \cup {NoEntry} /\ Meets(r, d, first, 0)
  <2>1. FindsStart(r, d, From(r)) BY <1>2 DEF FindsStart
  <2>2. FirstEntry(r, d, From(r)) \in Entries \cup {NoEntry} /\ Meets(r, d, FirstEntry(r, d, From(r)), 0)
    BY <1>2, <1>3, <2>1, MeetsFirst
  <2>3. FirstEntry(r, d, From(r)) = FirstEntry(q, d, q.start)
    BY <1>2, <1>3 DEF FirstEntry, FirstOfRange
  <2>4. first = FirstEntry(q, d, q.start) BY <2>2, <2>3, PositionFirst
  <2> QED BY <2>2, <2>3, <2>4
<1>6. \A e, op : Move(r, d, e, op) = Move(q, d, e, op) BY <1>2 DEF Move
<1>7. visit = Visited(r, d, first, iteratingOp(r), Cardinality(d))
  BY <1>3, <1>6 DEF Visited
<1>8. \A e : PastEnd(r, e) <=> PastEnd(q, e) BY <1>2, <1>3 DEF PastEnd
<1>9. counted = {i \in 0..Cardinality(d) : \A j \in 0..i :
                   visit[j] # NoEntry /\ ~PastEnd(r, visit[j])}
  BY <1>8
<1> HIDE DEF first, visit, counted
<1>10. /\ \A i : i \in counted <=> i \in Nat /\ 0 + i < Cardinality(Items(r, d))
       /\ \A i \in counted : /\ visit[i] \in Wanted(r, d)
                             /\ Place(r, d, Item(r, visit[i])) = 0 + i
  BY <1>2, <1>3, <1>5, <1>7, <1>9, CountRun
<1>11. /\ Wanted(r, d) = Wanted(q, d) /\ Items(q, d) = Wanted(q, d)
       /\ \A e : Item(r, e) = <<e[1], 0>>
  <2>1. Wanted(r, d) = Wanted(q, d) BY <1>2, <1>3 DEF Wanted
  <2>2. \A e : Item(q, e) = e /\ Item(r, e) = <<e[1], 0>> BY <1>2, <1>3 DEF Item
  <2> QED BY <2>1, <2>2 DEF Items
<1>12. \A e \in Wanted(q, d) : e \in d /\ \A f \in d : f[1] = e[1] => f \in Wanted(q, d)
  BY <1>3, RangeFacts
<1> DEFINE f == [c \in P |-> c[2]]
<1>13. f \in Injection(P, Wanted(q, d))
  <2>1. \A c \in P : /\ c[1] \in counted /\ c[2] \in d /\ c = <<c[1], c[2]>>
                     /\ c[2][1] = visit[c[1]][1]
    BY DEF OfKey
  <2> HIDE DEF P
  <2>2. \A c \in P : c[2] \in Wanted(q, d) BY <1>10, <1>11, <1>12, <2>1
  <2>3. ASSUME NEW b \in P, NEW c \in P, b[2] = c[2] PROVE b = c
    <3>1. Item(r, visit[b[1]]) = Item(r, visit[c[1]]) BY <1>11, <2>1, <2>3, SMTT(30)
    <3>2. 0 + b[1] = 0 + c[1] /\ b[1] \in Nat /\ c[1] \in Nat BY <1>10, <2>1, <3>1
    <3>3. b[1] = c[1] BY <3>2
    <3> QED BY <2>1, <2>3, <3>3
  <2> QED BY <2>2, <2>3 DEF Injection, IsInjective
<1>14. \A e \in Wanted(q, d) : \E c \in P : f[c] = e
  <2> TAKE e \in Wanted(q, d)
  <2>1. PICK i : i = Place(r, d, Item(r, e)) OBVIOUS
  <2>2. Item(r, e) \in Items(r, d) BY <1>11 DEF Items
  <2>3. i \in Nat /\ i < Cardinality(Items(r, d)) BY <1>2, <2>1, <2>2, ItemsFinite
  <2>4. i \in counted BY <1>10, <2>3
  <2>5. visit[i] \in Wanted(r, d) /\ Place(r, d, Item(r, visit[i])) = i
    BY <1>10, <2>3, <2>4
  <2>6. Item(r, visit[i]) \in Items(r, d) BY <2>5 DEF Items
  <2>7. Item(r, visit[i]) = Item(r, e) BY <1>2, <2>1, <2>2, <2>5, <2>6, PlaceUnique
  <2>8. visit[i][1] = e[1] BY <1>11, <2>7
  <2>9. e \in d /\ <<i, e>> \in P BY <1>12, <2>4, <2>8 DEF OfKey
  <2>10. f[<<i, e>>] = e BY <2>9
  <2> QED BY <2>9, <2>10
<1> HIDE DEF P, f
<1>15. Cardinality(P) = Cardinality(Wanted(q, d))
  <2>1. f \in Surjection(P, Wanted(q, d)) BY <1>13, <1>14 DEF Injection, Surjection
  <2>2. IsFiniteSet(Wanted(q, d)) BY <1>11, ItemsFinite
  <2> QED BY <1>13, <2>1, <2>2, FS_Injection
<1> QED BY <1>4, <1>11, <1>15

\* A count is the number of entries that the same query iterates over.
LEMMA CountAllExact ==
    ASSUME NEW q \in Queries, OnlyCount(q), CountSensible(q),
           NEW d, d \subseteq Entries, ~q.dupSort => Single(d)
    PROVE  IF q.kind = "exists" THEN (CountAll(q, d) > 0) = (<<q.key, q.start>> \in d)
           ELSE CountAll(q, d) = Len(Answer([q EXCEPT !.limit = NoLimit], d))
<1>1. CASE q.kind = "exists" BY <1>1, ExistsExact
<1>2. CASE q.kind # "exists" /\ (CountsAtOnce(q) \/ ByKey(q))
  <2>1. CountAll(q, d) = Cardinality(Items(q, d)) /\ Cardinality(Items(q, d)) \in Nat
    BY <1>2, AtOnceExact, KeysExact, ItemsFinite
  <2>2. q.offset = 0 BY <1>2 DEF CountSensible
  <2> QED BY <1>2, <2>1, <2>2, AnswerLength
<1>3. CASE q.kind # "exists" /\ ~CountsAtOnce(q) /\ ~ByKey(q)
  BY <1>3, StepsExact, AnswerLength
<1> QED BY <1>1, <1>2, <1>3

\* The counts that the code computes as the reference does.
CountScans == \A q \in Scans : OnlyCount(q) => CountSensible(q)

\* A count was computed over the content of its transaction.
CountInv == OnlyCount(query) => /\ phase \in {"ready", "done"}
                                /\ phase = "done" => answer = CountAll(query, view)

LEMMA CountStart == Init => CountInv
BY DEF Init, CountInv

LEMMA CountStep == CountInv /\ [Next]_vars => CountInv'
<1> SUFFICES ASSUME CountInv, [Next]_vars PROVE CountInv' OBVIOUS
<1>1. query' = query
  BY DEF Next, iterate, getCount, next, return, renewReadTxn, resetReadTxn, Commit, Finished, vars
<1> SUFFICES ASSUME OnlyCount(query) PROVE CountInv' BY <1>1 DEF CountInv
<1>2. phase \in {"ready", "done"} /\ (phase = "done" => answer = CountAll(query, view))
  BY DEF CountInv
<1>3. CASE iterate BY <1>3 DEF iterate
<1>4. CASE getCount BY <1>4 DEF getCount, CountInv
<1>5. CASE next BY <1>2, <1>5 DEF next
<1>6. CASE return BY <1>2, <1>6 DEF return
<1>7. CASE renewReadTxn BY <1>2, <1>7 DEF renewReadTxn
<1>8. CASE resetReadTxn BY <1>2, <1>8 DEF resetReadTxn
<1>9. CASE Commit BY <1>2, <1>9 DEF Commit
<1>10. CASE Finished \/ UNCHANGED vars BY <1>2, <1>10 DEF Finished, vars, CountInv
<1> QED BY <1>3, <1>4, <1>5, <1>6, <1>7, <1>8, <1>9, <1>10 DEF Next

LEMMA CountInvImplies ==
    ASSUME CountScans PROVE Contents /\ CountInv => CountExact
<1> SUFFICES ASSUME Contents, CountInv, OnlyCount(query), phase = "done"
             PROVE  IF query.kind = "exists"
                    THEN (answer > 0) = (<<query.key, query.start>> \in view)
                    ELSE answer = Len(Answer([query EXCEPT !.limit = NoLimit], view))
  BY DEF CountExact
<1>1. PICK q, d : q = query /\ d = view OBVIOUS
<1>2. /\ q \in Queries /\ OnlyCount(q) /\ CountSensible(q) /\ d \subseteq Entries
      /\ ~q.dupSort => Single(d)
  BY <1>1, ScansAssumption DEF Contents, CountScans
<1>3. answer = CountAll(q, d) BY <1>1 DEF CountInv
<1> QED BY <1>1, <1>2, <1>3, CountAllExact

-----------------------------------------------------------------------------

\* The database, the snapshots of the query and what stayed in the database
\* agree (resetCursor() moves the cursor to the renewed transaction).
THEOREM ContentsCorrect == Spec => [](Contents /\ StableSeen)
<1>1. Contents /\ StableSeen /\ [Next]_vars => (Contents /\ StableSeen)'
  BY ContentsStep, StableStep
<1> QED BY <1>1, ContentsStart, PTL DEF Spec

\* A query with a snapshot returns what the reference asks for, in order, all of
\* it when it runs to its end, whatever is committed and however often the shared
\* read transaction is reset (next() and doPosition), but for reverse queries
\* from a start key over all values of a dupSort database.
THEOREM ScanExactCorrect == ASSUME SnapshotScans PROVE Spec => []ScanExact
<1>1. Contents /\ ScanInv /\ [Next]_vars => (Contents /\ ScanInv)'
  BY ContentsStep, ScanStep
<1>2. Init => Contents /\ ScanInv BY ContentsStart, ScanStart
<1> QED BY <1>1, <1>2, ScanInvImplies, PTL DEF Spec

\* A query without a snapshot over a database with one value per key returns
\* strictly ordered items of its range, across renewals (next(), resetCursor()).
THEOREM RenewedOrderCorrect == ASSUME RenewedScans PROVE Spec => []RenewedOrder
<1>1. Contents /\ OrderInv /\ [Next]_vars => (Contents /\ OrderInv)'
  BY ContentsStep, OrderStep
<1>2. Init => Contents /\ OrderInv BY ContentsStart, OrderStart
<1> QED BY <1>1, <1>2, OrderInvImplies, PTL DEF Spec

\* Such a query loses no entry that stayed in the database but those that a
\* renewal landed on because the current key was gone (next(): position(0),
\* iterate()).
THEOREM StableFoundCorrect == ASSUME RenewedScans PROVE Spec => []StableFound
<1> DEFINE I == Contents /\ StableSeen /\ OrderInv /\ StableInv
<1>1. I /\ [Next]_vars => I' BY ContentsStep, StableStep, OrderStep, MetStep
<1>2. Init => I BY ContentsStart, OrderStart, MetStart
<1>3. I => StableFound BY DEF StableInv, StableMet, StableFound, RanToEnd
<1> QED BY <1>1, <1>2, <1>3, PTL DEF Spec

\* Iterations and counts agree with the reference definition of the query, though
\* doPosition computes them along different paths.
THEOREM AnswersExactCorrect == ASSUME SnapshotScans, CountScans PROVE Spec => []AnswersExact
<1> DEFINE I == Contents /\ ScanInv /\ CountInv
<1>1. I /\ [Next]_vars => I' BY ContentsStep, ScanStep, CountStep
<1>2. Init => I BY ContentsStart, ScanStart, CountStart
<1>3. I => AnswersExact BY ScanInvImplies, CountInvImplies DEF AnswersExact
<1> QED BY <1>1, <1>2, <1>3, PTL DEF Spec
=============================================================================
