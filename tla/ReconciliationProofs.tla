----------------------- MODULE ReconciliationProofs -----------------------
(***************************************************************************)
(* What the cycles do to any two replicas, whatever their users changed:   *)
(* both stay trees and the rows a database with its constraints; the       *)
(* sorter loses no operation and ends with all nine rules in force; what   *)
(* the rules count on is so of what the generator and the resolver make;   *)
(* and no operation waits for a later one or for one a job ends.           *)
(***************************************************************************)
EXTENDS Reconciliation, FiniteSetTheorems, SequenceTheorems, WellFoundedInduction, TLAPS

-----------------------------------------------------------------------------
(* Induction up to a number, and what is computed along it.                 *)

\* A set of naturals has a least element.
LEMMA Least ==
  ASSUME NEW T \in SUBSET Nat, T # {}
  PROVE  \E m \in T : \A k \in T : m <= k
<1>1. PICK m \in T : \A k \in T : <<k, m>> \notin OpToRel(<, Nat)
  BY NatLessThanWellFounded, WFMin
<1>2. \A k \in T : ~(k < m)
  BY <1>1 DEF OpToRel
<1> QED
  BY <1>2

\* And one within a bound has a greatest.
LEMMA Greatest ==
  ASSUME NEW n \in Nat, NEW T \in SUBSET (0 .. n), T # {}
  PROVE  \E m \in T : \A k \in T : k <= m
<1> DEFINE S == {n - k : k \in T}
<1>0. S \in SUBSET Nat
  <2>1. \A k \in T : n - k \in Nat
    OBVIOUS
  <2> QED
    BY <2>1
<1>1. S # {}
  <2>1. PICK k \in T : TRUE
    OBVIOUS
  <2>2. n - k \in S
    BY <2>1
  <2> QED
    BY <2>2
<1>2. PICK s \in S : \A j \in S : s <= j
  BY <1>0, <1>1, Least
<1>3. PICK m \in T : s = n - m
  BY <1>2
<1>4. \A k \in T : n - m <= n - k
  BY <1>2, <1>3
<1> QED
  BY <1>4

\* A set of naturals with 0 that goes on up to n has all of 0 .. n.
LEMMA InductionUpTo ==
  ASSUME NEW n \in Nat, NEW T, 0 \in T, \A k \in 1 .. n : k - 1 \in T => k \in T
  PROVE  0 .. n \subseteq T
<1> SUFFICES ASSUME (0 .. n) \ T # {} PROVE FALSE
  OBVIOUS
<1>0. (0 .. n) \ T \in SUBSET Nat
  OBVIOUS
<1>1. PICK m \in (0 .. n) \ T : \A k \in (0 .. n) \ T : m <= k
  BY <1>0, Least
<1> QED
  BY <1>1

\* What is defined by recursion up to n, with values in S, is defined.
Steps(n, S) == [1 .. n -> [S -> S]]
Follows(f, n, S, b, step) ==
    f \in [0 .. n -> S] /\ f[0] = b /\ \A k \in 1 .. n : f[k] = step[k][f[k - 1]]
LEMMA RecursionUpTo ==
  ASSUME NEW n \in Nat, NEW S, NEW b \in S, NEW step \in Steps(n, S)
  PROVE  \E f : Follows(f, n, S, b, step)
<1> DEFINE T == {m \in 0 .. n : \E f : Follows(f, m, S, b, step)}
<1>1. 0 \in T
  <2>1. Follows([k \in 0 .. 0 |-> b], 0, S, b, step)
    BY DEF Follows
  <2> QED
    BY <2>1
<1>2. ASSUME NEW m \in 1 .. n, m - 1 \in T PROVE m \in T
  <2>1. PICK f : Follows(f, m - 1, S, b, step)
    BY <1>2
  <2> DEFINE g == [k \in 0 .. m |-> IF k = m THEN step[m][f[m - 1]] ELSE f[k]]
  <2>2. g \in [0 .. m -> S]
    BY <2>1 DEF Follows, Steps
  <2>3. g[0] = b
    BY <2>1 DEF Follows
  <2>4. ASSUME NEW k \in 1 .. m PROVE g[k] = step[k][g[k - 1]]
    <3>1. k - 1 \in 0 .. m - 1 /\ g[k - 1] = f[k - 1]
      OBVIOUS
    <3> QED
      BY <2>1, <3>1 DEF Follows
  <2>5. Follows(g, m, S, b, step)
    BY <2>2, <2>3, <2>4 DEF Follows
  <2> HIDE DEF g
  <2> QED
    BY <2>5
<1>3. n \in T
  <2>1. \A m \in 1 .. n : m - 1 \in T => m \in T
    BY <1>2
  <2> HIDE DEF T
  <2>2. 0 .. n \subseteq T
    BY <1>1, <2>1, InductionUpTo
  <2> QED
    BY <2>2
<1> QED
  BY <1>3

-----------------------------------------------------------------------------
(* The order in which pairs are met.                                        *)

\* R is a strict order of all of S.
IsOrderOf(S, R) ==
    /\ \A x \in S : <<x, x>> \notin R
    /\ \A x, y \in S : x = y \/ <<x, y>> \in R \/ <<y, x>> \in R
    /\ \A x, y, z \in S : <<x, y>> \in R /\ <<y, z>> \in R => <<x, z>> \in R

\* The places in such an order are the numbers of the members that come before: each one
\* has its own, and there is one for each place.
PlaceIn(S, R, x) == Cardinality({y \in S : <<y, x>> \in R})
LEMMA RanksArePlaces ==
  ASSUME NEW S, IsFiniteSet(S), NEW R, IsOrderOf(S, R)
  PROVE  /\ Cardinality(S) \in Nat
         /\ \A x \in S : PlaceIn(S, R, x) \in 0 .. Cardinality(S) - 1
         /\ \A x, y \in S : PlaceIn(S, R, x) = PlaceIn(S, R, y) => x = y
         /\ \A x, y \in S : <<x, y>> \in R => PlaceIn(S, R, x) < PlaceIn(S, R, y)
         /\ \A k \in 1 .. Cardinality(S) : \E x \in S : PlaceIn(S, R, x) = k - 1
<1> DEFINE n == Cardinality(S)
           below(x) == {y \in S : <<y, x>> \in R}
           rank == [x \in S |-> Cardinality(below(x))]
<1>1. n \in Nat
  BY FS_CardinalityType
<1>2. ASSUME NEW x \in S
      PROVE  IsFiniteSet(below(x)) /\ Cardinality(below(x)) \in 0 .. n - 1
  <2>1. below(x) \in SUBSET (S \ {x})
    BY DEF IsOrderOf
  <2>2. IsFiniteSet(S \ {x}) /\ Cardinality(S \ {x}) = n - 1
    BY FS_RemoveElement
  <2>3. IsFiniteSet(below(x)) /\ Cardinality(below(x)) <= n - 1
    BY <2>1, <2>2, FS_Subset
  <2> QED
    BY <1>1, <2>3, FS_CardinalityType
<1>3. ASSUME NEW x \in S, NEW y \in S, <<x, y>> \in R
      PROVE  rank[x] < rank[y]
  <2>1. below(x) \in SUBSET below(y) /\ x \in below(y) /\ x \notin below(x)
    BY <1>3 DEF IsOrderOf
  <2>2. Cardinality(below(x)) <= Cardinality(below(y)) /\ Cardinality(below(y)) # Cardinality(below(x))
    BY <1>2, <2>1, FS_Subset
  <2>3. Cardinality(below(x)) \in Int /\ Cardinality(below(y)) \in Int
    BY <1>1, <1>2
  <2>4. rank[x] = Cardinality(below(x)) /\ rank[y] = Cardinality(below(y))
    OBVIOUS
  <2> HIDE DEF below, rank
  <2> QED
    BY <2>2, <2>3, <2>4
<1>4. \A x, y \in S : rank[x] = rank[y] => x = y
  <2>1. \A x \in S : rank[x] \in Int
    BY <1>1, <1>2
  <2> HIDE DEF rank
  <2>2. \A x, y \in S : <<x, y>> \in R => rank[x] < rank[y]
    BY <1>3
  <2>3. \A x, y \in S : <<x, y>> \in R => rank[x] # rank[y]
    BY <2>1, <2>2
  <2> QED
    BY <2>3 DEF IsOrderOf
<1>5. rank \in Surjection(S, 0 .. n - 1)
  <2>1. IsFiniteSet(0 .. n - 1) /\ Cardinality(0 .. n - 1) = n
    BY <1>1, FS_Interval
  <2>2. rank \in [S -> 0 .. n - 1]
    BY <1>2
  <2>3. rank \in Injection(S, 0 .. n - 1)
    BY <1>4, <2>2 DEF Injection, IsInjective
  <2> QED
    BY <2>1, <2>3, FS_Injection
<1>6. \A x \in S : PlaceIn(S, R, x) = rank[x] /\ rank[x] \in 0 .. n - 1
  BY <1>2 DEF PlaceIn
<1> HIDE DEF rank
<1>7. ASSUME NEW k \in 1 .. n PROVE \E x \in S : PlaceIn(S, R, x) = k - 1
  <2>1. k - 1 \in 0 .. n - 1
    BY <1>1
  <2> QED
    BY <1>5, <1>6, <2>1 DEF Surjection
<1> QED
  BY <1>1, <1>3, <1>4, <1>6, <1>7

\* A set in such an order is a sequence of its members, which has them all, in their order.
LEMMA ArrangedHasAll ==
  ASSUME NEW S, IsFiniteSet(S), NEW R, IsOrderOf(S, R)
  PROVE  /\ Arranged(S, R) \in Seq(S)
         /\ \A x \in S : \E k \in DOMAIN Arranged(S, R) : Arranged(S, R)[k] = x
         /\ \A i, j \in DOMAIN Arranged(S, R) :
                <<Arranged(S, R)[i], Arranged(S, R)[j]>> \in R => i < j
         /\ Cardinality(S) \in Nat
<1> DEFINE n == Cardinality(S)
           rank == [x \in S |-> PlaceIn(S, R, x)]
           at(k) == CHOOSE x \in S : PlaceIn(S, R, x) = k - 1
<1>1. n \in Nat
  BY RanksArePlaces
<1>2. \A x \in S : rank[x] \in 0 .. n - 1
  BY RanksArePlaces
<1>4. /\ \A x, y \in S : rank[x] = rank[y] => x = y
      /\ \A x, y \in S : <<x, y>> \in R => rank[x] < rank[y]
  BY RanksArePlaces
<1>6. ASSUME NEW k \in 1 .. n PROVE at(k) \in S /\ rank[at(k)] = k - 1
  <2>1. \E x \in S : PlaceIn(S, R, x) = k - 1
    BY RanksArePlaces
  <2> QED
    BY <2>1
<1>7. Arranged(S, R) = [k \in 1 .. n |-> at(k)]
  BY DEF Arranged, PlaceIn
<1> HIDE DEF at
<1>8. Arranged(S, R) \in Seq(S) /\ DOMAIN Arranged(S, R) = 1 .. n
  <2>1. \A k \in 1 .. n : at(k) \in S
    BY <1>6
  <2> HIDE DEF n
  <2>2. [k \in 1 .. n |-> at(k)] \in Seq(S)
    BY <1>1, <2>1
  <2> QED
    BY <1>7, <2>2
<1>9. ASSUME NEW x \in S
      PROVE  \E k \in DOMAIN Arranged(S, R) : Arranged(S, R)[k] = x
  <2>1. rank[x] + 1 \in 1 .. n /\ rank[x] \in Int
    <3>1. rank[x] \in 0 .. n - 1
      BY <1>2
    <3> HIDE DEF n, rank
    <3> QED
      BY <1>1, <3>1
  <2> DEFINE k == rank[x] + 1
  <2> HIDE DEF k, rank
  <2>2. at(k) \in S /\ rank[at(k)] = k - 1
    BY <1>6, <2>1 DEF k
  <2>3. rank[at(k)] = rank[x]
    <3>1. k - 1 = rank[x]
      BY <2>1 DEF k
    <3> QED
      BY <2>2, <3>1
  <2>4. at(k) = x
    BY <1>4, <2>2, <2>3
  <2> QED
    BY <1>7, <1>8, <2>1, <2>4 DEF k
<1>10. ASSUME NEW i \in 1 .. n, NEW j \in 1 .. n,
              <<Arranged(S, R)[i], Arranged(S, R)[j]>> \in R
       PROVE  i < j
  <2> HIDE DEF n, rank
  <2>1. at(i) \in S /\ at(j) \in S /\ rank[at(i)] = i - 1 /\ rank[at(j)] = j - 1
    BY <1>6
  <2>2. <<at(i), at(j)>> \in R
    BY <1>7, <1>10
  <2>3. i - 1 < j - 1
    BY <1>4, <2>1, <2>2
  <2> QED
    BY <1>1, <2>3
<1> QED
  BY <1>1, <1>8, <1>9, <1>10

-----------------------------------------------------------------------------
(* The state of the sorter.                                                 *)

\* The orders of n operations: each is in the list, once.
Orders(n) ==
    {l \in [1 .. n -> 1 .. n] : /\ \A i, j \in 1 .. n : l[i] = l[j] => i = j
                                /\ \A k \in 1 .. n : \E j \in 1 .. n : l[j] = k}
Sorters(n) ==
    [list : Orders(n), after : [1 .. n -> 0 .. n],
     reorderings : Seq((1 .. n) \X (1 .. n)), changed : BOOLEAN]

LEMMA SorterInit == ASSUME NEW n \in Nat PROVE Sorter(n) \in Sorters(n)
<1>1. [k \in 1 .. n |-> k] \in Orders(n) /\ [k \in 1 .. n |-> 0] \in [1 .. n -> 0 .. n]
  BY DEF Orders
<1> QED
  BY <1>1 DEF Sorter, Sorters

\* Every operation has one place in the list.
LEMMA PlaceOf ==
  ASSUME NEW n \in Nat, NEW list \in Orders(n), NEW k \in 1 .. n
  PROVE  At(list, k) \in 1 .. n /\ \A j \in 1 .. n : list[j] = k <=> j = At(list, k)
<1>1. DOMAIN list = 1 .. n /\ \E j \in 1 .. n : list[j] = k
  BY DEF Orders
<1>2. At(list, k) \in 1 .. n /\ list[At(list, k)] = k
  BY <1>1 DEF At
<1> QED
  BY <1>2 DEF Orders

\* A pair is recorded the other way round.
LEMMA OneMore ==
  ASSUME NEW Q, NEW s \in Seq(Q), NEW x \in Q
  PROVE  Append(s, x) \in Seq(Q) /\ ToSet(Append(s, x)) \subseteq ToSet(s) \cup {x}
<1>1. /\ Append(s, x) \in Seq(Q) /\ Len(Append(s, x)) = Len(s) + 1 /\ Len(s) \in Nat
      /\ DOMAIN s = 1 .. Len(s) /\ DOMAIN Append(s, x) = 1 .. Len(s) + 1
      /\ \A k \in 1 .. Len(s) : Append(s, x)[k] = s[k]
      /\ Append(s, x)[Len(s) + 1] = x
  OBVIOUS
<1>2. ASSUME NEW k \in DOMAIN Append(s, x) PROVE Append(s, x)[k] \in ToSet(s) \cup {x}
  <2>1. k \in 1 .. Len(s) \/ k = Len(s) + 1
    BY <1>1
  <2> QED
    BY <1>1, <2>1 DEF ToSet
<1> QED
  BY <1>1, <1>2 DEF ToSet

\* moveFirstAfterSecond loses and doubles nothing; it reports when it changes the order.
LEMMA MoveKeeps ==
  ASSUME NEW n \in Nat, NEW w \in Sorters(n), NEW first \in 1 .. n, NEW second \in 1 .. n
  PROVE  LET v == MoveFirstAfterSecond(w, first, second)
         IN  /\ v \in Sorters(n)
             /\ v.after = [w.after EXCEPT ![first] = second]
             /\ ~v.changed => ~w.changed /\ v.list = w.list /\ At(w.list, first) >= At(w.list, second)
             /\ ToSet(v.reorderings) \subseteq ToSet(w.reorderings) \cup {<<second, first>>}
<1> DEFINE l == w.list
           from == At(l, first)
           to == At(l, second)
           list == [j \in DOMAIN l |-> IF j < from \/ j > to THEN l[j]
                                       ELSE IF j = to THEN first ELSE l[j + 1]]
           pair == <<second, first>>
           v == MoveFirstAfterSecond(w, first, second)
<1>1. /\ l \in Orders(n) /\ w.after \in [1 .. n -> 0 .. n] /\ w.changed \in BOOLEAN
      /\ w.reorderings \in Seq((1 .. n) \X (1 .. n))
  BY DEF Sorters
<1>2. /\ from \in 1 .. n /\ \A j \in 1 .. n : l[j] = first <=> j = from
      /\ to \in 1 .. n /\ \A j \in 1 .. n : l[j] = second <=> j = to
  <2>1. l \in Orders(n)
    BY <1>1
  <2> HIDE DEF l
  <2>2. from \in 1 .. n /\ \A j \in 1 .. n : l[j] = first <=> j = from
    BY <2>1, PlaceOf
  <2>3. to \in 1 .. n /\ \A j \in 1 .. n : l[j] = second <=> j = to
    BY <2>1, PlaceOf
  <2> QED
    BY <2>2, <2>3
<1>3. ASSUME from < to PROVE list \in Orders(n)
  <2>1. DOMAIN l = 1 .. n /\ \A j \in 1 .. n : l[j] \in 1 .. n
    BY <1>1 DEF Orders
  <2>2. \A i, j \in 1 .. n : l[i] = l[j] => i = j
    BY <1>1 DEF Orders
  <2> HIDE DEF from, to, l
  <2>3. list \in [1 .. n -> 1 .. n]
    BY <1>2, <1>3, <2>1
  <2>4. /\ \A j \in 1 .. n : j < from \/ j > to => list[j] = l[j]
        /\ \A j \in 1 .. n : j >= from /\ j < to => j + 1 \in 1 .. n /\ list[j] = l[j + 1]
        /\ list[to] = l[from]
    BY <1>2, <1>3, <2>1
  <2>5. ASSUME NEW i \in 1 .. n, NEW j \in 1 .. n, list[i] = list[j] PROVE i = j
    <3> HIDE DEF list
    <3> QED
      BY <1>2, <1>3, <2>2, <2>4, <2>5
  <2>6. ASSUME NEW k \in 1 .. n PROVE \E j \in 1 .. n : list[j] = k
    <3>1. PICK j \in 1 .. n : l[j] = k
      BY <1>1 DEF Orders, l
    <3>2. CASE j < from \/ j > to
      BY <2>4, <3>1, <3>2
    <3>3. CASE j = from
      BY <1>2, <2>4, <3>1, <3>3
    <3>4. CASE from < j /\ j <= to
      <4>1. j - 1 \in 1 .. n /\ list[j - 1] = l[j - 1 + 1]
        BY <1>2, <2>4, <3>4
      <4> QED
        BY <3>1, <4>1
    <3> QED
      BY <1>2, <3>2, <3>3, <3>4
  <2> QED
    BY <2>3, <2>5, <2>6 DEF Orders
<1>4. pair \in (1 .. n) \X (1 .. n)
  OBVIOUS
<1>5. /\ v.list = IF from >= to THEN l ELSE list
      /\ v.after = [w.after EXCEPT ![first] = second]
      /\ v.reorderings \in {w.reorderings, Append(w.reorderings, pair)}
      /\ v.changed = (w.changed \/ from < to)
      /\ v = [list |-> v.list, after |-> v.after, reorderings |-> v.reorderings,
              changed |-> v.changed]
  BY DEF MoveFirstAfterSecond
<1> HIDE DEF list, from, to, pair, v
<1>6. v.list \in Orders(n) /\ v.after \in [1 .. n -> 0 .. n] /\ v.changed \in BOOLEAN
  BY <1>1, <1>2, <1>3, <1>5
<1>7. /\ v.reorderings \in Seq((1 .. n) \X (1 .. n))
      /\ ToSet(v.reorderings) \subseteq ToSet(w.reorderings) \cup {pair}
  <2> DEFINE Q == (1 .. n) \X (1 .. n)
  <2>1. w.reorderings \in Seq(Q) /\ pair \in Q
    BY <1>1, <1>4
  <2> HIDE DEF Q
  <2>2. /\ Append(w.reorderings, pair) \in Seq(Q)
        /\ ToSet(Append(w.reorderings, pair)) \subseteq ToSet(w.reorderings) \cup {pair}
    BY <2>1, OneMore
  <2>3. v.reorderings \in Seq(Q) /\ ToSet(v.reorderings) \subseteq ToSet(w.reorderings) \cup {pair}
    BY <1>5, <2>1, <2>2
  <2> QED
    BY <2>3 DEF Q
<1>8. v \in Sorters(n)
  BY <1>5, <1>6, <1>7 DEF Sorters
<1>9. ~v.changed => ~w.changed /\ v.list = l /\ from >= to
  <2> SUFFICES ASSUME ~v.changed PROVE ~w.changed /\ v.list = l /\ from >= to
    OBVIOUS
  <2>1. ~w.changed /\ ~(from < to)
    BY <1>5
  <2>2. from >= to
    BY <1>2, <2>1
  <2> QED
    BY <1>5, <2>1, <2>2
<1> QED
  BY <1>5, <1>7, <1>8, <1>9 DEF from, to, v, pair

-----------------------------------------------------------------------------
(* A rule.                                                                  *)

\* A rule is a number of moves one after the other.
LEMMA RuleMoves ==
  ASSUME NEW n \in Nat, NEW w \in Sorters(n), NEW pairs \in Seq((1 .. n) \X (1 .. n))
  PROVE  \E g \in [0 .. Len(pairs) -> Sorters(n)] :
            /\ g[0] = w /\ Rule(w, pairs) = g[Len(pairs)]
            /\ \A k \in 1 .. Len(pairs) :
                  g[k] = MoveFirstAfterSecond(g[k - 1], pairs[k][1], pairs[k][2])
<1> DEFINE m == Len(pairs)
           move(k, v) == MoveFirstAfterSecond(v, pairs[k][1], pairs[k][2])
           step == [k \in 1 .. m |-> [v \in Sorters(n) |-> move(k, v)]]
           Is(f) == f = [k \in 0 .. m |-> IF k = 0 THEN w ELSE move(k, f[k - 1])]
           g == CHOOSE f : Is(f)
<1>1. m \in Nat /\ \A k \in 1 .. m : pairs[k][1] \in 1 .. n /\ pairs[k][2] \in 1 .. n
  <2>1. pairs \in [1 .. m -> (1 .. n) \X (1 .. n)] /\ m \in Nat
    BY LenProperties
  <2> QED
    BY <2>1
<1>2. \A k \in 1 .. m : \A v \in Sorters(n) : move(k, v) \in Sorters(n)
  BY <1>1, MoveKeeps
<1>3. Rule(w, pairs) = g[m]
  BY DEF Rule
<1> HIDE DEF m, move
<1>4. step \in [1 .. m -> [Sorters(n) -> Sorters(n)]]
  BY <1>2
<1>5. PICK f \in [0 .. m -> Sorters(n)] :
            f[0] = w /\ \A k \in 1 .. m : f[k] = step[k][f[k - 1]]
  <2> DEFINE S == Sorters(n)
  <2>1. m \in Nat /\ w \in S /\ step \in Steps(m, S)
    BY <1>1, <1>4 DEF Steps
  <2> HIDE DEF step, S
  <2>2. \E f : Follows(f, m, S, w, step)
    BY <2>1, RecursionUpTo
  <2> QED
    BY <2>2 DEF S, Follows
<1>6. Is(f)
  <2>1. ASSUME NEW k \in 1 .. m PROVE f[k] = move(k, f[k - 1])
    <3>1. k - 1 \in 0 .. m
      BY <1>1
    <3>2. f[k - 1] \in Sorters(n)
      BY <1>5, <3>1
    <3> QED
      BY <1>5, <3>2
  <2>2. \A k \in 0 .. m : f[k] = IF k = 0 THEN w ELSE move(k, f[k - 1])
    BY <1>1, <1>5, <2>1
  <2> QED
    BY <1>5, <2>2
<1>7. Is(g)
  <2> HIDE DEF Is
  <2> QED
    BY <1>6
<1> HIDE DEF g
<1>8. g[0] = w /\ \A k \in 1 .. m : g[k] = move(k, g[k - 1])
  BY <1>1, <1>7
<1>9. \A k \in 0 .. m : g[k] \in Sorters(n)
  <2> DEFINE T == {k \in 0 .. m : g[k] \in Sorters(n)}
  <2>1. 0 \in T /\ \A k \in 1 .. m : k - 1 \in T => k \in T
    BY <1>1, <1>2, <1>8
  <2> HIDE DEF T
  <2>2. 0 .. m \subseteq T
    BY <1>1, <2>1, InductionUpTo
  <2> QED
    BY <2>2 DEF T
<1>10. g \in [0 .. m -> Sorters(n)]
  BY <1>7, <1>9
<1> QED
  BY <1>3, <1>8, <1>10 DEF m, move

\* What the moves of pairs have done: they lost and doubled nothing. If they report no
\* change they found all pairs in order; what waits for something new waits for what it
\* was paired with.
Moves(v, w, pairs, n) ==
    /\ v \in Sorters(n)
    /\ ~v.changed => /\ ~w.changed /\ v.list = w.list
                     /\ \A k \in 1 .. Len(pairs) :
                            At(w.list, pairs[k][1]) >= At(w.list, pairs[k][2])
    /\ \A j \in 1 .. n : \/ v.after[j] = w.after[j]
                         \/ \E k \in 1 .. Len(pairs) : pairs[k] = <<j, v.after[j]>>
    /\ \A r \in ToSet(v.reorderings) : \/ r \in ToSet(w.reorderings)
                                     \/ \E k \in 1 .. Len(pairs) : pairs[k] = <<r[2], r[1]>>

LEMMA RuleKeeps ==
  ASSUME NEW n \in Nat, NEW w \in Sorters(n), NEW pairs \in Seq((1 .. n) \X (1 .. n))
  PROVE  Moves(Rule(w, pairs), w, pairs, n)
<1> DEFINE m == Len(pairs)
<1>1. PICK g \in [0 .. m -> Sorters(n)] :
            /\ g[0] = w /\ Rule(w, pairs) = g[m]
            /\ \A k \in 1 .. m : g[k] = MoveFirstAfterSecond(g[k - 1], pairs[k][1], pairs[k][2])
  BY RuleMoves
<1>2. m \in Nat /\ \A k \in 1 .. m : /\ pairs[k][1] \in 1 .. n /\ pairs[k][2] \in 1 .. n
                                     /\ pairs[k] = <<pairs[k][1], pairs[k][2]>>
  <2>1. pairs \in [1 .. m -> (1 .. n) \X (1 .. n)] /\ m \in Nat
    BY LenProperties
  <2> QED
    BY <2>1
<1> HIDE DEF m
<1> DEFINE found(i) == At(w.list, pairs[i][1]) >= At(w.list, pairs[i][2])
           quiet(v, k) == ~v.changed => /\ ~w.changed /\ v.list = w.list
                                        /\ \A i \in 1 .. k : found(i)
           linked(v, k) == \A j \in 1 .. n : \/ v.after[j] = w.after[j]
                                             \/ \E i \in 1 .. k : pairs[i] = <<j, v.after[j]>>
           noted(v, k) == \A r \in ToSet(v.reorderings) : \/ r \in ToSet(w.reorderings)
                                                         \/ \E i \in 1 .. k : pairs[i] = <<r[2], r[1]>>
           T == {k \in 0 .. m : quiet(g[k], k) /\ linked(g[k], k) /\ noted(g[k], k)}
<1>3. 0 \in T
  BY <1>1, <1>2
<1>4. ASSUME NEW k \in 1 .. m, k - 1 \in T PROVE k \in T
  <2> DEFINE u == g[k - 1]
             v == g[k]
  <2>1. /\ u \in Sorters(n) /\ v.after = [u.after EXCEPT ![pairs[k][1]] = pairs[k][2]]
        /\ ~v.changed => ~u.changed /\ v.list = u.list
                         /\ At(u.list, pairs[k][1]) >= At(u.list, pairs[k][2])
        /\ ToSet(v.reorderings) \subseteq ToSet(u.reorderings) \cup {<<pairs[k][2], pairs[k][1]>>}
    <3>1. k - 1 \in 0 .. m
      BY <1>2
    <3>2. u \in Sorters(n) /\ v = MoveFirstAfterSecond(u, pairs[k][1], pairs[k][2])
      BY <1>1, <3>1
    <3>3. pairs[k][1] \in 1 .. n /\ pairs[k][2] \in 1 .. n
      BY <1>2
    <3> HIDE DEF u, v
    <3> QED
      BY <3>2, <3>3, MoveKeeps
  <2>2. u.after \in [1 .. n -> 0 .. n]
    BY <2>1 DEF Sorters
  <2>3. quiet(u, k - 1) /\ linked(u, k - 1) /\ noted(u, k - 1) /\ k \in 0 .. m
    <3> HIDE DEF quiet, linked, noted
    <3> QED
      BY <1>2, <1>4
  <2> HIDE DEF u, v
  <2>4. quiet(v, k)
    <3> SUFFICES ASSUME ~v.changed
                 PROVE  ~w.changed /\ v.list = w.list /\ \A i \in 1 .. k : found(i)
      OBVIOUS
    <3>1. ~w.changed /\ v.list = w.list /\ (\A i \in 1 .. k - 1 : found(i)) /\ found(k)
      BY <2>1, <2>3
    <3> HIDE DEF found
    <3> QED
      BY <1>2, <3>1
  <2>5. linked(v, k)
    <3> SUFFICES ASSUME NEW j \in 1 .. n, v.after[j] # w.after[j]
                 PROVE  \E i \in 1 .. k : pairs[i] = <<j, v.after[j]>>
      OBVIOUS
    <3>1. CASE j = pairs[k][1]
      <4>1. v.after[j] = pairs[k][2]
        BY <2>1, <2>2, <3>1
      <4>2. k \in 1 .. k /\ pairs[k] = <<j, v.after[j]>>
        BY <1>2, <3>1, <4>1
      <4> QED
        BY <4>2
    <3>2. CASE j # pairs[k][1]
      <4>1. v.after[j] = u.after[j]
        BY <2>1, <2>2, <3>2
      <4>2. PICK i \in 1 .. k - 1 : pairs[i] = <<j, v.after[j]>>
        BY <2>3, <4>1
      <4> QED
        BY <1>2, <4>2
    <3> QED
      BY <3>1, <3>2
  <2>6. noted(v, k)
    <3> SUFFICES ASSUME NEW r \in ToSet(v.reorderings), r \notin ToSet(w.reorderings)
                 PROVE  \E i \in 1 .. k : pairs[i] = <<r[2], r[1]>>
      OBVIOUS
    <3>1. CASE r = <<pairs[k][2], pairs[k][1]>>
      BY <1>2, <3>1
    <3>2. CASE r \in ToSet(u.reorderings)
      <4>1. PICK i \in 1 .. k - 1 : pairs[i] = <<r[2], r[1]>>
        BY <2>3, <3>2
      <4> QED
        BY <1>2, <4>1
    <3> QED
      BY <2>1, <3>1, <3>2
  <2> HIDE DEF quiet, linked, noted
  <2> QED
    BY <2>3, <2>4, <2>5, <2>6 DEF v
<1>5. m \in T
  <2> HIDE DEF T
  <2>1. 0 .. m \subseteq T
    BY <1>2, <1>3, <1>4, InductionUpTo
  <2> QED
    BY <1>2, <2>1
<1>6. quiet(g[m], m) /\ linked(g[m], m) /\ noted(g[m], m) /\ g[m] \in Sorters(n)
  BY <1>1, <1>2, <1>5
<1> QED
  BY <1>1, <1>6 DEF m, Moves

\* The order of the containers is one.
LEMMA BeforeIsOrder ==
  /\ \A a \in Int : ~Before(a, a)
  /\ \A a, b \in Int : a = b \/ Before(a, b) \/ Before(b, a)
  /\ \A a, b, c \in Int : Before(a, b) /\ Before(b, c) => Before(a, c)
<1>1. CASE downward
  BY <1>1 DEF Before
<1>2. CASE ~downward
  BY <1>2 DEF Before
<1> QED
  BY <1>1, <1>2

\* The sequence q has the members of P.
Lists(q, P) == q \in Seq(P) /\ \A p \in P : \E k \in DOMAIN q : q[k] = p

\* A rule meets all its pairs.
LEMMA AllAreMet ==
  ASSUME NEW n \in Nat, NEW P \in SUBSET ((1 .. n) \X (1 .. n))
  PROVE  Lists(ByFirst(P), P) /\ Lists(BySecond(P), P) /\ IsFiniteSet(P)
<1>1. IsFiniteSet(P)
  <2>1. IsFiniteSet(1 .. n)
    BY FS_Interval
  <2>2. IsFiniteSet((1 .. n) \X (1 .. n))
    BY <2>1, FS_Product
  <2> QED
    BY <2>2, FS_Subset
<1>2. \A p \in P : p[1] \in Int /\ p[2] \in Int /\ p = <<p[1], p[2]>>
  OBVIOUS
<1> DEFINE R == {r \in P \X P : \/ Before(r[1][1], r[2][1])
                                \/ r[1][1] = r[2][1] /\ Before(r[1][2], r[2][2])}
           Q == {r \in P \X P : \/ Before(r[1][2], r[2][2])
                                \/ r[1][2] = r[2][2] /\ Before(r[1][1], r[2][1])}
<1>3. \A p, q \in P : /\ <<p, q>> \in R <=> \/ Before(p[1], q[1])
                                            \/ p[1] = q[1] /\ Before(p[2], q[2])
                      /\ <<p, q>> \in Q <=> \/ Before(p[2], q[2])
                                            \/ p[2] = q[2] /\ Before(p[1], q[1])
  OBVIOUS
<1>4. Arranged(P, R) = ByFirst(P) /\ Arranged(P, Q) = BySecond(P)
  BY DEF ByFirst, BySecond
<1> HIDE DEF R, Q
<1>5. IsOrderOf(P, R)
  BY <1>2, <1>3, BeforeIsOrder DEF IsOrderOf
<1>6. IsOrderOf(P, Q)
  BY <1>2, <1>3, BeforeIsOrder DEF IsOrderOf
<1> QED
  BY <1>1, <1>4, <1>5, <1>6, ArrangedHasAll DEF Lists

\* What a rule has done with a set of pairs: it lost and doubled nothing; if it reports no
\* change it found them in order; what waits for something new is paired with it.
Fixes(v, w, P, n) ==
    /\ v \in Sorters(n)
    /\ ~v.changed => /\ ~w.changed /\ v.list = w.list
                     /\ \A p \in P : At(w.list, p[1]) >= At(w.list, p[2])
    /\ \A j \in 1 .. n : v.after[j] = w.after[j] \/ <<j, v.after[j]>> \in P
    /\ \A r \in ToSet(v.reorderings) : r \in ToSet(w.reorderings) \/ <<r[2], r[1]>> \in P

LEMMA RuleFixes ==
  ASSUME NEW n \in Nat, NEW w \in Sorters(n), NEW P \in SUBSET ((1 .. n) \X (1 .. n)),
         NEW q, Lists(q, P)
  PROVE  Fixes(Rule(w, q), w, P, n)
<1>1. /\ q \in Seq((1 .. n) \X (1 .. n)) /\ DOMAIN q = 1 .. Len(q)
      /\ \A k \in 1 .. Len(q) : q[k] \in P
      /\ \A p \in P : \E k \in 1 .. Len(q) : q[k] = p
  <2>1. q \in Seq(P) /\ q \in [1 .. Len(q) -> P] /\ Len(q) \in Nat
    BY LenProperties DEF Lists
  <2> QED
    BY <2>1 DEF Lists
<1> DEFINE v == Rule(w, q)
<1>2. Moves(v, w, q, n)
  BY <1>1, RuleKeeps
<1> HIDE DEF v
<1>3. Fixes(v, w, P, n)
  <2>1. ASSUME ~v.changed, NEW p \in P PROVE At(w.list, p[1]) >= At(w.list, p[2])
    <3>1. PICK k \in 1 .. Len(q) : q[k] = p
      BY <1>1
    <3> QED
      BY <1>2, <2>1, <3>1 DEF Moves
  <2>2. ASSUME NEW j \in 1 .. n, v.after[j] # w.after[j] PROVE <<j, v.after[j]>> \in P
    BY <1>1, <1>2, <2>2 DEF Moves
  <2>3. ASSUME NEW r \in ToSet(v.reorderings), r \notin ToSet(w.reorderings) PROVE <<r[2], r[1]>> \in P
    BY <1>1, <1>2, <2>3 DEF Moves
  <2> QED
    BY <1>2, <2>1, <2>2, <2>3 DEF Fixes, Moves
<1> QED
  BY <1>3 DEF v

-----------------------------------------------------------------------------
(* The rule about creates.                                                  *)

\* The maker of an operation's folder is one of the operations, a create, or 0.
LEMMA MakerType ==
  ASSUME NEW given, Len(given) \in Nat, NEW k
  PROVE  /\ Maker(given, k) \in 0 .. Len(given)
         /\ Maker(given, k) # 0 => Maker(given, k) \in OfType(given, "create")
<1> DEFINE makers == {c \in OfType(given, "create") : given[c].node = Parent(given[k].node)}
<1>1. makers \subseteq OfType(given, "create") /\ OfType(given, "create") \subseteq 1 .. Len(given)
  BY DEF OfType
<1>2. Maker(given, k) = IF makers = {} THEN 0 ELSE Min(makers)
  BY DEF Maker
<1> HIDE DEF makers
<1>3. ASSUME makers # {} PROVE Min(makers) \in makers
  <2>1. makers \in SUBSET Nat
    BY <1>1
  <2>2. \E m \in makers : \A c \in makers : m <= c
    BY <1>3, <2>1, Least
  <2> QED
    BY <2>2 DEF Min
<1> QED
  BY <1>1, <1>2, <1>3

\* The makers above an operation.
LEMMA MakersAbove ==
  ASSUME NEW given, Len(given) \in Nat, NEW k \in 1 .. Len(given)
  PROVE  /\ Makers(given, k) \in [0 .. Len(given) -> 0 .. Len(given)]
         /\ Makers(given, k)[0] = k
         /\ \A d \in 1 .. Len(given) :
                Makers(given, k)[d] = IF Makers(given, k)[d - 1] = 0 THEN 0
                                    ELSE Maker(given, Makers(given, k)[d - 1])
<1> DEFINE n == Len(given)
           above(c) == IF c = 0 THEN 0 ELSE Maker(given, c)
           step == [d \in 1 .. n |-> [c \in 0 .. n |-> above(c)]]
           Is(f) == f = [d \in 0 .. n |-> IF d = 0 THEN k ELSE IF f[d - 1] = 0 THEN 0
                                                            ELSE Maker(given, f[d - 1])]
           g == CHOOSE f : Is(f)
<1>1. Makers(given, k) = g
  BY DEF Makers
<1>2. \A c \in 0 .. n : above(c) \in 0 .. n
  BY MakerType
<1>3. \A f : Is(f) <=> f = [d \in 0 .. n |-> IF d = 0 THEN k ELSE above(f[d - 1])]
  OBVIOUS
<1> HIDE DEF n, above, Is, g
<1>4. n \in Nat /\ k \in 0 .. n /\ step \in Steps(n, 0 .. n)
  BY <1>2 DEF n, Steps
<1>5. PICK f : Follows(f, n, 0 .. n, k, step)
  <2> HIDE DEF step
  <2> QED
    BY <1>4, RecursionUpTo
<1>6. Is(f)
  <2>1. ASSUME NEW d \in 1 .. n PROVE f[d] = above(f[d - 1])
    <3>1. d - 1 \in 0 .. n
      BY <1>4
    <3>2. f[d - 1] \in 0 .. n
      BY <1>5, <3>1 DEF Follows
    <3> QED
      BY <1>5, <3>2 DEF Follows
  <2>2. \A d \in 0 .. n : f[d] = IF d = 0 THEN k ELSE above(f[d - 1])
    BY <1>4, <1>5, <2>1 DEF Follows
  <2>3. f = [d \in 0 .. n |-> IF d = 0 THEN k ELSE above(f[d - 1])]
    BY <1>5, <2>2 DEF Follows
  <2> QED
    BY <1>3, <2>3
<1>7. Is(g)
  BY <1>6 DEF g
<1>8. g = [d \in 0 .. n |-> IF d = 0 THEN k ELSE above(g[d - 1])]
  BY <1>3, <1>7
<1>9. g[0] = k /\ \A d \in 1 .. n : g[d] = above(g[d - 1])
  BY <1>4, <1>8
<1>10. \A d \in 0 .. n : g[d] \in 0 .. n
  <2> DEFINE T == {d \in 0 .. n : g[d] \in 0 .. n}
  <2>0. 0 \in T
    BY <1>4, <1>9
  <2>1. ASSUME NEW d \in 1 .. n, d - 1 \in T PROVE d \in T
    <3>1. g[d - 1] \in 0 .. n
      BY <2>1
    <3>2. g[d] \in 0 .. n
      BY <1>2, <1>9, <3>1
    <3> QED
      BY <3>2
  <2> HIDE DEF T
  <2>2. 0 .. n \subseteq T
    BY <1>4, <2>0, <2>1, InductionUpTo
  <2> QED
    BY <2>2 DEF T
<1>11. g \in [0 .. n -> 0 .. n]
  BY <1>8, <1>10
<1> QED
  BY <1>1, <1>9, <1>11 DEF n, above

\* Max of a set of naturals within a bound.
LEMMA MaxOf ==
  ASSUME NEW n \in Nat, NEW T \in SUBSET (0 .. n), T # {}
  PROVE  Max(T) \in T /\ \A k \in T : k <= Max(T)
<1>1. \E m \in T : \A k \in T : k <= m
  BY Greatest
<1>2. \E m \in T : \A k \in T : m >= k
  BY <1>1
<1> QED
  BY <1>2 DEF Max

\* The maker an operation is put after is a create among the operations, or 0.
LEMMA AncestorType ==
  ASSUME NEW given, Len(given) \in Nat, NEW k \in 1 .. Len(given), NEW list
  PROVE  Ancestor(list, given, k) \in 0 .. Len(given)
<1> DEFINE n == Len(given)
           up == Makers(given, k)
           late == {d \in 1 .. n : up[d] # 0 /\ HigherIndex(list, given, up[d], up[d - 1])}
<1>1. Ancestor(list, given, k) = IF late = {} THEN 0 ELSE up[Max(late)]
  BY DEF Ancestor
<1>2. up \in [0 .. n -> 0 .. n]
  BY MakersAbove
<1>3. late \in SUBSET (0 .. n)
  OBVIOUS
<1>4. n \in Nat
  OBVIOUS
<1> HIDE DEF n, up, late
<1>5. late # {} => Max(late) \in 0 .. n
  BY <1>3, <1>4, MaxOf
<1> QED
  BY <1>1, <1>2, <1>4, <1>5 DEF n
\* The pairs of this rule, each operation in one of them at most, and the order in
\* which they are met.
LEMMA CreatesAreMet ==
  ASSUME NEW given, Len(given) \in Nat, NEW w \in Sorters(Len(given))
  PROVE  Fixes(FixCreateBeforeCreate(w, given), w, CreateBeforeCreate(w.list, given), Len(given))
<1> DEFINE n == Len(given)
           P == CreateBeforeCreate(w.list, given)
           depth == [k \in 1 .. n |-> Depth(given, k)]
           before(a, b) == depth[a] > depth[b] \/ (depth[a] = depth[b] /\ a < b)
           R == {r \in P \X P : before(r[1][1], r[2][1])}
           anc == [k \in 1 .. n |-> Ancestor(w.list, given, k)]
<1>1. n \in Nat
  OBVIOUS
<1>2. anc \in [1 .. n -> 0 .. n]
  BY AncestorType
<1>3. P = {<<k, anc[k]>> : k \in {k \in 1 .. n : anc[k] # 0}}
  BY DEF CreateBeforeCreate
<1>4. depth \in [1 .. n -> Nat]
  <2>1. ASSUME NEW k \in 1 .. n PROVE Depth(given, k) \in Nat
    <3> DEFINE D == {d \in 1 .. n : Makers(given, k)[d] # 0}
    <3>1. IsFiniteSet(1 .. n) /\ D \subseteq 1 .. n
      BY FS_Interval
    <3>2. Cardinality(D) \in Nat
      BY <3>1, FS_Subset, FS_CardinalityType
    <3> QED
      BY <3>2 DEF Depth
  <2> QED
    BY <2>1
<1>5. FixCreateBeforeCreate(w, given) = Rule(w, Arranged(P, R))
  BY DEF FixCreateBeforeCreate
<1> HIDE DEF n, P, depth, anc
<1>6. P \in SUBSET ((1 .. n) \X (1 .. n))
  BY <1>2, <1>3
<1>7. \A p, q \in P : p[1] = q[1] => p = q
  BY <1>3
<1>8. \A p, q \in P : <<p, q>> \in R <=> before(p[1], q[1])
  OBVIOUS
<1>9. \A p \in P : p[1] \in Int /\ depth[p[1]] \in Int
  BY <1>4, <1>6
<1> HIDE DEF R
<1>10. IsOrderOf(P, R)
  BY <1>7, <1>8, <1>9 DEF IsOrderOf
<1>11. IsFiniteSet(P)
  BY <1>1, <1>6, AllAreMet
<1>12. Lists(Arranged(P, R), P)
  BY <1>10, <1>11, ArrangedHasAll DEF Lists
<1>13. Fixes(Rule(w, Arranged(P, R)), w, P, n)
  BY <1>1, <1>6, <1>12, RuleFixes DEF n
<1> QED
  BY <1>5, <1>13 DEF n, P

-----------------------------------------------------------------------------
(* The rules, one after the other.                                          *)

\* The pairs of the rules: the first must come after the second. Those of one rule
\* depend on the list.
Rules(list, given) ==
    DeleteBeforeMove(given) \cup MoveBeforeCreate(given) \cup MoveBeforeDelete(given)
        \cup CreateBeforeMove(given) \cup DeleteBeforeCreate(given)
        \cup MoveBeforeMoveOccupied(given) \cup CreateBeforeCreate(list, given)
        \cup MoveBeforeEdit(given) \cup HierarchyFlip(given)

LEMMA PairsType ==
  ASSUME NEW given, Len(given) \in Nat, NEW first, NEW second
  PROVE  Pairs(given, first, second) \in SUBSET ((1 .. Len(given)) \X (1 .. Len(given)))
<1>1. OfType(given, first) \subseteq 1 .. Len(given) /\ OfType(given, second) \subseteq 1 .. Len(given)
  BY DEF OfType
<1> QED
  BY <1>1 DEF Pairs

\* The pairs of a rule are of two types.
LEMMA RulePairs ==
  ASSUME NEW given
  PROVE  /\ DeleteBeforeMove(given) \in SUBSET Pairs(given, "move", "delete")
         /\ MoveBeforeCreate(given) \in SUBSET Pairs(given, "create", "move")
         /\ MoveBeforeDelete(given) \in SUBSET Pairs(given, "delete", "move")
         /\ CreateBeforeMove(given) \in SUBSET Pairs(given, "move", "create")
         /\ DeleteBeforeCreate(given) \in SUBSET Pairs(given, "create", "delete")
         /\ MoveBeforeMoveOccupied(given) \in SUBSET Pairs(given, "move", "move")
         /\ MoveBeforeEdit(given) \in SUBSET Pairs(given, "edit", "move")
         /\ HierarchyFlip(given) \in SUBSET Pairs(given, "move", "move")
BY DEF DeleteBeforeMove, MoveBeforeCreate, MoveBeforeDelete, CreateBeforeMove,
       DeleteBeforeCreate, MoveBeforeMoveOccupied, MoveBeforeEdit, HierarchyFlip

\* A rule that meets some pairs of two types, in one order or the other.
LEMMA PairsAreMet ==
  ASSUME NEW given, Len(given) \in Nat, NEW w \in Sorters(Len(given)), NEW first, NEW second,
         NEW P, P \in SUBSET Pairs(given, first, second)
  PROVE  /\ Fixes(Rule(w, ByFirst(P)), w, P, Len(given))
         /\ Fixes(Rule(w, BySecond(P)), w, P, Len(given))
<1>1. P \in SUBSET ((1 .. Len(given)) \X (1 .. Len(given)))
  BY PairsType
<1>2. Lists(ByFirst(P), P) /\ Lists(BySecond(P), P)
  BY <1>1, AllAreMet
<1> QED
  BY <1>1, <1>2, RuleFixes

\* What two rules have done one after the other.
LEMMA FixesAdd ==
  ASSUME NEW n, NEW u, NEW v, NEW w, NEW P, NEW Q, Fixes(v, w, P, n), Fixes(u, v, Q, n)
  PROVE  Fixes(u, w, P \cup Q, n)
BY DEF Fixes

\* What the rules have done, for the list that the rule about creates has found.
LEMMA PassFixes ==
  ASSUME NEW given, Len(given) \in Nat, NEW w \in Sorters(Len(given))
  PROVE  \E list \in Orders(Len(given)) :
            /\ Fixes(Pass(w, given), [w EXCEPT !.changed = FALSE], Rules(list, given), Len(given))
            /\ ~Pass(w, given).changed => list = w.list
<1> DEFINE n == Len(given)
           w0 == [w EXCEPT !.changed = FALSE]
           w1 == FixDeleteBeforeMove(w0, given)
           w2 == FixMoveBeforeCreate(w1, given)
           w3 == FixMoveBeforeDelete(w2, given)
           w4 == FixCreateBeforeMove(w3, given)
           w5 == FixDeleteBeforeCreate(w4, given)
           w6 == FixMoveBeforeMoveOccupied(w5, given)
           w7 == FixCreateBeforeCreate(w6, given)
           w8 == FixEditBeforeMove(w7, given)
           w9 == FixMoveBeforeMoveHierarchyFlip(w8, given)
           P6 == DeleteBeforeMove(given) \cup MoveBeforeCreate(given) \cup MoveBeforeDelete(given)
                    \cup CreateBeforeMove(given) \cup DeleteBeforeCreate(given)
                    \cup MoveBeforeMoveOccupied(given)
           list == w6.list
<1>0. Pass(w, given) = w9
  BY DEF Pass
<1>1. w0 \in Sorters(n) /\ w0.list = w.list
  BY DEF Sorters
<1> HIDE DEF w0
<1>2. Fixes(w1, w0, DeleteBeforeMove(given), n)
  BY <1>1, RulePairs, PairsAreMet DEF FixDeleteBeforeMove
<1> HIDE DEF w1
<1>3. Fixes(w2, w1, MoveBeforeCreate(given), n)
  <2>1. w1 \in Sorters(n)
    BY <1>2 DEF Fixes
  <2> QED
    BY <2>1, RulePairs, PairsAreMet DEF FixMoveBeforeCreate
<1> HIDE DEF w2
<1>4. Fixes(w3, w2, MoveBeforeDelete(given), n)
  <2>1. w2 \in Sorters(n)
    BY <1>3 DEF Fixes
  <2> QED
    BY <2>1, RulePairs, PairsAreMet DEF FixMoveBeforeDelete
<1> HIDE DEF w3
<1>5. Fixes(w4, w3, CreateBeforeMove(given), n)
  <2>1. w3 \in Sorters(n)
    BY <1>4 DEF Fixes
  <2> QED
    BY <2>1, RulePairs, PairsAreMet DEF FixCreateBeforeMove
<1> HIDE DEF w4
<1>6. Fixes(w5, w4, DeleteBeforeCreate(given), n)
  <2>1. w4 \in Sorters(n)
    BY <1>5 DEF Fixes
  <2> QED
    BY <2>1, RulePairs, PairsAreMet DEF FixDeleteBeforeCreate
<1> HIDE DEF w5
<1>7. Fixes(w6, w5, MoveBeforeMoveOccupied(given), n)
  <2>1. w5 \in Sorters(n)
    BY <1>6 DEF Fixes
  <2> QED
    BY <2>1, RulePairs, PairsAreMet DEF FixMoveBeforeMoveOccupied
<1> HIDE DEF w6
<1>8. Fixes(w7, w6, CreateBeforeCreate(list, given), n)
  <2>1. w6 \in Sorters(n)
    BY <1>7 DEF Fixes
  <2> QED
    BY <2>1, CreatesAreMet
<1> HIDE DEF w7
<1>9. Fixes(w8, w7, MoveBeforeEdit(given), n)
  <2>1. w7 \in Sorters(n)
    BY <1>8 DEF Fixes
  <2> QED
    BY <2>1, RulePairs, PairsAreMet DEF FixEditBeforeMove
<1> HIDE DEF w8
<1>10. Fixes(w9, w8, HierarchyFlip(given), n)
  <2>1. w8 \in Sorters(n)
    BY <1>9 DEF Fixes
  <2> QED
    BY <2>1, RulePairs, PairsAreMet DEF FixMoveBeforeMoveHierarchyFlip
<1> HIDE DEF w9
<1>11. Fixes(w6, w0, P6, n)
  BY <1>2, <1>3, <1>4, <1>5, <1>6, <1>7, FixesAdd
<1>12. Fixes(w9, w0, Rules(list, given), n)
  <2>1. Rules(list, given) = ((P6 \cup CreateBeforeCreate(list, given)) \cup MoveBeforeEdit(given))
                               \cup HierarchyFlip(given)
    BY DEF Rules
  <2> HIDE DEF P6
  <2>2. Fixes(w7, w0, P6 \cup CreateBeforeCreate(list, given), n)
    BY <1>8, <1>11, FixesAdd
  <2>3. Fixes(w8, w0, (P6 \cup CreateBeforeCreate(list, given)) \cup MoveBeforeEdit(given), n)
    BY <1>9, <2>2, FixesAdd
  <2>4. Fixes(w9, w0, ((P6 \cup CreateBeforeCreate(list, given)) \cup MoveBeforeEdit(given))
                          \cup HierarchyFlip(given), n)
    BY <1>10, <2>3, FixesAdd
  <2> QED
    BY <2>1, <2>4
<1>13. list \in Orders(n)
  BY <1>11 DEF Fixes, Sorters
<1>14. ~w9.changed => list = w.list
  BY <1>1, <1>8, <1>9, <1>10, <1>11 DEF Fixes
<1> QED
  BY <1>0, <1>12, <1>13, <1>14 DEF n, w0
-----------------------------------------------------------------------------
(* The sorted operations.                                                   *)

\* The second operation of a pair stands before the first. Two operations have two
\* places, so that only an operation paired with itself would be at the same one.
Respects(list, P) == \A p \in P : At(list, p[1]) >= At(list, p[2])

\* What holds after each pass.
SorterInv(w, given) ==
    /\ w \in Sorters(Len(given))
    /\ ~w.changed => Respects(w.list, Rules(w.list, given))
    /\ \A j \in 1 .. Len(given) :
          w.after[j] = 0 \/ \E list \in Orders(Len(given)) : <<j, w.after[j]>> \in Rules(list, given)
    /\ \A r \in ToSet(w.reorderings) : \E list \in Orders(Len(given)) : <<r[2], r[1]>> \in Rules(list, given)

LEMMA PassKeeps ==
  ASSUME NEW given, Len(given) \in Nat, NEW w, SorterInv(w, given)
  PROVE  SorterInv(Pass(w, given), given)
<1> DEFINE n == Len(given)
           v == Pass(w, given)
           w0 == [w EXCEPT !.changed = FALSE]
<1>1. w \in Sorters(n)
  BY DEF SorterInv
<1>2. w0.list = w.list /\ w0.after = w.after /\ w0.reorderings = w.reorderings
  BY <1>1 DEF Sorters
<1> HIDE DEF w0
<1>3. PICK list \in Orders(n) : Fixes(v, w0, Rules(list, given), n) /\ (~v.changed => list = w.list)
  BY <1>1, PassFixes DEF w0
<1> HIDE DEF v
<1>4. v \in Sorters(n)
  BY <1>3 DEF Fixes
<1>5. ~v.changed => Respects(v.list, Rules(v.list, given))
  BY <1>2, <1>3 DEF Fixes, Respects
<1>6. ASSUME NEW j \in 1 .. n, v.after[j] # 0
      PROVE  \E l \in Orders(n) : <<j, v.after[j]>> \in Rules(l, given)
  <2>1. CASE v.after[j] = w.after[j]
    BY <1>6, <2>1 DEF SorterInv
  <2>2. CASE v.after[j] # w.after[j]
    BY <1>2, <1>3, <2>2 DEF Fixes
  <2> QED
    BY <2>1, <2>2
<1>7. ASSUME NEW r \in ToSet(v.reorderings)
      PROVE  \E l \in Orders(n) : <<r[2], r[1]>> \in Rules(l, given)
  <2>1. CASE r \in ToSet(w.reorderings)
    BY <2>1 DEF SorterInv
  <2>2. CASE r \notin ToSet(w.reorderings)
    BY <1>2, <1>3, <2>2 DEF Fixes
  <2> QED
    BY <2>1, <2>2
<1> QED
  BY <1>4, <1>5, <1>6, <1>7 DEF SorterInv, v

LEMMA SortedKeeps ==
  ASSUME NEW given, Len(given) \in Nat
  PROVE  SorterInv(Sorted(given), given)
<1> DEFINE n == Len(given)
           bound == n * n + 2
           first == [Sorter(n) EXCEPT !.changed = TRUE]
           pass(w) == IF ~w.changed \/ CompleteCycle(w) # <<>> THEN w ELSE Pass(w, given)
           S == {w \in Sorters(n) : SorterInv(w, given)}
           step == [k \in 1 .. bound |-> [w \in S |-> pass(w)]]
           Is(f) == f = [k \in 0 .. bound |-> IF k = 0 THEN first ELSE
                            LET w == f[k - 1]
                            IN  IF ~w.changed \/ CompleteCycle(w) # <<>> THEN w ELSE Pass(w, given)]
           g == CHOOSE f : Is(f)
<1>1. Sorted(given) = g[bound]
  BY DEF Sorted
<1>2. \A f : Is(f) <=> f = [k \in 0 .. bound |-> IF k = 0 THEN first ELSE pass(f[k - 1])]
  OBVIOUS
<1>3. \A w \in S : pass(w) \in S
  <2>1. ASSUME NEW w \in S PROVE SorterInv(Pass(w, given), given)
    BY PassKeeps
  <2> QED
    BY <2>1 DEF SorterInv
<1>4. first \in S
  <2>1. Sorter(n) \in Sorters(n)
    BY SorterInit
  <2>2. first \in Sorters(n) /\ first.changed = TRUE /\ first.after = [k \in 1 .. n |-> 0]
        /\ first.reorderings = <<>>
    BY <2>1 DEF Sorters, Sorter
  <2> HIDE DEF first
  <2>3. ToSet(first.reorderings) = {}
    BY <2>2 DEF ToSet
  <2>4. SorterInv(first, given)
    BY <2>2, <2>3 DEF SorterInv
  <2> QED
    BY <2>2, <2>4
<1>5. bound \in Nat
  OBVIOUS
<1> HIDE DEF bound, first, pass, S, Is, g
<1>6. step \in Steps(bound, S)
  BY <1>3 DEF Steps
<1>7. PICK f : Follows(f, bound, S, first, step)
  <2> HIDE DEF step
  <2> QED
    BY <1>4, <1>5, <1>6, RecursionUpTo
<1>8. Is(f)
  <2>1. ASSUME NEW k \in 1 .. bound PROVE f[k] = pass(f[k - 1])
    <3>1. k - 1 \in 0 .. bound
      BY <1>5
    <3>2. f[k - 1] \in S
      BY <1>7, <3>1 DEF Follows
    <3> QED
      BY <1>7, <3>2 DEF Follows
  <2>2. \A k \in 0 .. bound : f[k] = IF k = 0 THEN first ELSE pass(f[k - 1])
    BY <1>5, <1>7, <2>1 DEF Follows
  <2>3. f = [k \in 0 .. bound |-> IF k = 0 THEN first ELSE pass(f[k - 1])]
    BY <1>7, <2>2 DEF Follows
  <2> QED
    BY <1>2, <2>3
<1>9. Is(g)
  BY <1>8 DEF g
<1>10. g = [k \in 0 .. bound |-> IF k = 0 THEN first ELSE pass(g[k - 1])]
  BY <1>2, <1>9
<1>11. g[0] = first /\ \A k \in 1 .. bound : g[k] = pass(g[k - 1])
  BY <1>5, <1>10
<1>12. g[bound] \in S
  <2> DEFINE T == {k \in 0 .. bound : g[k] \in S}
  <2>1. 0 \in T
    BY <1>4, <1>5, <1>11
  <2>2. ASSUME NEW k \in 1 .. bound, k - 1 \in T PROVE k \in T
    <3>1. g[k] = pass(g[k - 1])
      BY <1>11
    <3>2. g[k - 1] \in S
      BY <2>2
    <3> QED
      BY <1>3, <1>5, <3>1, <3>2
  <2> HIDE DEF T
  <2>3. 0 .. bound \subseteq T
    BY <1>5, <2>1, <2>2, InductionUpTo
  <2> QED
    BY <1>5, <2>3 DEF T
<1> QED
  BY <1>1, <1>12 DEF S

\* Sorting neither loses nor doubles an operation, whether or not it found a cycle
\* (operationsorterworker.cpp, moveFirstAfterSecond).
THEOREM SortingKeepsOperations ==
  ASSUME NEW given, Len(given) \in Nat
  PROVE  Sorted(given).list \in Orders(Len(given))
BY SortedKeeps DEF SorterInv, Sorters

\* When the last pass has changed nothing, the pairs of all nine rules are in order.
LEMMA RulesHold ==
  ASSUME NEW given, Len(given) \in Nat, NEW list, Sorted(given).list = list, ~Sorted(given).changed
  PROVE  Respects(list, Rules(list, given))
BY SortedKeeps DEF SorterInv

\* Then of each pair of each rule (operationsorterworker.cpp, the nine fix... functions) the
\* second operation comes before the first: no later rule of a pass undoes an earlier one.
THEOREM SortedRespectsRules ==
  ASSUME NEW given, Len(given) \in Nat, NEW list, Sorted(given).list = list, ~Sorted(given).changed
  PROVE  \A p \in Rules(list, given) : p[1] = p[2] \/ At(list, p[2]) < At(list, p[1])
<1> DEFINE n == Len(given)
<1>1. list \in Orders(n)
  BY SortingKeepsOperations
<1>2. Respects(list, Rules(list, given))
  BY RulesHold
<1>3. Rules(list, given) \subseteq (1 .. n) \X (1 .. n)
  <2>1. CreateBeforeCreate(list, given) \subseteq (1 .. n) \X (1 .. n)
    BY AncestorType DEF CreateBeforeCreate
  <2> QED
    BY <2>1, RulePairs, PairsType DEF Rules
<1>4. ASSUME NEW p \in Rules(list, given), p[1] # p[2]
      PROVE  At(list, p[2]) < At(list, p[1])
  <2>1. p[1] \in 1 .. n /\ p[2] \in 1 .. n
    BY <1>3
  <2>2. At(list, p[1]) \in 1 .. n /\ At(list, p[2]) \in 1 .. n
    BY <1>1, <2>1, PlaceOf
  <2>3. At(list, p[1]) # At(list, p[2])
    <3>1. list[At(list, p[1])] = p[1] /\ list[At(list, p[2])] = p[2]
      BY <1>1, <2>1, <2>2, PlaceOf
    <3> QED
      BY <1>4, <3>1
  <2>4. At(list, p[1]) >= At(list, p[2])
    BY <1>2 DEF Respects
  <2> QED
    BY <2>2, <2>3, <2>4
<1> QED
  BY <1>4

-----------------------------------------------------------------------------
(* Creates come after the creates of the folders they are in.               *)

\* The makers above a maker are those above what it makes.
LEMMA MakersGoOn ==
  ASSUME NEW given, Len(given) \in Nat, MakersEnd(given), NEW k \in 1 .. Len(given),
         NEW d \in 0 .. Len(given), Makers(given, k)[d] # 0
  PROVE  /\ Makers(given, k)[d] \in 1 .. Len(given)
         /\ \A i \in 0 .. Len(given) : Makers(given, Makers(given, k)[d])[i] =
                IF d + i <= Len(given) THEN Makers(given, k)[d + i] ELSE 0
<1> DEFINE n == Len(given)
           up == Makers(given, k)
           c == up[d]
           over == Makers(given, c)
           above(i) == IF d + i <= n THEN up[d + i] ELSE 0
           T == {i \in 0 .. n : over[i] = above(i)}
<1>1. /\ n \in Nat /\ up \in [0 .. n -> 0 .. n] /\ up[n] = 0
      /\ \A i \in 1 .. n : up[i] = IF up[i - 1] = 0 THEN 0 ELSE Maker(given, up[i - 1])
  BY MakersAbove DEF MakersEnd
<1>2. c \in 1 .. n
  <2> HIDE DEF n, up
  <2> QED
    BY <1>1 DEF n, up
<1>3. /\ over[0] = c
      /\ \A i \in 1 .. n : over[i] = IF over[i - 1] = 0 THEN 0 ELSE Maker(given, over[i - 1])
  BY <1>2, MakersAbove
<1>4. d \in 0 .. n
  OBVIOUS
<1> HIDE DEF n, up, c, over
<1>5. 0 \in T
  BY <1>1, <1>3, <1>4 DEF c
<1>6. ASSUME NEW i \in 1 .. n, i - 1 \in T PROVE i \in T
  <2>1. over[i - 1] = above(i - 1)
    BY <1>6
  <2>2. over[i] = IF above(i - 1) = 0 THEN 0 ELSE Maker(given, above(i - 1))
    BY <1>3, <2>1
  <2>3. CASE d + i <= n
    <3>1. d + (i - 1) <= n /\ d + (i - 1) = (d + i) - 1 /\ d + i \in 1 .. n
      BY <1>1, <1>4, <2>3
    <3>2. above(i - 1) = up[(d + i) - 1] /\ above(i) = up[d + i]
      BY <2>3, <3>1
    <3>3. up[d + i] = IF up[(d + i) - 1] = 0 THEN 0 ELSE Maker(given, up[(d + i) - 1])
      <4> DEFINE j == d + i
      <4>1. j \in 1 .. n
        BY <3>1
      <4> HIDE DEF j
      <4>2. up[j] = IF up[j - 1] = 0 THEN 0 ELSE Maker(given, up[j - 1])
        BY <1>1, <4>1
      <4> QED
        BY <4>2 DEF j
    <3>4. over[i] = above(i)
      BY <2>2, <3>2, <3>3
    <3> QED
      BY <1>1, <3>4
  <2>4. CASE d + i = n + 1
    <3>0. d + (i - 1) = n /\ ~(d + i <= n)
      BY <1>1, <1>4, <2>4
    <3>1. above(i - 1) = 0 /\ above(i) = 0
      <4>1. up[d + (i - 1)] = 0
        BY <1>1, <3>0
      <4> QED
        BY <3>0, <4>1
    <3> QED
      BY <1>1, <2>2, <3>1
  <2>5. CASE d + i > n + 1
    <3>1. above(i - 1) = 0 /\ above(i) = 0
      BY <1>1, <1>4, <2>5
    <3> QED
      BY <1>1, <2>2, <3>1
  <2> QED
    BY <1>1, <1>4, <2>3, <2>4, <2>5
<1>7. 0 .. n \subseteq T
  <2> HIDE DEF T
  <2> QED
    BY <1>1, <1>5, <1>6, InductionUpTo
<1> QED
  BY <1>2, <1>7 DEF n, up, c, over

\* Among creates, a higher index is a later place.
LEMMA HigherIsLater ==
  ASSUME NEW given, NEW list, NEW c, NEW k \in OfType(given, "create")
  PROVE  HigherIndex(list, given, c, k) <=> At(list, k) < At(list, c)
BY DEF HigherIndex, OfType

\* No create is left before one of the creates above it: the highest one out of order
\* is what the create just below it is paired with.
LEMMA CreatesInOrder ==
  ASSUME NEW given, Len(given) \in Nat, MakersEnd(given),
         NEW list, Respects(list, CreateBeforeCreate(list, given)), list \in Orders(Len(given)),
         NEW k \in OfType(given, "create"), Maker(given, k) # 0
  PROVE  At(list, Maker(given, k)) <= At(list, k)
<1> DEFINE n == Len(given)
           up == Makers(given, k)
           isLate(i) == HigherIndex(list, given, up[i], up[i - 1])
           late == {i \in 1 .. n : up[i] # 0 /\ isLate(i)}
           d == Max(late)
           e == up[d - 1]
<1>0. n \in Nat /\ k \in 1 .. n
  BY DEF OfType
<1>1. /\ up \in [0 .. n -> 0 .. n] /\ up[0] = k
      /\ \A i \in 1 .. n : up[i] = IF up[i - 1] = 0 THEN 0 ELSE Maker(given, up[i - 1])
  BY <1>0, MakersAbove
<1> HIDE DEF up
<1>2. \A i \in 1 .. n : up[i] # 0 => up[i - 1] \in OfType(given, "create")
  <2> SUFFICES ASSUME NEW i \in 1 .. n, up[i] # 0 PROVE up[i - 1] \in OfType(given, "create")
    OBVIOUS
  <2>1. CASE i = 1
    BY <1>1, <2>1
  <2>2. CASE i > 1
    <3>1. i - 1 \in 1 .. n /\ up[i - 1] # 0
      BY <1>0, <1>1, <2>2
    <3>2. up[i - 1] = Maker(given, up[i - 1 - 1])
      BY <1>1, <3>1
    <3> QED
      BY <3>1, <3>2, MakerType
  <2> QED
    BY <2>1, <2>2
<1>3. late = {}
  <2> SUFFICES ASSUME late # {} PROVE FALSE
    OBVIOUS
  <2>1. d \in late /\ \A i \in late : i <= d
    <3>1. late \in SUBSET (0 .. n)
      OBVIOUS
    <3> HIDE DEF late
    <3> QED
      BY <1>0, <3>1, MaxOf
  <2>2. d \in 1 .. n /\ up[d] # 0 /\ isLate(d)
    BY <2>1
  <2> DEFINE over == Makers(given, e)
             lateOf == {i \in 1 .. n : over[i] # 0 /\ HigherIndex(list, given, over[i], over[i - 1])}
  <2> HIDE DEF d, late
  <2>3. e \in OfType(given, "create") /\ e \in 1 .. n /\ e # 0
    <3>1. e \in OfType(given, "create")
      BY <1>2, <2>2
    <3> QED
      BY <3>1 DEF OfType
  <2>4. \A i \in 0 .. n : over[i] = IF d - 1 + i <= n THEN up[d - 1 + i] ELSE 0
    <3>1. d - 1 \in 0 .. n
      BY <1>0, <2>2
    <3> HIDE DEF n
    <3> QED
      BY <1>0, <2>2, <2>3, <3>1, MakersGoOn DEF n, up, e, over
  <2> HIDE DEF e, over
  <2>5. lateOf = {1}
    <3>1. over[0] = e /\ over[1] = up[d] /\ 1 \in 1 .. n
      <4>1. 1 \in 1 .. n /\ d - 1 + 0 = d - 1 /\ d - 1 + 1 = d /\ d - 1 <= n /\ d <= n
        BY <1>0, <2>2
      <4>2. over[0] = up[d - 1 + 0] /\ over[1] = up[d - 1 + 1]
        BY <1>0, <2>4, <4>1
      <4> QED
        BY <4>1, <4>2 DEF e
    <3>2. HigherIndex(list, given, over[1], over[0])
      BY <2>2, <3>1 DEF e
    <3>3. ASSUME NEW i \in lateOf, i # 1 PROVE FALSE
      <4>1. /\ i \in 1 .. n /\ i > 1 /\ over[i] # 0
            /\ HigherIndex(list, given, over[i], over[i - 1])
        BY <3>3
      <4>2. d - 1 + i <= n /\ over[i] = up[d - 1 + i]
        BY <1>0, <2>2, <2>4, <4>1
      <4>3. i - 1 \in 0 .. n /\ d - 1 + (i - 1) <= n /\ d - 1 + (i - 1) = (d - 1 + i) - 1
        BY <1>0, <2>2, <4>1, <4>2
      <4>4. over[i - 1] = up[(d - 1 + i) - 1]
        BY <2>4, <4>3
      <4>5. d - 1 + i \in 1 .. n /\ d - 1 + i > d
        BY <1>0, <2>2, <4>1, <4>2
      <4>6. up[d - 1 + i] # 0 /\ HigherIndex(list, given, up[d - 1 + i], up[(d - 1 + i) - 1])
        BY <4>1, <4>2, <4>4
      <4>7. d - 1 + i \in late
        <5> DEFINE j == d - 1 + i
        <5> HIDE DEF n
        <5>1. j \in 1 .. n
          BY <4>5
        <5>2. up[j] # 0
          BY <4>6
        <5>3. isLate(j)
          BY <4>6
        <5> HIDE DEF j, isLate
        <5>4. j \in late
          BY <5>1, <5>2, <5>3 DEF late
        <5> QED
          BY <5>4 DEF j
      <4> QED
        BY <2>1, <2>2, <4>5, <4>7
    <3>4. 1 \in lateOf
      BY <2>2, <3>1, <3>2
    <3> QED
      BY <3>3, <3>4
  <2>6. Ancestor(list, given, e) = up[d]
    <3>1. Max({1}) = 1
      <4>1. {1} \in SUBSET (0 .. 1) /\ {1} # {} /\ 1 \in Nat
        OBVIOUS
      <4>2. Max({1}) \in {1}
        BY <4>1, MaxOf
      <4> QED
        BY <4>2
    <3>2. Ancestor(list, given, e) = IF lateOf = {} THEN 0 ELSE over[Max(lateOf)]
      BY DEF Ancestor, over
    <3>3. over[1] = up[d]
      <4>1. 1 \in 0 .. n /\ d - 1 + 1 = d /\ d <= n
        BY <1>0, <2>2
      <4> QED
        BY <2>4, <4>1
    <3> QED
      BY <2>5, <3>1, <3>2, <3>3
  <2>7. <<e, up[d]>> \in CreateBeforeCreate(list, given)
    BY <2>2, <2>3, <2>6 DEF CreateBeforeCreate
  <2>8. At(list, e) >= At(list, up[d])
    BY <2>7 DEF Respects
  <2>9. At(list, e) < At(list, up[d])
    BY <2>2, <2>3, HigherIsLater DEF e
  <2>10. At(list, e) \in Int /\ At(list, up[d]) \in Int
    <3>1. up[d] \in 1 .. n
      BY <1>1, <2>2
    <3> QED
      BY <1>0, <2>3, <3>1, PlaceOf
  <2> QED
    BY <2>8, <2>9, <2>10
<1>4. 1 \in 1 .. n /\ up[1] = Maker(given, k)
  BY <1>0, <1>1
<1>5. ~HigherIndex(list, given, Maker(given, k), k)
  <2>1. 1 \notin late
    BY <1>3
  <2> QED
    BY <1>1, <1>4, <2>1
<1>6. At(list, k) \in Int /\ At(list, Maker(given, k)) \in Int
  <2>1. Maker(given, k) \in 1 .. n
    BY MakerType
  <2> QED
    BY <1>0, <2>1, PlaceOf
<1> QED
  BY <1>5, <1>6, HigherIsLater

\* What is put into a folder that is created comes after the create.
LEMMA MakerFirst ==
  ASSUME NEW given, Len(given) \in Nat, MakersEnd(given), MadeIsMoved(given),
         NEW list, Sorted(given).list = list, ~Sorted(given).changed,
         NEW k \in 1 .. Len(given), Maker(given, k) # 0
  PROVE  At(list, Maker(given, k)) < At(list, k)
<1> DEFINE n == Len(given)
           c == Maker(given, k)
<1>0. n \in Nat /\ list \in Orders(n)
  BY SortingKeepsOperations
<1>1. c \in 1 .. n /\ c \in OfType(given, "create")
  BY MakerType
<1>2. \A j \in 1 .. n : At(list, j) \in 1 .. n
  BY <1>0, PlaceOf
<1>3. c # k
  <2> SUFFICES ASSUME c = k PROVE FALSE
    OBVIOUS
  <2> DEFINE up == Makers(given, k)
             T == {d \in 0 .. n : up[d] = k}
  <2>1. /\ up[0] = k /\ up[n] = 0
        /\ \A d \in 1 .. n : up[d] = IF up[d - 1] = 0 THEN 0 ELSE Maker(given, up[d - 1])
    BY MakersAbove DEF MakersEnd
  <2> HIDE DEF up
  <2>2. 0 \in T
    BY <1>0, <2>1
  <2>3. \A d \in 1 .. n : d - 1 \in T => d \in T
    BY <2>1
  <2> HIDE DEF T
  <2>4. 0 .. n \subseteq T
    BY <1>0, <2>2, <2>3, InductionUpTo
  <2>5. n \in T
    BY <1>0, <2>4
  <2> QED
    BY <2>1, <2>5 DEF T
<1>4. \A p \in Rules(list, given) : p[1] = p[2] \/ At(list, p[2]) < At(list, p[1])
  BY SortedRespectsRules
<1>5. CASE given[k].type = "create"
  <2>1. k \in OfType(given, "create")
    BY <1>5 DEF OfType
  <2>2. Respects(list, CreateBeforeCreate(list, given))
    BY RulesHold DEF Respects, Rules
  <2>3. At(list, c) <= At(list, k)
    BY <1>0, <2>1, <2>2, CreatesInOrder
  <2>4. At(list, c) # At(list, k)
    <3>1. list[At(list, c)] = c /\ list[At(list, k)] = k
      BY <1>0, <1>1, <1>2, PlaceOf
    <3> QED
      BY <1>3, <3>1
  <2> QED
    BY <1>1, <1>2, <2>3, <2>4
<1>6. CASE given[k].type # "create"
  <2>1. CASE <<k, c>> \in CreateBeforeMove(given)
    BY <1>3, <1>4, <2>1 DEF Rules
  <2>2. CASE \E m \in 1 .. n : /\ <<k, m>> \in MoveBeforeEdit(given)
                               /\ <<m, c>> \in CreateBeforeMove(given)
    <3>1. PICK m \in 1 .. n : /\ <<k, m>> \in MoveBeforeEdit(given)
                              /\ <<m, c>> \in CreateBeforeMove(given)
      BY <2>2
    <3>2. m # k /\ m # c
      BY <3>1 DEF MoveBeforeEdit, CreateBeforeMove, Pairs
    <3>3. At(list, c) < At(list, m) /\ At(list, m) < At(list, k)
      BY <1>4, <3>1, <3>2 DEF Rules
    <3> QED
      BY <1>1, <1>2, <3>3
  <2> QED
    BY <1>6, <2>1, <2>2 DEF MadeIsMoved
<1> QED
  BY <1>5, <1>6

\* So do all the creates above it.
LEMMA MakersFirst ==
  ASSUME NEW given, Len(given) \in Nat, MakersEnd(given), MadeIsMoved(given),
         NEW list, Sorted(given).list = list, ~Sorted(given).changed,
         NEW k \in 1 .. Len(given), NEW d \in 1 .. Len(given), Makers(given, k)[d] # 0
  PROVE  At(list, Makers(given, k)[d]) < At(list, k)
<1> DEFINE n == Len(given)
           up == Makers(given, k)
           T == {i \in 0 .. n : i = 0 \/ up[i] = 0 \/ At(list, up[i]) < At(list, k)}
<1>1. /\ n \in Nat /\ up \in [0 .. n -> 0 .. n] /\ up[0] = k
      /\ \A i \in 1 .. n : up[i] = IF up[i - 1] = 0 THEN 0 ELSE Maker(given, up[i - 1])
  BY MakersAbove
<1>2. list \in Orders(n)
  BY SortingKeepsOperations
<1>3. \A j \in 1 .. n : At(list, j) \in Int
  BY <1>1, <1>2, PlaceOf
<1>4. \A j \in 1 .. n : Maker(given, j) # 0 => At(list, Maker(given, j)) < At(list, j)
  BY MakerFirst
<1> HIDE DEF n, up
<1>5. 0 \in T
  BY <1>1
<1>6. ASSUME NEW i \in 1 .. n, i - 1 \in T PROVE i \in T
  <2> SUFFICES ASSUME up[i] # 0 PROVE At(list, up[i]) < At(list, k)
    BY <1>1
  <2>1. i - 1 \in 0 .. n
    BY <1>1
  <2>2. up[i - 1] \in 1 .. n /\ up[i] \in 1 .. n /\ up[i] = Maker(given, up[i - 1])
    <3>1. up[i - 1] # 0 /\ up[i] = Maker(given, up[i - 1])
      BY <1>1
    <3>2. up[i - 1] \in 0 .. n /\ up[i] \in 0 .. n
      BY <1>1, <2>1
    <3>3. \A x \in 0 .. n : x # 0 => x \in 1 .. n
      BY <1>1
    <3> QED
      BY <3>1, <3>2, <3>3
  <2>3. At(list, up[i]) < At(list, up[i - 1])
    BY <1>4, <2>2
  <2>4. up[i - 1] = k \/ At(list, up[i - 1]) < At(list, k)
    BY <1>1, <1>6, <2>2
  <2> QED
    BY <1>3, <2>2, <2>3, <2>4 DEF n
<1>7. 0 .. n \subseteq T
  <2> HIDE DEF T
  <2> QED
    BY <1>1, <1>5, <1>6, InductionUpTo
<1>8. d \in T
  BY <1>1, <1>7 DEF n
<1> QED
  BY <1>8 DEF up

\* When the last pass has changed nothing, no operation waits for one that comes after it.
LEMMA SortedWaitsForEarlier ==
  ASSUME NEW given, Len(given) \in Nat, MakersEnd(given), MadeIsMoved(given),
         NEW w, Sorted(given) = w, ~w.changed, NEW j \in 1 .. Len(given)
  PROVE  w.after[j] = 0 \/ At(w.list, w.after[j]) < At(w.list, j)
<1> SUFFICES ASSUME w.after[j] # 0
             PROVE  At(w.list, w.after[j]) < At(w.list, j)
  OBVIOUS
<1> DEFINE a == w.after[j]
<1>1. PICK list \in Orders(Len(given)) : <<j, a>> \in Rules(list, given)
  BY SortedKeeps DEF SorterInv
<1>2. CASE <<j, a>> \in CreateBeforeCreate(list, given)
  <2> DEFINE up == Makers(given, j)
             late == {d \in 1 .. Len(given) : up[d] # 0 /\ HigherIndex(list, given, up[d], up[d - 1])}
             d == Max(late)
  <2>1. a = Ancestor(list, given, j)
    BY <1>2 DEF CreateBeforeCreate
  <2>2. late # {} /\ a = up[d]
    BY <2>1 DEF Ancestor
  <2>3. late \in SUBSET (0 .. Len(given))
    OBVIOUS
  <2>4. d \in late
    <3> HIDE DEF late
    <3> QED
      BY <2>2, <2>3, MaxOf
  <2>5. d \in 1 .. Len(given) /\ up[d] # 0
    BY <2>4
  <2> HIDE DEF d
  <2> QED
    BY <2>2, <2>5, MakersFirst
<1>3. CASE <<j, a>> \notin CreateBeforeCreate(list, given)
  <2>1. <<j, a>> \in Rules(w.list, given)
    BY <1>1, <1>3 DEF Rules
  <2>3. j # a
    BY <1>1, <1>3, RulePairs DEF Rules, Pairs
  <2> HIDE DEF a
  <2>2. <<j, a>>[1] = <<j, a>>[2] \/ At(w.list, <<j, a>>[2]) < At(w.list, <<j, a>>[1])
    BY <2>1, SortedRespectsRules
  <2> QED
    BY <2>2, <2>3 DEF a
<1> QED
  BY <1>2, <1>3

\* A list with some of the operations of a sorted one, in its order.
PartOf(q, n, list) ==
    /\ q \in Seq(1 .. n)
    /\ \A i, j \in 1 .. Len(q) : At(list, q[i]) < At(list, q[j]) => i < j

LEMMA AllIsPart ==
  ASSUME NEW n \in Nat, NEW list \in Orders(n)
  PROVE  PartOf(list, n, list)
<1>1. list \in Seq(1 .. n) /\ Len(list) = n
  BY DEF Orders
<1>2. ASSUME NEW i \in 1 .. n PROVE At(list, list[i]) = i
  <2>1. list[i] \in 1 .. n
    BY DEF Orders
  <2> QED
    BY <2>1, PlaceOf
<1> QED
  BY <1>1, <1>2 DEF PartOf

LEMMA ReshuffledIsPart ==
  ASSUME NEW given, NEW n \in Nat, NEW list \in Orders(n)
  PROVE  PartOf(Reshuffled(given, list), n, list)
<1> DEFINE o == given[list[1]]
           from == CorrespondingInOtherTree(o.node)
           to == CorrespondingInOtherTree(Parent(o.node))
           between == {m \in Nodes : /\ Node(m).dir /\ Has(m, "move")
                                     /\ m # from /\ IsBelow(from, m)
                                     /\ IsBelow(from, to) => IsBelow(m, to)}
           first == SelectInSeq(list, LAMBDA k : given[k].node \in between)
           places == {j \in DOMAIN list :
                        \/ j = first
                        \/ /\ first = 0 \/ j < first
                           /\ given[list[j]].target = to[1] \/ given[list[j]].omit}
           R == {p \in places \X places : p[1] < p[2]}
           left == Arranged(places, R)
           q == [k \in DOMAIN left |-> list[left[k]]]
<1>1. Reshuffled(given, list) = q
  BY DEF Reshuffled
<1>2. places \in SUBSET (1 .. n)
  BY DEF Orders
<1> HIDE DEF places
<1>3. IsFiniteSet(places) /\ IsOrderOf(places, R)
  <2>1. IsFiniteSet(1 .. n)
    BY FS_Interval
  <2>2. IsFiniteSet(places)
    BY <1>2, <2>1, FS_Subset
  <2>3. \A x, y \in places : <<x, y>> \in R <=> x < y
    OBVIOUS
  <2> HIDE DEF R
  <2> QED
    BY <1>2, <2>2, <2>3 DEF IsOrderOf
<1>4. \A x, y \in places : x < y => <<x, y>> \in R
  OBVIOUS
<1> HIDE DEF R
<1>5. left \in Seq(places) /\ \A i, j \in DOMAIN left : <<left[i], left[j]>> \in R => i < j
  BY <1>3, ArrangedHasAll
<1> HIDE DEF left
<1>6. Len(left) \in Nat /\ DOMAIN left = 1 .. Len(left) /\ \A k \in 1 .. Len(left) : left[k] \in places
  BY <1>5
<1>7. \A k \in 1 .. Len(left) : left[k] \in 1 .. n /\ list[left[k]] \in 1 .. n
  BY <1>2, <1>6 DEF Orders
<1>8. q \in Seq(1 .. n) /\ Len(q) = Len(left) /\ \A k \in 1 .. Len(left) : q[k] = list[left[k]]
  BY <1>6, <1>7
<1> HIDE DEF q
<1>9. ASSUME NEW i \in 1 .. Len(q), NEW j \in 1 .. Len(q), At(list, q[i]) < At(list, q[j])
      PROVE  i < j
  <2>1. \A k \in 1 .. n : list[k] \in 1 .. n => At(list, list[k]) = k
    BY PlaceOf
  <2>2. At(list, q[i]) = left[i] /\ At(list, q[j]) = left[j]
    BY <1>7, <1>8, <2>1
  <2> QED
    BY <1>4, <1>5, <1>6, <1>8, <1>9, <2>2
<1> QED
  BY <1>1, <1>8, <1>9 DEF PartOf

\* What an operation waits for is looked up in the list, unless it is not there.
LookedUp(q, a) == SelectInSeq(q, LAMBDA x : x = a)
LEMMA LookedUpIsThere ==
  ASSUME NEW q, Len(q) \in Nat, NEW a
  PROVE  LookedUp(q, a) \in 0 .. Len(q) /\ (LookedUp(q, a) # 0 => q[LookedUp(q, a)] = a)
<1> DEFINE I == {i \in 1 .. Len(q) : q[i] = a}
<1>1. LookedUp(q, a) = IF I # {} THEN Min(I) ELSE 0
  BY DEF LookedUp, SelectInSeq
<1>2. I \in SUBSET Nat
  OBVIOUS
<1>3. I # {} => Min(I) \in I
  <2> HIDE DEF I
  <2> QED
    BY <1>2, Least DEF Min
<1>4. \A i \in I : i \in 1 .. Len(q) /\ q[i] = a
  OBVIOUS
<1> HIDE DEF I
<1> QED
  BY <1>1, <1>3, <1>4

\* What operation k of a linked list waits for.
WaitsFor(linked, given, w, q, n, k) ==
    /\ k \in 1 .. Len(q) /\ q[k] \in 1 .. n
    /\ linked[k].after # 0 =>
        /\ linked[k].after \in 1 .. Len(q) /\ q[linked[k].after] \in 1 .. n
        /\ q[linked[k].after] = w.after[q[k]] /\ w.after[q[k]] # 0
        /\ \E x : linked[linked[k].after] = [given[q[linked[k].after]] EXCEPT !.after = x]

LEMMA LinkedPart ==
  ASSUME NEW given, NEW n \in Nat, NEW w, NEW q, PartOf(q, n, w.list),
         \A i \in 1 .. n : "after" \in DOMAIN given[i],
         NEW linked, linked = Linked(given, w.after, q), NEW k \in DOMAIN linked
  PROVE  WaitsFor(linked, given, w, q, n, k)
<1> DEFINE link(i) == IF w.after[q[i]] = 0 THEN 0 ELSE LookedUp(q, w.after[q[i]])
           a == linked[k].after
<1>1. Len(q) \in Nat /\ \A i \in 1 .. Len(q) : q[i] \in 1 .. n
  BY DEF PartOf
<1>2. linked = [i \in 1 .. Len(q) |-> [given[q[i]] EXCEPT !.after = link(i)]]
  BY DEF Linked, LookedUp
<1> HIDE DEF link
<1>3. k \in 1 .. Len(q) /\ q[k] \in 1 .. n
  BY <1>1, <1>2
<1>4. \A i \in 1 .. Len(q) : linked[i] = [given[q[i]] EXCEPT !.after = link(i)]
  BY <1>2
<1>5. a = link(k)
  BY <1>1, <1>3, <1>4
<1> HIDE DEF a
<1>6. ASSUME a # 0
      PROVE  /\ a \in 1 .. Len(q) /\ q[a] \in 1 .. n
             /\ q[a] = w.after[q[k]] /\ w.after[q[k]] # 0
             /\ linked[a] = [given[q[a]] EXCEPT !.after = link(a)]
  <2>1. w.after[q[k]] # 0 /\ a = LookedUp(q, w.after[q[k]])
    BY <1>5, <1>6 DEF link
  <2>2. a \in 0 .. Len(q) /\ q[a] = w.after[q[k]]
    BY <1>1, <1>6, <2>1, LookedUpIsThere
  <2>3. a \in 1 .. Len(q)
    BY <1>1, <1>6, <2>2
  <2> QED
    BY <1>1, <1>4, <2>1, <2>2, <2>3
<1> QED
  BY <1>3, <1>6 DEF WaitsFor, a

\* The lists sortOperations may end with.
LEMMA SortedOrBroken ==
  ASSUME NEW given, Len(given) \in Nat
  PROVE  LET w == Sorted(given)
             cycle == CompleteCycle(w)
             sorted == SortOperations(given).ops
         IN  /\ w \in Sorters(Len(given))
             /\ \/ sorted \in {<<>>, <<BreakCycle(given, cycle)>>}
                \/ /\ \E q : PartOf(q, Len(given), w.list) /\ sorted = Linked(given, w.after, q)
                   /\ cycle # <<>> =>
                        ~Exists(CorrespondingInOtherTree(given[Chosen(given, cycle)].node))
<1> DEFINE n == Len(given)
           w == Sorted(given)
           cycle == CompleteCycle(w)
           broken == cycle # <<>> /\ Exists(CorrespondingInOtherTree(given[Chosen(given, cycle)].node))
           sorted == SortOperations(given).ops
<1>1. w \in Sorters(n) /\ w.list \in Orders(n)
  BY SortedKeeps DEF SorterInv, Sorters
<1>2. PartOf(w.list, n, w.list) /\ PartOf(Reshuffled(given, w.list), n, w.list)
  BY <1>1, AllIsPart, ReshuffledIsPart
<1>3. \/ sorted \in {<<>>, <<BreakCycle(given, cycle)>>}
      \/ ~broken /\ sorted \in {Linked(given, w.after, Reshuffled(given, w.list)),
                                Linked(given, w.after, w.list)}
  BY DEF SortOperations
<1> HIDE DEF w, sorted
<1> QED
  BY <1>1, <1>2, <1>3 DEF w, sorted

\* What is waited for is one of the operations that were sorted, and one that is waited
\* for there.
WaitedFor(given, o) ==
    \E i, j \in 1 .. Len(given) :
        Sorted(given).after[i] = j /\ o.type = given[j].type /\ o.node = given[j].node
LEMMA WaitedForIsSorted ==
  ASSUME NEW given, Len(given) \in Nat,
         \A k \in 1 .. Len(given) : {"after", "type", "node"} \subseteq DOMAIN given[k],
         NEW sorted, sorted = SortOperations(given).ops,
         NEW k \in DOMAIN sorted, sorted[k].after # 0
  PROVE  WaitedFor(given, sorted[sorted[k].after])
<1> DEFINE n == Len(given)
           w == Sorted(given)
           a == sorted[k].after
<1>1. \/ sorted \in {<<>>, <<BreakCycle(given, CompleteCycle(w))>>}
      \/ \E q : PartOf(q, n, w.list) /\ sorted = Linked(given, w.after, q)
  BY SortedOrBroken
<1>2. CASE sorted \in {<<>>, <<BreakCycle(given, CompleteCycle(w))>>}
  <2> DEFINE broken == BreakCycle(given, CompleteCycle(w))
  <2>1. broken.after = 0
    BY DEF BreakCycle, Operation
  <2> HIDE DEF broken
  <2>2. \A i \in DOMAIN <<broken>> : <<broken>>[i].after = 0
    BY <2>1
  <2> QED
    BY <1>2, <2>2 DEF broken
<1>3. CASE \E q : PartOf(q, n, w.list) /\ sorted = Linked(given, w.after, q)
  <2>1. PICK q : PartOf(q, n, w.list) /\ sorted = Linked(given, w.after, q)
    BY <1>3
  <2>2. /\ q[k] \in 1 .. n /\ q[a] \in 1 .. n /\ w.after[q[k]] = q[a]
        /\ \E x : sorted[a] = [given[q[a]] EXCEPT !.after = x]
    <3>1. WaitsFor(sorted, given, w, q, n, k)
      BY <2>1, LinkedPart
    <3> QED
      BY <3>1 DEF WaitsFor
  <2> HIDE DEF a, w
  <2>3. sorted[a].type = given[q[a]].type /\ sorted[a].node = given[q[a]].node
    BY <2>2
  <2>4. w.after[q[k]] = q[a] /\ q[k] \in 1 .. Len(given) /\ q[a] \in 1 .. Len(given)
    BY <2>2
  <2> QED
    BY <2>3, <2>4 DEF a, w, WaitedFor
<1> QED
  BY <1>1, <1>2, <1>3

\* What the sorter gives the executor (sortOperations): no operation waits for itself or for
\* one that comes after it, so that the executor, which takes them in their order, is never
\* stuck, whether the list is whole or cut after an impossible first move. What it asks of
\* the operations is so in the cycles (WhatTheRulesCountOn, below).
THEOREM OperationsWaitForEarlier ==
  ASSUME NEW given, Len(given) \in Nat, \A k \in 1 .. Len(given) : "after" \in DOMAIN given[k],
         RulesCanCount(given), SortingEnds(given), CyclesAreBroken(given)
  PROVE  \A k \in DOMAIN SortOperations(given).ops : SortOperations(given).ops[k].after < k
<1> DEFINE n == Len(given)
           w == Sorted(given)
           cycle == CompleteCycle(w)
           sorted == SortOperations(given).ops
<1>1. /\ w \in Sorters(n)
      /\ \/ sorted \in {<<>>, <<BreakCycle(given, cycle)>>}
         \/ /\ \E q : PartOf(q, n, w.list) /\ sorted = Linked(given, w.after, q)
            /\ cycle # <<>> => ~Exists(CorrespondingInOtherTree(given[Chosen(given, cycle)].node))
  BY SortedOrBroken
<1>2. BreakCycle(given, cycle).after = 0
  BY DEF BreakCycle, Operation
<1>3. CASE sorted \in {<<>>, <<BreakCycle(given, cycle)>>}
  <2> DEFINE broken == BreakCycle(given, cycle)
  <2> HIDE DEF sorted, broken
  <2>1. broken.after = 0
    BY <1>2 DEF broken
  <2>2. \A k \in DOMAIN <<broken>> : k = 1 /\ <<broken>>[k].after = 0
    BY <2>1
  <2>3. \A k \in DOMAIN sorted : k = 1 /\ sorted[k].after = 0
    BY <1>3, <2>2 DEF broken
  <2> QED
    BY <2>3 DEF sorted
<1>4. CASE /\ \E q : PartOf(q, n, w.list) /\ sorted = Linked(given, w.after, q)
           /\ cycle # <<>> => ~Exists(CorrespondingInOtherTree(given[Chosen(given, cycle)].node))
  <2>1. ~w.changed
    BY <1>4 DEF SortingEnds, CyclesAreBroken
  <2>2. PICK q : PartOf(q, n, w.list) /\ sorted = Linked(given, w.after, q)
    BY <1>4
  <2> SUFFICES ASSUME NEW k \in DOMAIN sorted, sorted[k].after # 0
               PROVE  sorted[k].after < k
    <3>1. ASSUME NEW k \in DOMAIN sorted, sorted[k].after = 0 PROVE 0 < k
      <4>1. WaitsFor(sorted, given, w, q, n, k)
        BY <2>2, LinkedPart
      <4> QED
        BY <4>1 DEF WaitsFor
    <3> QED
      BY <3>1
  <2> DEFINE a == sorted[k].after
  <2>3. /\ k \in 1 .. Len(q) /\ q[k] \in 1 .. n /\ a \in 1 .. Len(q)
        /\ q[a] = w.after[q[k]] /\ w.after[q[k]] # 0
    <3>1. WaitsFor(sorted, given, w, q, n, k)
      BY <2>2, LinkedPart
    <3> QED
      BY <3>1 DEF WaitsFor
  <2>4. At(w.list, w.after[q[k]]) < At(w.list, q[k])
    BY <2>1, <2>3, SortedWaitsForEarlier DEF RulesCanCount
  <2> HIDE DEF a, w
  <2>5. a < k
    BY <2>2, <2>3, <2>4 DEF PartOf
  <2> QED
    BY <2>5 DEF a
<1> QED
  BY <1>1, <1>3, <1>4

-----------------------------------------------------------------------------
(* Only what the executor does at once is waited for.                       *)

\* An operation that may need a job to transfer a file.
Transfers(o) == o.type \in {"create", "edit"} /\ ~Node(o.node).dir

\* What a rule lets an operation wait for is no transfer.
LEMMA PairedWithNoTransfer ==
  ASSUME NEW given, Len(given) \in Nat, MakersMakeFolders(given), NEW list,
         NEW p \in Rules(list, given)
  PROVE  p[2] \in 1 .. Len(given) /\ ~Transfers(given[p[2]])
<1> DEFINE n == Len(given)
<1>1. CASE p \in CreateBeforeCreate(list, given)
  <2>1. PICK k \in 1 .. n : p = <<k, Ancestor(list, given, k)>> /\ Ancestor(list, given, k) # 0
    BY <1>1 DEF CreateBeforeCreate
  <2> DEFINE up == Makers(given, k)
             late == {d \in 1 .. n : up[d] # 0 /\ HigherIndex(list, given, up[d], up[d - 1])}
             d == Max(late)
  <2>2. late # {} /\ p[2] = up[d]
    BY <2>1 DEF Ancestor
  <2>3. late \in SUBSET (0 .. n)
    OBVIOUS
  <2>4. d \in 1 .. n /\ up[d] # 0
    <3>1. d \in late
      <4> HIDE DEF late
      <4> QED
        BY <2>2, <2>3, MaxOf
    <3> QED
      BY <3>1
  <2>5. /\ up \in [0 .. n -> 0 .. n]
        /\ \A i \in 1 .. n : up[i] = IF up[i - 1] = 0 THEN 0 ELSE Maker(given, up[i - 1])
    BY MakersAbove
  <2> HIDE DEF d, up
  <2>6. up[d - 1] \in 1 .. n /\ up[d] = Maker(given, up[d - 1])
    <3>1. up[d - 1] # 0 /\ up[d] = Maker(given, up[d - 1])
      BY <2>4, <2>5
    <3>2. d - 1 \in 0 .. n
      BY <2>4
    <3>3. up[d - 1] \in 0 .. n
      BY <2>5, <3>2
    <3> QED
      BY <3>1, <3>3
  <2>7. Node(given[up[d]].node).dir /\ up[d] \in 1 .. n
    BY <2>4, <2>6, MakerType DEF MakersMakeFolders
  <2> QED
    BY <2>2, <2>7 DEF Transfers
<1>2. CASE p \in CreateBeforeMove(given)
  <2>1. Node(given[p[2]].node).dir /\ p[2] \in OfType(given, "create")
    BY <1>2 DEF CreateBeforeMove, Pairs
  <2> QED
    BY <2>1 DEF Transfers, OfType
<1>3. CASE p \notin CreateBeforeCreate(list, given) /\ p \notin CreateBeforeMove(given)
  <2>1. \E first : p \in Pairs(given, first, "delete") \/ p \in Pairs(given, first, "move")
    BY <1>3, RulePairs DEF Rules
  <2>2. p[2] \in OfType(given, "delete") \/ p[2] \in OfType(given, "move")
    BY <2>1 DEF Pairs
  <2> QED
    BY <2>2 DEF Transfers, OfType
<1> QED
  BY <1>1, <1>2, <1>3

\* What an operation waits for the executor does at once (sortOperations): a pause puts back
\* the transfers that a job has not ended, and none of them is waited for. With the theorem
\* before, this is what Executor assumes of the operations it is given.
THEOREM NoTransferIsWaitedFor ==
  ASSUME NEW given, Len(given) \in Nat,
         \A k \in 1 .. Len(given) : {"after", "type", "node"} \subseteq DOMAIN given[k],
         MakersMakeFolders(given)
  PROVE  \A k \in DOMAIN SortOperations(given).ops :
            LET a == SortOperations(given).ops[k].after
            IN  a # 0 => ~Transfers(SortOperations(given).ops[a])
<1> DEFINE sorted == SortOperations(given).ops
<1> SUFFICES ASSUME NEW k \in DOMAIN sorted, sorted[k].after # 0
             PROVE  ~Transfers(sorted[sorted[k].after])
  OBVIOUS
<1> DEFINE o == sorted[sorted[k].after]
<1>0. WaitedFor(given, o)
  BY WaitedForIsSorted
<1>1. PICK i \in 1 .. Len(given), j \in 1 .. Len(given) :
        Sorted(given).after[i] = j /\ o.type = given[j].type /\ o.node = given[j].node
  BY <1>0 DEF WaitedFor
<1>2. \E l \in Orders(Len(given)) : <<i, j>> \in Rules(l, given)
  BY <1>1, SortedKeeps DEF SorterInv
<1>3. ~Transfers(given[j])
  BY <1>2, PairedWithNoTransfer
<1> HIDE DEF o
<1>4. ~Transfers(o)
  BY <1>1, <1>3 DEF Transfers
<1> QED
  BY <1>4 DEF o

-----------------------------------------------------------------------------
(* The cycles of the reorderings.                                           *)

\* A path along the pairs of Q, each of which goes on where the last one ends.
Chain(path, Q, n) ==
    /\ path \in Seq(1 .. n) /\ Len(path) >= 2
    /\ \A i \in 1 .. Len(path) - 1 : <<path[i], path[i + 1]>> \in Q

\* A sequence is one of anything its elements are in.
LEMMA OfTheirs ==
  ASSUME NEW S, NEW s \in Seq(S), NEW Q, \A i \in 1 .. Len(s) : s[i] \in Q
  PROVE  s \in Seq(Q)
OBVIOUS

\* So is what is left of one.
LEMMA RemoveKeeps ==
  ASSUME NEW Q, NEW s \in Seq(Q), NEW i \in 1 .. Len(s)
  PROVE  RemoveAt(s, i) \in Seq(Q)
<1>1. SubSeq(s, 1, i - 1) \in Seq(Q)
  <2>1. \A j \in 1 .. i - 1 : s[j] \in Q
    OBVIOUS
  <2> QED
    BY <2>1, SubSeqProperties
<1>2. SubSeq(s, i + 1, Len(s)) \in Seq(Q)
  <2>1. \A j \in i + 1 .. Len(s) : s[j] \in Q
    OBVIOUS
  <2> QED
    BY <2>1, SubSeqProperties
<1> QED
  BY <1>1, <1>2 DEF RemoveAt

\* A chain goes on with a pair that begins where it ends.
LEMMA ChainGoesOn ==
  ASSUME NEW n \in Nat, NEW Q, Q \in SUBSET ((1 .. n) \X (1 .. n)),
         NEW path, Chain(path, Q, n), NEW p \in Q, p[1] = Last(path)
  PROVE  Chain(Append(path, p[2]), Q, n)
<1> DEFINE q == Append(path, p[2])
<1>1. path \in Seq(1 .. n) /\ Len(path) >= 2 /\ Len(path) \in Nat /\ p[2] \in 1 .. n
      /\ p = <<p[1], p[2]>>
  BY DEF Chain
<1>2. /\ q \in Seq(1 .. n) /\ Len(q) = Len(path) + 1 /\ q[Len(path) + 1] = p[2]
      /\ \A i \in 1 .. Len(path) : q[i] = path[i]
  BY <1>1
<1> HIDE DEF q
<1>3. ASSUME NEW i \in 1 .. Len(q) - 1 PROVE <<q[i], q[i + 1]>> \in Q
  <2>1. CASE i = Len(path)
    <3>1. q[i] = Last(path) /\ q[i + 1] = p[2]
      BY <1>1, <1>2, <2>1 DEF Last
    <3> QED
      BY <1>1, <3>1
  <2>2. CASE i # Len(path)
    <3>1. i \in 1 .. Len(path) - 1 /\ i + 1 \in 1 .. Len(path) /\ i \in 1 .. Len(path)
      BY <1>1, <1>2, <2>2
    <3>2. q[i] = path[i] /\ q[i + 1] = path[i + 1]
      BY <1>2, <3>1
    <3>3. <<path[i], path[i + 1]>> \in Q
      BY <3>1 DEF Chain
    <3> QED
      BY <3>2, <3>3
  <2> QED
    BY <2>1, <2>2
<1> QED
  BY <1>1, <1>2, <1>3 DEF Chain, q

\* A walk follows the pairs.
Walks(Q, n) == [path : {path \in Seq(1 .. n) : Chain(path, Q, n)}, rest : Seq(Q), at : Nat \ {0}]
Along(v, first) ==
    LET p == v.rest[v.at]
        rest == RemoveAt(v.rest, v.at)
    IN  IF p[1] # Last(v.path) THEN [v EXCEPT !.at = @ + 1]
        ELSE IF p[2] = first THEN [path |-> Append(v.path, p[2]), rest |-> <<>>, at |-> 1]
        ELSE [path |-> Append(v.path, p[2]), rest |-> rest,
              at |-> IF v.at > Len(rest) THEN 1 ELSE v.at + 1]
Walked(v, first) == IF v.at > Len(v.rest) THEN v ELSE Along(v, first)

\* Each step of a walk leaves a chain.
LEMMA StepWalks ==
  ASSUME NEW n \in Nat, NEW Q, Q \in SUBSET ((1 .. n) \X (1 .. n)), NEW v \in Walks(Q, n), NEW first
  PROVE  Walked(v, first) \in Walks(Q, n)
<1> DEFINE p == v.rest[v.at]
           rest == RemoveAt(v.rest, v.at)
           path == Append(v.path, p[2])
<1>1. v.path \in Seq(1 .. n) /\ Chain(v.path, Q, n) /\ v.rest \in Seq(Q) /\ v.at \in Nat \ {0}
  BY DEF Walks
<1>2. CASE v.at > Len(v.rest)
  BY <1>2 DEF Walked
<1>3. CASE ~(v.at > Len(v.rest))
  <2>1. v.at \in 1 .. Len(v.rest) /\ p \in Q
    BY <1>1, <1>3
  <2>2. rest \in Seq(Q)
    BY <1>1, <2>1, RemoveKeeps
  <2>3. p[1] = Last(v.path) => path \in Seq(1 .. n) /\ Chain(path, Q, n)
    <3> HIDE DEF p
    <3>1. p[1] = Last(v.path) => Chain(path, Q, n)
      BY <1>1, <2>1, ChainGoesOn
    <3> QED
      BY <3>1 DEF Chain
  <2> HIDE DEF p, rest, path
  <2>4. Walked(v, first) =
            IF p[1] # Last(v.path) THEN [v EXCEPT !.at = @ + 1]
            ELSE IF p[2] = first THEN [path |-> path, rest |-> <<>>, at |-> 1]
            ELSE [path |-> path, rest |-> rest, at |-> IF v.at > Len(rest) THEN 1 ELSE v.at + 1]
    BY <1>3 DEF Walked, Along, p, rest, path
  <2>5. CASE p[1] # Last(v.path)
    <3>1. Walked(v, first) = [v EXCEPT !.at = @ + 1] /\ v.at + 1 \in Nat \ {0}
      BY <1>1, <2>4, <2>5
    <3> QED
      BY <3>1 DEF Walks
  <2>6. CASE p[1] = Last(v.path)
    <3>1. <<>> \in Seq(Q) /\ (IF v.at > Len(rest) THEN 1 ELSE v.at + 1) \in Nat \ {0}
      BY <1>1
    <3> QED
      BY <2>2, <2>3, <2>4, <2>6, <3>1 DEF Walks
  <2> QED
    BY <2>5, <2>6
<1> QED
  BY <1>2, <1>3

\* And so does the whole walk, from any pair.
LEMMA WalkChains ==
  ASSUME NEW n \in Nat, NEW pairs \in Seq((1 .. n) \X (1 .. n)), NEW k \in 1 .. Len(pairs)
  PROVE  Chain(WalkFrom(pairs, k), ToSet(pairs), n)
<1> DEFINE Q == ToSet(pairs)
           N == Len(pairs) * Len(pairs)
           start == [path |-> pairs[k], rest |-> RemoveAt(pairs, k), at |-> 1]
           first == pairs[k][1]
           W == Walks(Q, n)
           step == [m \in 1 .. N |-> [v \in W |-> Walked(v, first)]]
           Is(f) == f = [m \in 0 .. N |-> IF m = 0 THEN start ELSE
                            LET v == f[m - 1] IN IF v.at > Len(v.rest) THEN v ELSE Along(v, first)]
           g == CHOOSE f : Is(f)
<1>1. WalkFrom(pairs, k) = g[N].path
  BY DEF WalkFrom, Along
<1>2. \A f : Is(f) <=> f = [m \in 0 .. N |-> IF m = 0 THEN start ELSE Walked(f[m - 1], first)]
  BY DEF Walked
<1>3. Q \in SUBSET ((1 .. n) \X (1 .. n)) /\ pairs \in Seq(Q)
  <2>1. \A i \in 1 .. Len(pairs) : pairs[i] \in Q /\ pairs[i] \in (1 .. n) \X (1 .. n)
    BY DEF ToSet
  <2>2. \A x \in Q : x \in (1 .. n) \X (1 .. n)
    BY DEF ToSet
  <2>3. pairs \in Seq(Q)
    <3> HIDE DEF Q
    <3> QED
      BY <2>1, OfTheirs
  <2> QED
    BY <2>2, <2>3
<1>4. start \in W
  <2>1. pairs[k] \in Q /\ pairs[k] \in (1 .. n) \X (1 .. n)
    BY DEF ToSet
  <2>2. RemoveAt(pairs, k) \in Seq(Q)
    <3> HIDE DEF Q
    <3> QED
      BY <1>3, RemoveKeeps
  <2>3. PICK a \in 1 .. n, b \in 1 .. n : pairs[k] = <<a, b>>
    BY <2>1
  <2>4. <<a, b>> \in Seq(1 .. n) /\ Len(<<a, b>>) = 2 /\ <<a, b>>[1] = a /\ <<a, b>>[2] = b
    OBVIOUS
  <2>5. Chain(<<a, b>>, Q, n)
    <3> DEFINE path == <<a, b>>
    <3>1. path \in Seq(1 .. n) /\ Len(path) = 2 /\ <<path[1], path[2]>> \in Q
      BY <2>1, <2>3, <2>4
    <3> HIDE DEF path, Q
    <3>2. \A i \in 1 .. Len(path) - 1 : i = 1
      BY <3>1
    <3>3. Chain(path, Q, n)
      BY <3>1, <3>2 DEF Chain
    <3> QED
      BY <3>3 DEF path
  <2> HIDE DEF Q
  <2> QED
    BY <2>2, <2>3, <2>4, <2>5 DEF Walks
<1>5. N \in Nat
  OBVIOUS
<1>6. \A v \in W : Walked(v, first) \in W
  <2> HIDE DEF Q, first
  <2> QED
    BY <1>3, StepWalks
<1> HIDE DEF N, start, first, W, Is, g, Q
<1>7. step \in Steps(N, W)
  BY <1>6 DEF Steps
<1>8. PICK f : Follows(f, N, W, start, step)
  <2> HIDE DEF step
  <2> QED
    BY <1>4, <1>5, <1>7, RecursionUpTo
<1>9. Is(f)
  <2>1. ASSUME NEW m \in 1 .. N PROVE f[m] = Walked(f[m - 1], first)
    <3>1. m - 1 \in 0 .. N
      BY <1>5
    <3>2. f[m - 1] \in W
      BY <1>8, <3>1 DEF Follows
    <3> QED
      BY <1>8, <3>2 DEF Follows
  <2>2. \A m \in 0 .. N : f[m] = IF m = 0 THEN start ELSE Walked(f[m - 1], first)
    BY <1>5, <1>8, <2>1 DEF Follows
  <2>3. f = [m \in 0 .. N |-> IF m = 0 THEN start ELSE Walked(f[m - 1], first)]
    BY <1>8, <2>2 DEF Follows
  <2> QED
    BY <1>2, <2>3
<1>10. Is(g)
  BY <1>9 DEF g
<1>11. g = [m \in 0 .. N |-> IF m = 0 THEN start ELSE Walked(g[m - 1], first)]
  BY <1>2, <1>10
<1>12. g[0] = start /\ \A m \in 1 .. N : g[m] = Walked(g[m - 1], first)
  BY <1>5, <1>11
<1>13. g[N] \in W
  <2> DEFINE T == {m \in 0 .. N : g[m] \in W}
  <2>1. 0 \in T
    BY <1>4, <1>5, <1>12
  <2>2. ASSUME NEW m \in 1 .. N, m - 1 \in T PROVE m \in T
    <3>1. g[m - 1] \in W
      BY <2>2
    <3> QED
      BY <1>6, <1>12, <3>1
  <2> HIDE DEF T
  <2>3. 0 .. N \subseteq T
    BY <1>5, <2>1, <2>2, InductionUpTo
  <2> QED
    BY <1>5, <2>3 DEF T
<1> QED
  BY <1>1, <1>13 DEF W, Walks, Q

\* What findCompleteCycles finds comes back to where it began.
FirstBack(walks) == SelectInSeq(walks, LAMBDA path : path[1] = Last(path))
LEMMA FirstBackIsBack ==
  ASSUME NEW walks, Len(walks) \in Nat
  PROVE  FirstBack(walks) # 0 => /\ FirstBack(walks) \in 1 .. Len(walks)
                                 /\ walks[FirstBack(walks)][1] = Last(walks[FirstBack(walks)])
<1> DEFINE I == {i \in 1 .. Len(walks) : walks[i][1] = Last(walks[i])}
<1>1. FirstBack(walks) = IF I # {} THEN Min(I) ELSE 0
  BY DEF FirstBack, SelectInSeq
<1>2. I \in SUBSET Nat
  OBVIOUS
<1>3. I # {} => Min(I) \in I
  <2> HIDE DEF I
  <2> QED
    BY <1>2, Least DEF Min
<1>4. \A i \in I : i \in 1 .. Len(walks) /\ walks[i][1] = Last(walks[i])
  OBVIOUS
<1> HIDE DEF I
<1> QED
  BY <1>1, <1>3, <1>4

ComesBack(path, cycle, Q, n) ==
    /\ Chain(path, Q, n) /\ path[1] = path[Len(path)]
    /\ ToSet(cycle) = {path[i] : i \in 1 .. Len(path) - 1}
\* The cycle is such a chain without its end, which is where it began.
LEMMA CycleComesBack ==
  ASSUME NEW n \in Nat, NEW w \in Sorters(n), CompleteCycle(w) # <<>>
  PROVE  \E path : ComesBack(path, CompleteCycle(w), ToSet(w.reorderings), n)
<1> DEFINE pairs == w.reorderings
           walks == [j \in 1 .. Len(pairs) |-> WalkFrom(pairs, j)]
           k == FirstBack(walks)
           path == walks[k]
<1>1. pairs \in Seq((1 .. n) \X (1 .. n))
  BY DEF Sorters
<1>2. CompleteCycle(w) = IF k = 0 THEN <<>> ELSE Front(walks[k])
  BY DEF CompleteCycle, FirstBack
<1>3. Len(pairs) \in Nat /\ Len(walks) = Len(pairs)
  BY <1>1
<1>4. \A j \in 1 .. Len(pairs) : walks[j] = WalkFrom(pairs, j)
  OBVIOUS
<1> HIDE DEF pairs, walks
<1>5. k \in 1 .. Len(pairs) /\ path[1] = Last(path)
  BY <1>2, <1>3, FirstBackIsBack
<1> HIDE DEF k
<1>6. Chain(path, ToSet(pairs), n)
  BY <1>1, <1>4, <1>5, WalkChains
<1>7. CompleteCycle(w) = SubSeq(path, 1, Len(path) - 1)
  BY <1>2, <1>3, <1>5 DEF Front
<1> HIDE DEF path
<1>8. path \in Seq(1 .. n) /\ Len(path) \in Nat /\ Len(path) >= 2
  BY <1>6 DEF Chain
<1>9. ToSet(SubSeq(path, 1, Len(path) - 1)) = {path[i] : i \in 1 .. Len(path) - 1}
  <2> DEFINE q == SubSeq(path, 1, Len(path) - 1)
  <2>1. DOMAIN q = 1 .. Len(path) - 1 /\ \A i \in 1 .. Len(path) - 1 : q[i] = path[i]
    BY <1>8
  <2> HIDE DEF q
  <2>2. ToSet(q) = {path[i] : i \in 1 .. Len(path) - 1}
    BY <2>1 DEF ToSet
  <2> QED
    BY <2>2 DEF q
<1>10. ComesBack(path, CompleteCycle(w), ToSet(pairs), n)
  BY <1>5, <1>6, <1>7, <1>9 DEF ComesBack, Last
<1> QED
  BY <1>10 DEF pairs

\* The creates above an operation: nobody is above himself, and what is above what is
\* above is.
IsAbove(given, a, k) == a # 0 /\ \E d \in 1 .. Len(given) : Makers(given, k)[d] = a

LEMMA NoneAboveItself ==
  ASSUME NEW given, Len(given) \in Nat, MakersEnd(given), NEW k \in 1 .. Len(given)
  PROVE  ~IsAbove(given, k, k)
<1> DEFINE n == Len(given)
           up == Makers(given, k)
           T == {i \in 0 .. n : up[i] = k}
<1> SUFFICES ASSUME NEW d \in 1 .. n, up[d] = k PROVE FALSE
  BY DEF IsAbove
<1>1. up[0] = k
  BY MakersAbove
<1>2. ASSUME NEW i \in 0 .. n PROVE up[i] = IF d + i <= n THEN up[d + i] ELSE 0
  <2>1. d \in 0 .. n /\ Makers(given, k)[d] # 0 /\ Makers(given, k)[d] = k
    OBVIOUS
  <2>2. \A j \in 0 .. Len(given) : Makers(given, Makers(given, k)[d])[j] =
            IF d + j <= Len(given) THEN Makers(given, k)[d + j] ELSE 0
    BY <2>1, MakersGoOn
  <2> QED
    BY <2>1, <2>2
<1>3. n \in Nat
  OBVIOUS
<1> HIDE DEF n, up
<1>4. T \in SUBSET (0 .. n) /\ T # {}
  BY <1>1, <1>3
<1> HIDE DEF T
<1>5. PICK m \in T : \A i \in T : i <= m
  BY <1>3, <1>4, Greatest
<1>6. m \in 0 .. n /\ up[m] = k
  BY <1>5 DEF T
<1>7. d + m <= n /\ up[d + m] = k
  BY <1>2, <1>6
<1>8. d + m \in T
  BY <1>3, <1>6, <1>7 DEF T
<1> QED
  BY <1>3, <1>5, <1>6, <1>8

LEMMA AboveAbove ==
  ASSUME NEW given, Len(given) \in Nat, MakersEnd(given),
         NEW a \in 1 .. Len(given), NEW b \in 1 .. Len(given), NEW c \in 1 .. Len(given),
         IsAbove(given, a, b), IsAbove(given, b, c)
  PROVE  IsAbove(given, a, c)
<1> DEFINE n == Len(given)
           up == Makers(given, c)
<1>1. PICK d \in 1 .. n : Makers(given, b)[d] = a
  BY DEF IsAbove
<1>2. PICK e \in 1 .. n : up[e] = b
  BY DEF IsAbove
<1>3. \A j \in 0 .. n : Makers(given, b)[j] = IF e + j <= n THEN up[e + j] ELSE 0
  <2>1. e \in 0 .. n /\ Makers(given, c)[e] # 0 /\ Makers(given, c)[e] = b
    BY <1>2
  <2>2. \A j \in 0 .. Len(given) : Makers(given, Makers(given, c)[e])[j] =
            IF e + j <= Len(given) THEN Makers(given, c)[e + j] ELSE 0
    BY <2>1, MakersGoOn
  <2> QED
    BY <2>1, <2>2
<1>4. n \in Nat
  OBVIOUS
<1> HIDE DEF n, up
<1>5. Makers(given, b)[d] = IF e + d <= n THEN up[e + d] ELSE 0
  BY <1>3, <1>4
<1>6. e + d \in 1 .. n /\ up[e + d] = a
  BY <1>1, <1>2, <1>4, <1>5 DEF n
<1> QED
  BY <1>6 DEF IsAbove, n, up

\* The maker an operation is put after is a create, above it.
LEMMA AncestorIsAbove ==
  ASSUME NEW given, Len(given) \in Nat, NEW k \in 1 .. Len(given), NEW list, Ancestor(list, given, k) # 0
  PROVE  IsAbove(given, Ancestor(list, given, k), k) /\ given[Ancestor(list, given, k)].type = "create"
<1> DEFINE n == Len(given)
           up == Makers(given, k)
           late == {d \in 1 .. n : up[d] # 0 /\ HigherIndex(list, given, up[d], up[d - 1])}
           m == Max(late)
<1>1. Ancestor(list, given, k) = IF late = {} THEN 0 ELSE up[m]
  BY DEF Ancestor
<1>2. late \in SUBSET (0 .. n) /\ n \in Nat
  OBVIOUS
<1>3. \A d \in late : d \in 1 .. n /\ up[d] # 0
  OBVIOUS
<1>4. \A d \in 1 .. n : up[d] = IF up[d - 1] = 0 THEN 0 ELSE Maker(given, up[d - 1])
  BY MakersAbove
<1> HIDE DEF n, up, late
<1>5. late # {} /\ m \in late
  BY <1>1, <1>2, MaxOf
<1> HIDE DEF m
<1>6. m \in 1 .. n /\ up[m] # 0 /\ Ancestor(list, given, k) = up[m]
  BY <1>1, <1>3, <1>5
<1>7. up[m] = Maker(given, up[m - 1])
  BY <1>4, <1>6
<1>8. up[m] \in OfType(given, "create")
  BY <1>6, <1>7, MakerType
<1> QED
  BY <1>6, <1>8 DEF IsAbove, n, up, OfType

\* The second operations of the pairs of the rules; a create that is one of a create is
\* above it.
LEMMA SecondOfPair ==
  ASSUME NEW given, Len(given) \in Nat, NEW list, NEW a \in 1 .. Len(given), NEW b \in 1 .. Len(given),
         <<b, a>> \in Rules(list, given)
  PROVE  /\ given[a].type \in {"create", "delete", "move"}
         /\ given[a].type = "create" /\ given[b].type = "create" => IsAbove(given, a, b)
<1>1. CASE <<b, a>> \in CreateBeforeCreate(list, given)
  <2>1. a = Ancestor(list, given, b)
    BY <1>1 DEF CreateBeforeCreate
  <2> QED
    BY <2>1, AncestorIsAbove
<1>2. CASE <<b, a>> \notin CreateBeforeCreate(list, given)
  <2>1. \E f \in {"create", "delete", "edit", "move"}, s \in {"create", "delete", "move"} :
            <<b, a>> \in Pairs(given, f, s) /\ (f # "create" \/ s # "create")
    BY <1>2, RulePairs DEF Rules
  <2>2. PICK f \in {"create", "delete", "edit", "move"}, s \in {"create", "delete", "move"} :
            <<b, a>> \in Pairs(given, f, s) /\ (f # "create" \/ s # "create")
    BY <2>1
  <2>3. given[b].type = f /\ given[a].type = s
    BY <2>2 DEF Pairs, OfType
  <2> QED
    BY <2>2, <2>3
<1> QED
  BY <1>1, <1>2

\* A member of a set of operations is found.
LEMMA FirstIsFound ==
  ASSUME NEW n \in Nat, NEW S \in SUBSET (1 .. n), S # {}
  PROVE  FirstOf(S) \in S
<1>1. S \in SUBSET Nat /\ S \in SUBSET (0 .. n)
  OBVIOUS
<1>2. PICK l \in S : \A y \in S : l <= y
  BY <1>1, Least
<1>3. PICK g \in S : \A y \in S : y <= g
  BY <1>1, Greatest
<1>4. \E x \in S : \A y \in S \ {x} : Before(x, y)
  <2>1. CASE downward
    <3>1. \A y \in S \ {g} : Before(g, y)
      BY <1>1, <1>3, <2>1 DEF Before
    <3> QED
      BY <3>1
  <2>2. CASE ~downward
    <3>1. \A y \in S \ {l} : Before(l, y)
      BY <1>1, <1>2, <2>2 DEF Before
    <3> QED
      BY <3>1
  <2> QED
    BY <2>1, <2>2
<1> QED
  BY <1>4 DEF FirstOf

\* Creates alone do not come back to where they began: a cycle has a move or a delete.
LEMMA CycleHasChange ==
  ASSUME NEW given, Len(given) \in Nat, MakersEnd(given), NEW Q, NEW path, NEW cycle,
         ComesBack(path, cycle, Q, Len(given)),
         \A r \in Q : \E list \in Orders(Len(given)) : <<r[2], r[1]>> \in Rules(list, given)
  PROVE  \E k \in ToSet(cycle) : k \in 1 .. Len(given) /\ given[k].type \in {"delete", "move"}
<1> DEFINE n == Len(given)
           m == Len(path)
<1>1. /\ path \in Seq(1 .. n) /\ m \in Nat /\ m >= 2 /\ path[1] = path[m]
      /\ \A i \in 1 .. m - 1 : <<path[i], path[i + 1]>> \in Q
      /\ ToSet(cycle) = {path[i] : i \in 1 .. m - 1}
  BY DEF ComesBack, Chain
<1>2. \A i \in 1 .. m : path[i] \in 1 .. n
  BY <1>1
<1>3. ASSUME NEW i \in 1 .. m - 1
      PROVE  \E list : <<path[i + 1], path[i]>> \in Rules(list, given)
  <2> DEFINE r == <<path[i], path[i + 1]>>
  <2>1. r \in Q
    BY <1>1
  <2>2. \E list \in Orders(Len(given)) : <<r[2], r[1]>> \in Rules(list, given)
    BY <2>1
  <2> QED
    BY <2>2
<1> HIDE DEF m
<1> SUFFICES ASSUME \A i \in 1 .. m - 1 : given[path[i]].type \notin {"delete", "move"} PROVE FALSE
  <2>1. PICK i \in 1 .. m - 1 : given[path[i]].type \in {"delete", "move"}
    OBVIOUS
  <2>2. path[i] \in ToSet(cycle) /\ path[i] \in 1 .. n
    BY <1>1, <1>2
  <2> QED
    BY <2>1, <2>2
<1>4. ASSUME NEW i \in 1 .. m - 1
      PROVE  /\ path[i] \in 1 .. n /\ path[i + 1] \in 1 .. n
             /\ given[path[i]].type = "create"
             /\ given[path[i + 1]].type = "create" => IsAbove(given, path[i], path[i + 1])
  <2>1. i \in 1 .. m /\ i + 1 \in 1 .. m
    BY <1>1
  <2>2. path[i] \in 1 .. n /\ path[i + 1] \in 1 .. n
    BY <1>2, <2>1
  <2>3. PICK list : <<path[i + 1], path[i]>> \in Rules(list, given)
    BY <1>3
  <2> QED
    BY <2>2, <2>3, SecondOfPair
<1>5. \A i \in 1 .. m : path[i] \in 1 .. n /\ given[path[i]].type = "create"
  <2>1. given[path[1]].type = "create" /\ given[path[m]].type = "create"
    BY <1>1, <1>4
  <2> QED
    BY <1>1, <1>2, <1>4, <2>1
<1>6. \A i \in 1 .. m - 1 : IsAbove(given, path[i], path[i + 1])
  BY <1>1, <1>4, <1>5
<1> DEFINE T == {j \in 0 .. m : j >= 2 => IsAbove(given, path[1], path[j])}
<1>7. 0 .. m \subseteq T
  <2>1. 0 \in T
    BY <1>1
  <2>2. ASSUME NEW j \in 1 .. m, j - 1 \in T PROVE j \in T
    <3>1. CASE j = 1
      BY <3>1
    <3>2. CASE j = 2
      <4>1. 1 \in 1 .. m - 1 /\ 1 + 1 = 2
        BY <1>1
      <4>2. IsAbove(given, path[1], path[2])
        BY <1>6, <4>1
      <4> QED
        BY <3>2, <4>2
    <3>3. CASE j > 2
      <4> DEFINE i == j - 1
      <4>1. i \in 1 .. m - 1 /\ i >= 2 /\ j = i + 1 /\ i \in 1 .. m /\ 1 \in 1 .. m
        BY <1>1, <3>3
      <4>2. IsAbove(given, path[1], path[i])
        BY <2>2, <4>1
      <4> HIDE DEF i
      <4>3. IsAbove(given, path[i], path[j])
        BY <1>6, <4>1
      <4>4. path[1] \in 1 .. n /\ path[i] \in 1 .. n /\ path[j] \in 1 .. n
        BY <1>5, <4>1
      <4>5. IsAbove(given, path[1], path[j])
        BY <4>2, <4>3, <4>4, AboveAbove
      <4> QED
        BY <4>5
    <3> QED
      BY <3>1, <3>2, <3>3
  <2> HIDE DEF T
  <2> QED
    BY <1>1, <2>1, <2>2, InductionUpTo
<1>8. IsAbove(given, path[1], path[m])
  BY <1>1, <1>7
<1>9. path[1] \in 1 .. n
  BY <1>1, <1>5
<1> QED
  BY <1>1, <1>8, <1>9, NoneAboveItself

\* A cycle that is found can be broken when what is moved or deleted has a counterpart.
LEMMA BrokenWhenFound ==
  ASSUME NEW given, Len(given) \in Nat, MakersEnd(given),
         \A k \in 1 .. Len(given) : given[k].type \in {"delete", "move"} =>
            Exists(CorrespondingInOtherTree(given[k].node))
  PROVE  CyclesAreBroken(given)
<1> DEFINE n == Len(given)
           w == Sorted(given)
           cycle == CompleteCycle(w)
<1> SUFFICES ASSUME cycle # <<>>
             PROVE  Exists(CorrespondingInOtherTree(given[Chosen(given, cycle)].node))
  BY DEF CyclesAreBroken
<1>1. /\ w \in Sorters(n)
      /\ \A r \in ToSet(w.reorderings) : \E list \in Orders(n) : <<r[2], r[1]>> \in Rules(list, given)
  BY SortedKeeps DEF SorterInv
<1> HIDE DEF w
<1>2. PICK path : ComesBack(path, cycle, ToSet(w.reorderings), n)
  BY <1>1, CycleComesBack
<1>3. ToSet(cycle) \in SUBSET (1 .. n)
  <2>1. path \in Seq(1 .. n) /\ ToSet(cycle) = {path[i] : i \in 1 .. Len(path) - 1}
    BY <1>2 DEF ComesBack, Chain
  <2>2. \A i \in 1 .. Len(path) - 1 : path[i] \in 1 .. n
    BY <2>1
  <2> QED
    BY <2>1, <2>2
<1> DEFINE deletes == {k \in ToSet(cycle) : given[k].type = "delete"}
           moves == {k \in ToSet(cycle) : given[k].type = "move"}
           S == IF deletes # {} THEN deletes ELSE moves
<1>4. \E k \in ToSet(cycle) : k \in 1 .. n /\ given[k].type \in {"delete", "move"}
  BY <1>1, <1>2, CycleHasChange
<1>5. S # {} /\ S \in SUBSET (1 .. n) /\ \A k \in S : given[k].type \in {"delete", "move"}
  BY <1>3, <1>4
<1>6. Chosen(given, cycle) = FirstOf(S)
  BY DEF Chosen
<1> HIDE DEF S, cycle
<1>7. FirstOf(S) \in S
  BY <1>5, FirstIsFound
<1> QED
  BY <1>5, <1>6, <1>7

-----------------------------------------------------------------------------
(* What is left of items when one is removed with what is under it.         *)

\* Every item is in the root or in an item.
HaveFolders(f) == \A k \in DOMAIN f : f[k].parent \in DOMAIN f \cup {Root}

\* The items above an item, with it: those of every set that has it and the folders
\* of its members.
Upward(f, S) == \A k \in S : f[k].parent # Root => f[k].parent \in S
Above(f, j) == {k \in DOMAIN f : \A S \in SUBSET DOMAIN f : j \in S /\ Upward(f, S) => k \in S}

Climbs(f, up) ==
    up = [j \in DOMAIN f |-> IF f[j].parent = Root THEN {j} ELSE {j} \cup up[f[j].parent]]

\* The recursion by which Under finds what is above an item is defined, even where items
\* are under themselves.
LEMMA AboveClimbs ==
  ASSUME NEW f, HaveFolders(f)
  PROVE  Climbs(f, [j \in DOMAIN f |-> Above(f, j)])
<1> DEFINE up == [j \in DOMAIN f |-> Above(f, j)]
<1> SUFFICES ASSUME NEW j \in DOMAIN f
             PROVE  Above(f, j) = IF f[j].parent = Root THEN {j} ELSE {j} \cup up[f[j].parent]
  <2>1. up = [j \in DOMAIN f |-> IF f[j].parent = Root THEN {j} ELSE {j} \cup up[f[j].parent]]
    OBVIOUS
  <2> QED
    BY <2>1 DEF Climbs
<1>1. j \in Above(f, j)
  BY DEF Above
<1>2. CASE f[j].parent = Root
  <2>1. {j} \in SUBSET DOMAIN f /\ j \in {j} /\ Upward(f, {j})
    BY <1>2 DEF Upward
  <2>2. Above(f, j) \subseteq {j}
    BY <2>1 DEF Above
  <2> QED
    BY <1>1, <1>2, <2>2
<1>3. CASE f[j].parent # Root
  <2> DEFINE p == f[j].parent
  <2>1. p \in DOMAIN f /\ up[p] = Above(f, p)
    BY <1>3 DEF HaveFolders
  <2>2. Above(f, p) \subseteq Above(f, j)
    BY <1>3, <2>1 DEF Above, Upward
  <2>3. Upward(f, {j} \cup Above(f, p))
    <3> SUFFICES ASSUME NEW k \in {j} \cup Above(f, p), f[k].parent # Root
                 PROVE  f[k].parent \in {j} \cup Above(f, p)
      BY DEF Upward
    <3>1. CASE k = j
      <4>1. p \in Above(f, p)
        BY <2>1 DEF Above
      <4> QED
        BY <3>1, <4>1
    <3>2. CASE k \in Above(f, p)
      <4>1. k \in DOMAIN f /\ f[k].parent \in DOMAIN f
        BY <3>2 DEF Above, HaveFolders
      <4>2. \A S \in SUBSET DOMAIN f : p \in S /\ Upward(f, S) => f[k].parent \in S
        BY <3>2 DEF Above, Upward
      <4> QED
        BY <4>1, <4>2 DEF Above
    <3> QED
      BY <3>1, <3>2
  <2>4. {j} \cup Above(f, p) \in SUBSET DOMAIN f
    BY DEF Above
  <2>5. Above(f, j) \subseteq {j} \cup Above(f, p)
    BY <2>3, <2>4 DEF Above
  <2> QED
    BY <1>1, <1>3, <2>1, <2>2, <2>5
<1> QED
  BY <1>2, <1>3

\* What is under i is what has i above it.
Lifts(f, i, up) ==
    /\ \A j \in DOMAIN f : up[j] = IF f[j].parent = Root THEN {j} ELSE {j} \cup up[f[j].parent]
    /\ Under(f, i) = {k \in DOMAIN f : k # i /\ i \in {Root} \cup up[k]}
LEMMA UnderIsBelow ==
  ASSUME NEW f, HaveFolders(f), NEW i
  PROVE  \E up : Lifts(f, i, up)
<1> DEFINE up == CHOOSE up : Climbs(f, up)
<1>1. Climbs(f, up)
  BY AboveClimbs
<1>2. Under(f, i) = {k \in DOMAIN f : k # i /\ i \in {Root} \cup up[k]}
  BY DEF Under, Climbs
<1> HIDE DEF up
<1>3. \A j \in DOMAIN f : up[j] = IF f[j].parent = Root THEN {j} ELSE {j} \cup up[f[j].parent]
  BY <1>1 DEF Climbs
<1>4. Lifts(f, i, up)
  BY <1>2, <1>3 DEF Lifts
<1> QED
  BY <1>4

\* Nothing that is left was in what is removed.
LEMMA LeftHaveFolders ==
  ASSUME NEW f, HaveFolders(f), NEW i
  PROVE  /\ DOMAIN Pruned(f, i) \subseteq DOMAIN f
         /\ \A k \in DOMAIN Pruned(f, i) : Pruned(f, i)[k] = f[k]
         /\ HaveFolders(Pruned(f, i))
<1>0. PICK up : Lifts(f, i, up)
  BY UnderIsBelow
<1>1. /\ \A j \in DOMAIN f : up[j] = IF f[j].parent = Root THEN {j} ELSE {j} \cup up[f[j].parent]
      /\ Under(f, i) = {k \in DOMAIN f : k # i /\ i \in {Root} \cup up[k]}
  BY <1>0 DEF Lifts
<1> DEFINE left == DOMAIN f \ ({i} \cup Under(f, i))
<1>2. Pruned(f, i) = [k \in left |-> f[k]]
  BY DEF Pruned
<1>3. ASSUME NEW k \in left, f[k].parent # Root PROVE f[k].parent \in left
  <2> DEFINE p == f[k].parent
  <2>1. p \in DOMAIN f /\ up[k] = {k} \cup up[p]
    BY <1>1, <1>3 DEF HaveFolders
  <2>2. p \in up[p]
    BY <1>1, <2>1
  <2>3. i # Root /\ i \notin up[k]
    BY <1>1, <1>3
  <2>4. p # i
    BY <2>1, <2>2, <2>3
  <2>5. p \notin Under(f, i)
    BY <1>1, <2>1, <2>3
  <2> QED
    BY <2>1, <2>4, <2>5
<1> HIDE DEF left
<1>4. \A k \in left : f[k].parent = Root \/ f[k].parent \in left
  BY <1>3
<1>5. left \subseteq DOMAIN f
  BY DEF left
<1> QED
  BY <1>2, <1>4, <1>5 DEF HaveFolders

-----------------------------------------------------------------------------
(* What the jobs do to the tree of a replica.                               *)

\* A removal, of anything, leaves a tree.
LEMMA PrunedTree ==
  ASSUME NEW f, IsTree(f), NEW i
  PROVE  IsTree(Pruned(f, i))
<1> DEFINE g == Pruned(f, i)
<1>0. HaveFolders(f)
  BY DEF IsTree, HaveFolders
<1>1. DOMAIN g \subseteq DOMAIN f /\ HaveFolders(g)
  BY <1>0, LeftHaveFolders
<1>2. \A k \in DOMAIN g : g[k] = f[k]
  BY <1>0, LeftHaveFolders
<1> SUFFICES IsTree(g)
  OBVIOUS
<1> HIDE DEF g
<1>3. \A k \in DOMAIN g : /\ k \in Ids /\ DOMAIN g[k] = {"parent", "name", "dir", "ver"}
                          /\ g[k].parent = Root \/ (g[k].parent \in DOMAIN g /\ g[g[k].parent].dir)
  BY <1>1, <1>2 DEF IsTree, HaveFolders
<1>4. \A k, j \in DOMAIN g : g[k].parent = g[j].parent /\ g[k].name = g[j].name => k = j
  BY <1>1, <1>2 DEF IsTree
<1>5. \A S \in SUBSET DOMAIN g : S # {} => \E k \in S : g[k].parent \notin S
  <2> TAKE S \in SUBSET DOMAIN g
  <2> HAVE S # {}
  <2>1. S \in SUBSET DOMAIN f
    BY <1>1
  <2>2. PICK k \in S : f[k].parent \notin S
    BY <2>1 DEF IsTree
  <2>3. g[k] = f[k]
    BY <1>2
  <2> QED
    BY <2>2, <2>3
<1> QED
  BY <1>3, <1>4, <1>5 DEF IsTree

\* A new item goes into a folder, where its name is free.
LEMMA GrownTree ==
  ASSUME NEW f, IsTree(f), NEW i \in Ids \ DOMAIN f,
         NEW item, DOMAIN item = {"parent", "name", "dir", "ver"},
         item.parent = Root \/ (item.parent \in DOMAIN f /\ f[item.parent].dir),
         \A k \in DOMAIN f : ~(f[k].parent = item.parent /\ f[k].name = item.name)
  PROVE  IsTree(Put(f, i, item))
<1> DEFINE g == Put(f, i, item)
<1>1. DOMAIN g = {i} \cup DOMAIN f /\ g[i] = item /\ \A k \in DOMAIN f : g[k] = f[k]
  BY DEF Put
<1> SUFFICES IsTree(g)
  OBVIOUS
<1> HIDE DEF g
<1>2. \A k \in DOMAIN g : /\ k \in Ids /\ DOMAIN g[k] = {"parent", "name", "dir", "ver"}
                          /\ g[k].parent = Root \/ (g[k].parent \in DOMAIN g /\ g[g[k].parent].dir)
  BY <1>1 DEF IsTree
<1>3. \A k, j \in DOMAIN g : g[k].parent = g[j].parent /\ g[k].name = g[j].name => k = j
  BY <1>1 DEF IsTree
<1>4. Root \notin DOMAIN f
  BY DEF IsTree, Ids, Root
<1>5. \A k \in DOMAIN f : f[k].parent # i
  BY DEF IsTree, Ids, Root
<1>6. \A S \in SUBSET DOMAIN g : S # {} => \E k \in S : g[k].parent \notin S
  <2> TAKE S \in SUBSET DOMAIN g
  <2> HAVE S # {}
  <2> DEFINE R == S \ {i}
  <2>1. R \in SUBSET DOMAIN f
    BY <1>1
  <2>2. CASE R = {}
    <3>1. i \in S /\ g[i].parent # i /\ S = {i}
      BY <1>1, <2>2 DEF Ids, Root
    <3> QED
      BY <3>1
  <2>3. CASE R # {}
    <3>1. PICK k \in R : f[k].parent \notin R
      BY <2>1, <2>3 DEF IsTree
    <3>2. g[k] = f[k] /\ f[k].parent # i
      BY <1>1, <1>5, <2>1
    <3> QED
      BY <3>1, <3>2
  <2> QED
    BY <2>2, <2>3
<1> QED
  BY <1>2, <1>3, <1>6 DEF IsTree

\* A move goes into a folder that is not under what moves, where the name is free.
LEMMA MovedTree ==
  ASSUME NEW f, IsTree(f), NEW i \in DOMAIN f, NEW to, NEW name,
         to = Root \/ (to \in DOMAIN f /\ f[to].dir),
         to \notin {i} \cup Under(f, i),
         \A k \in DOMAIN f \ {i} : ~(f[k].parent = to /\ f[k].name = name)
  PROVE  IsTree([f EXCEPT ![i].parent = to, ![i].name = name])
<1> DEFINE g == [f EXCEPT ![i].parent = to, ![i].name = name]
<1>0. HaveFolders(f) /\ Root \notin DOMAIN f
  BY DEF IsTree, HaveFolders, Ids, Root
<1>1. /\ DOMAIN g = DOMAIN f
      /\ \A k \in DOMAIN f \ {i} : g[k] = f[k]
      /\ \A k \in DOMAIN f : DOMAIN g[k] = {"parent", "name", "dir", "ver"} /\ g[k].dir = f[k].dir
      /\ g[i].parent = to /\ g[i].name = name
  <2>1. DOMAIN g = DOMAIN f
    OBVIOUS
  <2>2. \A k \in DOMAIN f \ {i} : g[k] = f[k]
    OBVIOUS
  <2>3. DOMAIN f[i] = {"parent", "name", "dir", "ver"}
    BY DEF IsTree
  <2>4. g[i] = [f[i] EXCEPT !.parent = to, !.name = name]
    OBVIOUS
  <2>5. /\ DOMAIN g[i] = DOMAIN f[i] /\ g[i].dir = f[i].dir
        /\ g[i].parent = to /\ g[i].name = name
    BY <2>3, <2>4
  <2>6. \A k \in DOMAIN f : DOMAIN f[k] = {"parent", "name", "dir", "ver"}
    BY DEF IsTree
  <2> HIDE DEF g
  <2> QED
    BY <2>1, <2>2, <2>3, <2>5, <2>6
<1> SUFFICES IsTree(g)
  OBVIOUS
<1> HIDE DEF g
<1>2. \A k \in DOMAIN g : /\ k \in Ids /\ DOMAIN g[k] = {"parent", "name", "dir", "ver"}
                          /\ g[k].parent = Root \/ (g[k].parent \in DOMAIN g /\ g[g[k].parent].dir)
  BY <1>1 DEF IsTree
<1>3. \A k, j \in DOMAIN g : g[k].parent = g[j].parent /\ g[k].name = g[j].name => k = j
  BY <1>1 DEF IsTree
<1>4. PICK up : Lifts(f, i, up)
  BY <1>0, UnderIsBelow
<1>5. \A S \in SUBSET DOMAIN g : S # {} => \E k \in S : g[k].parent \notin S
  <2> SUFFICES ASSUME NEW S \in SUBSET DOMAIN f, S # {}, \A k \in S : g[k].parent \in S
               PROVE  FALSE
    BY <1>1
  \* The members that are not in what moves would be in each other before the move.
  <2> DEFINE R == {k \in S : i \notin up[k]}
  <2>1. i \in S
    <3>1. PICK k \in S : f[k].parent \notin S
      BY DEF IsTree
    <3> QED
      BY <1>1, <3>1
  <2>2. to \in S /\ to \in DOMAIN f
    BY <1>1, <2>1
  <2>3. to \in R
    BY <1>4, <2>2 DEF Lifts
  <2>4. \A k \in R : f[k].parent \in R
    <3> TAKE k \in R
    <3>1. k # i
      BY <1>4 DEF Lifts
    <3>2. f[k].parent \in S
      BY <1>1, <3>1
    <3>3. f[k].parent # Root
      BY <1>0, <3>2
    <3>4. up[k] = {k} \cup up[f[k].parent]
      BY <1>4, <3>3 DEF Lifts
    <3> QED
      BY <3>2, <3>4
  <2>5. R \in SUBSET DOMAIN f
    OBVIOUS
  <2> HIDE DEF R
  <2> QED
    BY <2>3, <2>4, <2>5 DEF IsTree
<1> QED
  BY <1>2, <1>3, <1>5 DEF IsTree

\* An edit.
LEMMA WrittenTree ==
  ASSUME NEW f, IsTree(f), NEW i, NEW ver
  PROVE  IsTree([f EXCEPT ![i].ver = ver])
<1> DEFINE g == [f EXCEPT ![i].ver = ver]
<1>1. /\ DOMAIN g = DOMAIN f
      /\ \A k \in DOMAIN f : /\ DOMAIN g[k] = {"parent", "name", "dir", "ver"}
                             /\ g[k].parent = f[k].parent /\ g[k].name = f[k].name
                             /\ g[k].dir = f[k].dir
  BY DEF IsTree
<1> SUFFICES IsTree(g)
  OBVIOUS
<1> HIDE DEF g
<1>2. \A k \in DOMAIN g : /\ k \in Ids /\ DOMAIN g[k] = {"parent", "name", "dir", "ver"}
                          /\ g[k].parent = Root \/ (g[k].parent \in DOMAIN g /\ g[g[k].parent].dir)
  BY <1>1 DEF IsTree
<1>3. \A k, j \in DOMAIN g : g[k].parent = g[j].parent /\ g[k].name = g[j].name => k = j
  BY <1>1 DEF IsTree
<1>4. \A S \in SUBSET DOMAIN g : S # {} => \E k \in S : g[k].parent \notin S
  <2> TAKE S \in SUBSET DOMAIN g
  <2> HAVE S # {}
  <2>1. PICK k \in S : f[k].parent \notin S
    BY <1>1 DEF IsTree
  <2> QED
    BY <1>1, <2>1
<1> QED
  BY <1>2, <1>3, <1>4 DEF IsTree
-----------------------------------------------------------------------------
(* What the operations do to the rows.                                      *)

\* A removal with what is under a row, an insertion that meets the constraints, a
\* move to a row, and an edit.
LEMMA PrunedRows ==
  ASSUME NEW d, AreRows(d), NEW i
  PROVE  AreRows(Pruned(d, i))
<1> DEFINE g == Pruned(d, i)
<1>0. HaveFolders(d)
  BY DEF AreRows, HaveFolders
<1>1. DOMAIN g \subseteq DOMAIN d /\ HaveFolders(g)
  BY <1>0, LeftHaveFolders
<1>2. \A k \in DOMAIN g : g[k] = d[k]
  BY <1>0, LeftHaveFolders
<1> SUFFICES AreRows(g)
  OBVIOUS
<1> HIDE DEF g
<1>3. \A r \in DOMAIN g : /\ {r, g[r].remote} \subseteq Ids
                          /\ DOMAIN g[r] = {"remote", "parent", "name", "dir", "ver"}
                          /\ g[r].parent \in DOMAIN g \cup {Root}
  BY <1>1, <1>2 DEF AreRows, HaveFolders
<1>4. \A r, t \in DOMAIN g : g[r].remote = g[t].remote => r = t
  BY <1>1, <1>2 DEF AreRows
<1> QED
  BY <1>3, <1>4 DEF AreRows

LEMMA GrownRows ==
  ASSUME NEW d, AreRows(d), NEW l, NEW row, Insertable(d, l, row),
         DOMAIN row = {"remote", "parent", "name", "dir", "ver"}
  PROVE  AreRows(Put(d, l, row))
<1> DEFINE g == Put(d, l, row)
<1>1. DOMAIN g = DOMAIN d \cup {l} /\ g[l] = row /\ \A k \in DOMAIN d \ {l} : g[k] = d[k]
  BY DEF Put
<1>2. l \notin DOMAIN d
  BY DEF Insertable
<1> SUFFICES AreRows(g)
  OBVIOUS
<1> HIDE DEF g
<1>3. \A r \in DOMAIN g : /\ {r, g[r].remote} \subseteq Ids
                          /\ DOMAIN g[r] = {"remote", "parent", "name", "dir", "ver"}
                          /\ g[r].parent \in DOMAIN g \cup {Root}
  BY <1>1, <1>2 DEF AreRows, Insertable
<1>4. \A r, t \in DOMAIN g : g[r].remote = g[t].remote => r = t
  BY <1>1, <1>2 DEF AreRows, Insertable
<1> QED
  BY <1>3, <1>4 DEF AreRows

LEMMA MovedRows ==
  ASSUME NEW d, AreRows(d), NEW i \in DOMAIN d, NEW to \in DOMAIN d \cup {Root}, NEW name
  PROVE  AreRows([d EXCEPT ![i].parent = to, ![i].name = name])
<1> DEFINE g == [d EXCEPT ![i].parent = to, ![i].name = name]
<1>1. DOMAIN g = DOMAIN d
  OBVIOUS
<1>2. \A k \in DOMAIN d \ {i} : g[k] = d[k]
  OBVIOUS
<1>3. g[i] = [d[i] EXCEPT !.parent = to, !.name = name]
  OBVIOUS
<1>4. \A k \in DOMAIN d : DOMAIN d[k] = {"remote", "parent", "name", "dir", "ver"}
  BY DEF AreRows
<1>5. DOMAIN g[i] = DOMAIN d[i] /\ g[i].parent = to /\ g[i].remote = d[i].remote
  BY <1>3, <1>4
<1> SUFFICES AreRows(g)
  OBVIOUS
<1> HIDE DEF g
<1>6. \A r \in DOMAIN g : g[r].remote = d[r].remote /\ DOMAIN g[r] = DOMAIN d[r]
  BY <1>1, <1>2, <1>5
<1>7. \A r \in DOMAIN g : g[r].parent \in DOMAIN g \cup {Root}
  BY <1>1, <1>2, <1>5 DEF AreRows
<1> QED
  BY <1>1, <1>6, <1>7 DEF AreRows

LEMMA EditedRows ==
  ASSUME NEW d, AreRows(d), NEW i, NEW ver
  PROVE  AreRows([d EXCEPT ![i].ver = ver])
<1> DEFINE g == [d EXCEPT ![i].ver = ver]
<1>1. /\ DOMAIN g = DOMAIN d
      /\ \A r \in DOMAIN d : /\ g[r].remote = d[r].remote /\ DOMAIN g[r] = DOMAIN d[r]
                             /\ g[r].parent = d[r].parent
  BY DEF AreRows
<1> SUFFICES AreRows(g)
  OBVIOUS
<1> HIDE DEF g
<1> QED
  BY <1>1 DEF AreRows

-----------------------------------------------------------------------------
(* Nodes stay in their trees, files or folders.                             *)

\* The nodes of a tree are in another one, what they were.
StayIn(f, g) ==
    \A i \in DOMAIN f :
        /\ i \in DOMAIN g
        /\ "dir" \in DOMAIN f[i] => "dir" \in DOMAIN g[i] /\ g[i].dir = f[i].dir
Stay(t, u) == DOMAIN t = Sides /\ DOMAIN u = Sides /\ \A s \in Sides : StayIn(t[s], u[s])

\* Removed nodes only leave the tree by their status (deleteNode); others are added or
\* written.
LEMMA StayStep ==
  ASSUME NEW t, NEW u, Stay(t, u), NEW s, NEW g, s \in Sides => StayIn(u[s], g)
  PROVE  Stay(t, [u EXCEPT ![s] = g])
<1> DEFINE v == [u EXCEPT ![s] = g]
<1>1. DOMAIN v = Sides /\ \A r \in Sides : v[r] = IF r = s THEN g ELSE u[r]
  BY DEF Stay
<1> HIDE DEF v
<1>2. \A r \in Sides : StayIn(t[r], v[r])
  <2> TAKE r \in Sides
  <2>1. StayIn(t[r], u[r])
    BY DEF Stay
  <2>2. CASE r = s
    BY <1>1, <2>1, <2>2 DEF StayIn
  <2> QED
    BY <1>1, <2>1, <2>2
<1>3. Stay(t, v)
  BY <1>1, <1>2 DEF Stay
<1> QED
  BY <1>3 DEF v

LEMMA StayRemoved ==
  ASSUME NEW f, NEW i
  PROVE  StayIn(f, Removed(f, i))
<1> DEFINE gone == {i} \cup Under([k \in DOMAIN f \ {Root} |-> f[k]], i)
           g == [k \in DOMAIN f |-> IF k \in gone THEN [f[k] EXCEPT !.in = FALSE] ELSE f[k]]
<1>1. Removed(f, i) = g
  BY DEF Removed
<1> HIDE DEF gone
<1>2. \A k \in DOMAIN f : k \in DOMAIN g /\ DOMAIN g[k] = DOMAIN f[k]
                          /\ ("dir" \in DOMAIN f[k] => g[k].dir = f[k].dir)
  OBVIOUS
<1> HIDE DEF g
<1> QED
  BY <1>1, <1>2 DEF StayIn

LEMMA StayPut ==
  ASSUME NEW f, NEW i, NEW x, i \notin DOMAIN f
  PROVE  StayIn(f, Put(f, i, x))
<1> DEFINE g == Put(f, i, x)
<1>1. \A k \in DOMAIN f : k \in DOMAIN g /\ g[k] = f[k]
  BY DEF Put
<1> HIDE DEF g
<1>2. StayIn(f, g)
  BY <1>1 DEF StayIn
<1> QED
  BY <1>2 DEF g

\* One field of a node is written.
Marked(f, i, x, v) == [f EXCEPT ![i][x] = v]
LEMMA StayMarked ==
  ASSUME NEW f, NEW i, NEW x, NEW v, x # "dir"
  PROVE  StayIn(f, Marked(f, i, x, v))
<1> DEFINE g == Marked(f, i, x, v)
<1>1. \A k \in DOMAIN f : k \in DOMAIN g /\ DOMAIN g[k] = DOMAIN f[k]
                          /\ ("dir" \in DOMAIN f[k] => g[k].dir = f[k].dir)
  BY DEF Marked
<1> HIDE DEF g
<1>2. StayIn(f, g)
  BY <1>1 DEF StayIn
<1> QED
  BY <1>2 DEF g

-----------------------------------------------------------------------------
(* What an operation makes of the world.                                    *)

\* Two trees and a database, and the nodes of the update trees.
AreTrees(g) == DOMAIN g = Sides /\ \A s \in Sides : IsTree(g[s])
Sound(w) ==
    /\ DOMAIN w = {"fs", "db", "tree", "outcome"}
    /\ AreTrees(w.fs) /\ AreRows(w.db) /\ Stay(tree, w.tree) /\ w.outcome \in Outcomes

\* To begin with.
LEMMA SoundWorld ==
  ASSUME AreTrees(fs), AreRows(db), DOMAIN tree = Sides
  PROVE  Sound(World) /\ Sound(Failed) /\ Sound(Ignored)
<1>1. Stay(tree, tree)
  BY DEF Stay, StayIn
<1> QED
  BY <1>1 DEF Sound, World, Failed, Ignored, Outcomes

\* What is changed in a world.
LEMMA SoundOutcome ==
  ASSUME NEW w, Sound(w), NEW o \in Outcomes
  PROVE  Sound([w EXCEPT !.outcome = o])
  BY DEF Sound

LEMMA SoundDb ==
  ASSUME NEW w, Sound(w), NEW d, AreRows(d)
  PROVE  Sound([w EXCEPT !.db = d])
  BY DEF Sound

LEMMA SoundTree ==
  ASSUME NEW w, Sound(w), NEW s, NEW g, s \in Sides => StayIn(w.tree[s], g)
  PROVE  Sound([w EXCEPT !.tree[s] = g])
<1> DEFINE u == [w.tree EXCEPT ![s] = g]
           v == [w EXCEPT !.tree[s] = g]
<1>1. Stay(tree, u)
  BY StayStep DEF Sound
<1>2. v = [w EXCEPT !.tree = u]
  BY DEF Sound
<1> HIDE DEF u
<1> QED
  BY <1>1, <1>2 DEF Sound

\* A field of a node.
Noted(w, s, i, x, v) == [w EXCEPT !.tree[s][i][x] = v]
LEMMA SoundNoted ==
  ASSUME NEW w, Sound(w), NEW s, NEW i, NEW x, NEW v, x # "dir"
  PROVE  Sound(Noted(w, s, i, x, v))
<1> DEFINE g == Marked(w.tree[s], i, x, v)
<1>1. StayIn(w.tree[s], g)
  BY StayMarked
<1>2. Noted(w, s, i, x, v) = [w EXCEPT !.tree[s] = g]
  BY DEF Noted, Marked
<1> HIDE DEF g
<1> QED
  BY <1>1, <1>2, SoundTree

LEMMA SoundNumbered ==
  ASSUME NEW w, Sound(w), NEW n, NEW row
  PROVE  Sound(Numbered(w, n, row))
<1>1. Numbered(w, n, row) = Noted(w, n[1], n[2], "idb", row)
  BY DEF Numbered, Noted
<1> QED
  BY <1>1, SoundNoted

LEMMA SoundFs ==
  ASSUME NEW w, Sound(w), NEW t, NEW f, t \in Sides => IsTree(f)
  PROVE  Sound([w EXCEPT !.fs[t] = f])
<1> DEFINE g == [w.fs EXCEPT ![t] = f]
           v == [w EXCEPT !.fs[t] = f]
<1>1. AreTrees(g)
  BY DEF AreTrees, Sound
<1>2. v = [w EXCEPT !.fs = g]
  BY DEF Sound
<1> HIDE DEF g
<1> QED
  BY <1>1, <1>2 DEF Sound

\* Nodes and rows that are removed or added.
LEMMA SoundWithoutNode ==
  ASSUME NEW w, Sound(w), NEW n
  PROVE  Sound(WithoutNode(w, n))
  BY StayRemoved, SoundTree DEF WithoutNode

LEMMA SoundRemovedBoth ==
  ASSUME NEW w, Sound(w), NEW n, NEW m
  PROVE  Sound(RemovedBoth(w, n, m))
  BY SoundWithoutNode DEF RemovedBoth

LEMMA SoundBlocked ==
  ASSUME AreTrees(fs), AreRows(db), DOMAIN tree = Sides, NEW op
  PROVE  Sound(Blocked(op))
<1>1. Sound(RemovedBoth(World, op.node, op.other))
  BY SoundWorld, SoundRemovedBoth
<1> QED
  BY <1>1, SoundOutcome DEF Blocked, Outcomes

LEMMA SoundWithoutRow ==
  ASSUME AreRows(db), NEW row
  PROVE  AreRows(WithoutRow(row))
  BY PrunedRows DEF WithoutRow

LEMMA SoundInserted ==
  ASSUME AreRows(db), NEW w, Sound(w), NEW l, NEW row,
         DOMAIN row = {"remote", "parent", "name", "dir", "ver"}
  PROVE  Sound(Inserted(w, l, row))
<1> DEFINE rows == IF Insertable(db, l, row) THEN db ELSE WithoutRow(RowOf(Remote, row.remote))
<1>1. AreRows(rows)
  BY SoundWithoutRow
<1>2. Inserted(w, l, row) = IF Insertable(rows, l, row) THEN [w EXCEPT !.db = Put(rows, l, row)]
                            ELSE [w EXCEPT !.db = rows, !.outcome = "failed"]
  BY DEF Inserted
<1> HIDE DEF rows
<1>3. CASE Insertable(rows, l, row)
  BY <1>1, <1>2, <1>3, GrownRows, SoundDb
<1>4. CASE ~Insertable(rows, l, row)
  BY <1>1, <1>2, <1>4 DEF Sound, Outcomes
<1> QED
  BY <1>3, <1>4

LEMMA SoundMovedRow ==
  ASSUME AreRows(db), NEW w, Sound(w), w.db = db, NEW op
  PROVE  Sound(MovedRow(w, op))
<1> DEFINE m == IF op.other = NoNode THEN op.node ELSE op.other
           folder == IF op.newParent # NoNode THEN op.newParent
                     ELSE IF op.other = NoNode THEN Parent(m)
                     ELSE CorrespondingInOtherTree(Parent(op.node))
           row == Node(m).idb
           to == Node(folder).idb
           d == [db EXCEPT ![row].parent = to, ![row].name = op.newName]
           rows == [w EXCEPT !.db[row].parent = to, !.db[row].name = op.newName]
           failed == [w EXCEPT !.outcome = "failed"]
<1>1. MovedRow(w, op) =
        IF row \notin DOMAIN db \/ folder = NoNode \/ to \notin DOMAIN db \cup {Root}
        THEN failed
        ELSE IF op.omit THEN rows
        ELSE [rows EXCEPT !.tree[m[1]][m[2]].parent = folder[2],
                          !.tree[m[1]][m[2]].name = op.newName]
  BY DEF MovedRow
<1>2. Sound(failed)
  BY SoundOutcome DEF Outcomes
<1>3. ASSUME row \in DOMAIN db, to \in DOMAIN db \cup {Root}
      PROVE  Sound(rows)
  <2> HIDE DEF row, to
  <2>1. AreRows(d)
    BY <1>3, MovedRows
  <2>2. rows = [w EXCEPT !.db = d]
    BY DEF Sound
  <2> HIDE DEF d, rows
  <2> QED
    BY <2>1, <2>2, SoundDb
<1> HIDE DEF rows, failed, m, row, to, folder
<1>4. ASSUME Sound(rows)
      PROVE  Sound([rows EXCEPT !.tree[m[1]][m[2]].parent = folder[2],
                                !.tree[m[1]][m[2]].name = op.newName])
  <2>1. Sound(Noted(rows, m[1], m[2], "parent", folder[2]))
    BY <1>4, SoundNoted
  <2>2. Sound(Noted(Noted(rows, m[1], m[2], "parent", folder[2]), m[1], m[2], "name", op.newName))
    BY <2>1, SoundNoted
  <2> QED
    BY <2>2 DEF Noted
<1> QED
  BY <1>1, <1>2, <1>3, <1>4

LEMMA SoundMovedInConflict ==
  ASSUME AreRows(db), NEW w, Sound(w), w.db = db, NEW op
  PROVE  Sound(MovedInConflict(w, op))
<1> DEFINE c == op.conflict
           row == RowOf(Local, LocalNode(c)[2])
           forgotten == RemovedBoth(w, LocalNode(c), RemoteNode(c))
<1>1. Sound(forgotten)
  BY SoundRemovedBoth
<1>2. Sound([forgotten EXCEPT !.db = WithoutRow(row)])
  BY <1>1, SoundWithoutRow, SoundDb
<1>3. Sound(MovedRow(w, op))
  BY SoundMovedRow
<1>4. MovedInConflict(w, op) \in
        {forgotten, [forgotten EXCEPT !.db = WithoutRow(row)], w, MovedRow(w, op)}
  BY DEF MovedInConflict
<1> HIDE DEF forgotten, row
<1> QED
  BY <1>1, <1>2, <1>3, <1>4

LEMMA SoundDeletedRow ==
  ASSUME AreRows(db), NEW w, Sound(w), NEW op
  PROVE  Sound(DeletedRow(w, op))
<1> DEFINE row == Node(op.node).idb
           forgotten == RemovedBoth(w, op.node, op.other)
<1>1. Sound(forgotten)
  BY SoundRemovedBoth
<1>2. Sound([forgotten EXCEPT !.db = WithoutRow(row)])
  BY <1>1, SoundWithoutRow, SoundDb
<1>3. Sound([w EXCEPT !.outcome = "failed"])
  BY SoundOutcome DEF Outcomes
<1> QED
  BY <1>2, <1>3 DEF DeletedRow

\* A move the drive refuses.
LEMMA SoundRefused ==
  ASSUME AreTrees(fs), AreRows(db), DOMAIN tree = Sides, NEW op
  PROVE  Sound(Refused(op))
<1> DEFINE item == OnDisk(Path(op.node))
           left == IF item = None THEN fs[Local] ELSE Pruned(fs[Local], item)
           w == [World EXCEPT !.fs[Local] = IF item = None THEN @ ELSE Pruned(@, item),
                              !.outcome = "refused"]
<1>1. IsTree(left)
  BY PrunedTree DEF AreTrees, Sides
<1>2. w = [[World EXCEPT !.fs[Local] = left] EXCEPT !.outcome = "refused"]
  BY DEF World
<1>3. Sound([World EXCEPT !.fs[Local] = left])
  BY <1>1, SoundWorld, SoundFs
<1>4. Sound(w)
  <2> HIDE DEF w, left
  <2> QED
    BY <1>2, <1>3, SoundOutcome DEF Outcomes
<1>5. w.db = db
  BY DEF World
<1>6. Refused(op) = IF Node(op.node).idb \notin DOMAIN db THEN w ELSE DeletedRow(w, op)
  BY DEF Refused
<1> HIDE DEF w
<1>7. Sound(DeletedRow(w, op))
  BY <1>4, SoundDeletedRow
<1> QED
  BY <1>4, <1>6, <1>7

\* A new id is one no item has.
LEMMA NewIdIsFree ==
  ASSUME NEW s \in Sides, IdsLeft(s), MaxId \in Nat
  PROVE  NewId(s) \in Ids \ (DOMAIN fs[s] \cup DOMAIN tree[s])
<1> DEFINE free == Ids \ UsedIds(s)
<1>1. free \in SUBSET Nat /\ free # {}
  BY DEF IdsLeft, Ids
<1>2. \E x \in free : \A y \in free : x <= y
  BY <1>1, Least
<1>3. NewId(s) = CHOOSE x \in free : \A y \in free : x <= y
  BY DEF NewId, Min
<1> HIDE DEF free
<1>4. NewId(s) \in free
  BY <1>2, <1>3
<1> QED
  BY <1>4 DEF free, UsedIds

\* A place is a folder of the target where the name is free.
LEMMA PlaceIsFree ==
  ASSUME NEW t, NEW folder, NEW name, Place(t, folder, name) # None
  PROVE  /\ IsFolder(t, Place(t, folder, name))
         /\ \A i \in DOMAIN fs[t] :
                ~(fs[t][i].parent = Place(t, folder, name) /\ fs[t][i].name = name)
  BY DEF Place

\* A transfer of a new item, or its row alone.
LEMMA SoundCreate ==
  ASSUME AreTrees(fs), AreRows(db), DOMAIN tree = Sides,
         \A s \in Sides : IdsLeft(s), MaxId \in Nat, NEW op
  PROVE  Sound(Create(op))
<1> DEFINE n == op.node
           t == op.target
           folder == TargetParent(n)
           source == IF t = Remote /\ ~op.omit THEN OnDisk(Path(n)) ELSE n[2]
           ver == IF Node(n).dir THEN 0 ELSE fs[n[1]][source].ver
           id == IF op.omit THEN op.other[2] ELSE NewId(t)
           row == IF t = Local THEN id ELSE n[2]
           parent == Place(t, folder, op.newName)
           born == [parent |-> folder[2], name |-> op.newName, dir |-> Node(n).dir, ev |-> {},
                    origin |-> <<>>, idb |-> row, in |-> TRUE]
           item == [parent |-> parent, name |-> op.newName, dir |-> Node(n).dir, ver |-> ver]
           new == [remote |-> IF t = Local THEN n[2] ELSE id,
                   parent |-> Node(folder).idb, name |-> op.newName,
                   dir |-> Node(n).dir, ver |-> ver]
           here == Inserted(World, row, new)
           there == Inserted([World EXCEPT !.fs[t] = Put(@, id, item)], row, new)
           known == Numbered(Numbered(here, n, row), <<t, id>>, row)
           both == Numbered(there, n, row)
           grown == [both EXCEPT !.tree[t] = Put(both.tree[t], id, born)]
           forgotten == WithoutNode(Ignored, n)
<1>1. Create(op) =
        IF folder = NoNode
        THEN IF t = Remote /\ OnDisk(Path(n)) # None THEN forgotten ELSE Failed
        ELSE IF op.omit THEN IF here.outcome = "failed" THEN here ELSE known
        ELSE IF t = Remote /\ source = None THEN Failed
        ELSE IF parent = None
        THEN IF t = Local /\ ~Node(n).dir /\ OnDisk(Append(Path(folder), op.newName)) # None
             THEN Ignored ELSE Failed
        ELSE IF ~Node(n).dir /\ source \notin DOMAIN fs[n[1]] THEN Blocked(op)
        ELSE IF there.outcome = "failed" THEN there
        ELSE grown
  BY DEF Create
<1>2. Sound(forgotten)
  BY SoundWorld, SoundWithoutNode
<1>3. Sound(here)
  BY SoundWorld, SoundInserted
<1>4. ASSUME ~op.omit, parent # None
      PROVE  Sound(there)
  <2> DEFINE f == Put(fs[t], id, item)
             w == [World EXCEPT !.fs[t] = Put(@, id, item)]
  <2>1. ASSUME t \in Sides PROVE IsTree(f)
    <3>1. IsTree(fs[t])
      BY <2>1 DEF AreTrees
    <3>2. id \in Ids \ DOMAIN fs[t]
      BY <1>4, <2>1, NewIdIsFree
    <3>3. DOMAIN item = {"parent", "name", "dir", "ver"} /\ item.parent = parent
          /\ item.name = op.newName
      OBVIOUS
    <3>4. /\ IsFolder(t, parent)
          /\ \A i \in DOMAIN fs[t] : ~(fs[t][i].parent = parent /\ fs[t][i].name = op.newName)
      BY <1>4, PlaceIsFree
    <3> HIDE DEF id, item, parent, t
    <3>5. item.parent = Root \/ (item.parent \in DOMAIN fs[t] /\ fs[t][item.parent].dir)
      BY <3>3, <3>4 DEF IsFolder
    <3> QED
      BY <3>1, <3>2, <3>3, <3>4, <3>5, GrownTree
  <2>2. w = [World EXCEPT !.fs[t] = f]
    BY DEF World
  <2> HIDE DEF f
  <2>3. Sound(w)
    BY <2>1, <2>2, SoundWorld, SoundFs
  <2> HIDE DEF w
  <2>4. there = Inserted(w, row, new) /\ DOMAIN new = {"remote", "parent", "name", "dir", "ver"}
    BY DEF w
  <2> QED
    BY <2>3, <2>4, SoundInserted
<1> HIDE DEF here, there, forgotten
<1>5. Sound(known)
  BY <1>3, SoundNumbered
<1>6. ASSUME ~op.omit, Sound(there)
      PROVE  Sound(grown)
  <2>1. Sound(both)
    BY <1>6, SoundNumbered
  <2>2. t \in Sides => id \notin DOMAIN tree[t]
    BY <1>6, NewIdIsFree
  <2>3. there.tree = tree
    BY DEF there, Inserted, World
  <2> HIDE DEF there
  <2>4. t \in Sides => DOMAIN both.tree[t] = DOMAIN tree[t]
    BY <1>6, <2>3 DEF Numbered, Sound
  <2> HIDE DEF both, id, born
  <2>5. t \in Sides => StayIn(both.tree[t], Put(both.tree[t], id, born))
    BY <2>2, <2>4, StayPut
  <2> QED
    BY <2>1, <2>5, SoundTree
<1>7. Sound(Failed) /\ Sound(Ignored) /\ Sound(Blocked(op))
  BY SoundWorld, SoundBlocked
<1> HIDE DEF known, grown, both, parent, source, folder, t, n
<1> QED
  BY <1>1, <1>2, <1>3, <1>4, <1>5, <1>6, <1>7

\* An item that is written or moved in a world.
LEMMA WrittenInto ==
  ASSUME NEW w, DOMAIN w = {"fs", "db", "tree", "outcome"}, NEW t, NEW i, NEW ver
  PROVE  [w EXCEPT !.fs[t][i].ver = ver] = [w EXCEPT !.fs[t] = [w.fs[t] EXCEPT ![i].ver = ver]]
  OBVIOUS


\* Its folder and its name.
Moved(w, t, i, a, b) == [w EXCEPT !.fs[t][i].parent = a, !.fs[t][i].name = b]
LEMMA SoundMoved ==
  ASSUME NEW w, Sound(w), NEW t, NEW i, NEW a, NEW b,
         t \in Sides => IsTree([w.fs[t] EXCEPT ![i].parent = a, ![i].name = b])
  PROVE  Sound(Moved(w, t, i, a, b))
<1> DEFINE g == [w.fs[t] EXCEPT ![i].parent = a]
           h == [w.fs[t] EXCEPT ![i].parent = a, ![i].name = b]
           v == [w EXCEPT !.fs[t][i].parent = a]
<1>0. DOMAIN w = {"fs", "db", "tree", "outcome"}
  BY DEF Sound
<1>1. v = [w EXCEPT !.fs[t] = g] /\ h = [g EXCEPT ![i].name = b] /\ DOMAIN v = DOMAIN w
  BY <1>0
<1>2. Moved(w, t, i, a, b) = [v EXCEPT !.fs[t][i].name = b]
  BY DEF Moved
<1>3. t \in Sides => IsTree(h)
  OBVIOUS
<1> HIDE DEF g, h, v
<1>4. [v EXCEPT !.fs[t][i].name = b] = [v EXCEPT !.fs[t] = [v.fs[t] EXCEPT ![i].name = b]]
  BY <1>0, <1>1
<1>5. t \in DOMAIN w.fs => v.fs[t] = g
  BY <1>0, <1>1
<1>6. [v EXCEPT !.fs[t][i].name = b] = [w EXCEPT !.fs[t] = h]
  BY <1>0, <1>1, <1>4, <1>5
<1>7. Sound([w EXCEPT !.fs[t] = h])
  BY <1>3, SoundFs
<1> QED
  BY <1>2, <1>6, <1>7

\* The handlers of the operations.
LEMMA SoundEdit ==
  ASSUME AreTrees(fs), AreRows(db), DOMAIN tree = Sides, NEW op
  PROVE  Sound(Edit(op))
<1> DEFINE n == op.node
           m == op.other
           ver == fs[n[1]][n[2]].ver
           written == IF op.target = Local THEN OnDisk(Path(n)) ELSE m[2]
           row == Node(m).idb
           known == [World EXCEPT !.db[row].ver = ver]
           edited == [World EXCEPT !.db[row].ver = ver, !.fs[op.target][written].ver = ver]
<1>1. Edit(op) \in {Failed, known, Ignored, edited}
  BY DEF Edit
<1>2. Sound(known)
  <2> DEFINE d == [db EXCEPT ![row].ver = ver]
  <2>1. known = [World EXCEPT !.db = d]
    BY DEF World
  <2> HIDE DEF row, ver
  <2>2. AreRows(d)
    BY EditedRows
  <2> HIDE DEF d, known
  <2> QED
    BY <2>1, <2>2, SoundWorld, SoundDb
<1>3. Sound(edited)
  <2> DEFINE f == [fs[op.target] EXCEPT ![written].ver = ver]
  <2>1. edited = [known EXCEPT !.fs[op.target][written].ver = ver]
    OBVIOUS
  <2>2. known.fs = fs /\ DOMAIN known = {"fs", "db", "tree", "outcome"}
    BY DEF World
  <2> HIDE DEF known, edited
  <2>3. edited = [known EXCEPT !.fs[op.target] = f]
    BY <2>1, <2>2, WrittenInto
  <2> HIDE DEF ver, written
  <2>4. op.target \in Sides => IsTree(f)
    BY WrittenTree DEF AreTrees
  <2> HIDE DEF f
  <2> QED
    BY <1>2, <2>3, <2>4, SoundFs
<1> HIDE DEF known, edited
<1> QED
  BY <1>1, <1>2, <1>3, SoundWorld

LEMMA SoundMove ==
  ASSUME AreTrees(fs), AreRows(db), DOMAIN tree = Sides, NEW op
  PROVE  Sound(Move(op))
<1> DEFINE t == op.target
           m == IF op.other = NoNode THEN op.node ELSE op.other
           item == IF t = Local THEN OnDisk(Path(m)) ELSE m[2]
           to == Destination(op)
           taken == \E i \in DOMAIN fs[t] \ {item} :
                        fs[t][i].parent = to /\ fs[t][i].name = op.newName
           moved == [World EXCEPT !.fs[t][item].parent = to,
                                  !.fs[t][item].name = op.newName]
           Goes == /\ item \in DOMAIN fs[t] /\ IsFolder(t, to)
                   /\ to \notin {item} \cup Under(fs[t], item) /\ ~taken
<1>1. \/ Move(op) \in {MovedRow(World, op), MovedInConflict(World, op), Failed, Ignored,
                       Blocked(op), Refused(op)}
      \/ Goes /\ Move(op) \in {MovedRow(moved, op), MovedInConflict(moved, op)}
  BY DEF Move
<1>2. ASSUME Goes PROVE Sound(moved)
  <2> DEFINE f == [fs[t] EXCEPT ![item].parent = to, ![item].name = op.newName]
  <2>1. World.fs = fs
    BY DEF World
  <2>2. moved = Moved(World, t, item, to, op.newName)
    BY DEF Moved
  <2>3. ASSUME t \in Sides PROVE IsTree(f)
    <3>1. IsTree(fs[t])
      BY <2>3 DEF AreTrees
    <3> HIDE DEF item, to, t
    <3> QED
      BY <1>2, <3>1, MovedTree DEF IsFolder
  <2> HIDE DEF moved, t, item, to
  <2>4. Sound(Moved(World, t, item, to, op.newName))
    BY <2>1, <2>3, SoundWorld, SoundMoved
  <2> QED
    BY <2>2, <2>4
<1>3. moved.db = db /\ World.db = db
  BY DEF World
<1> HIDE DEF moved, Goes, t, item, to
<1>4. Goes => Sound(MovedRow(moved, op)) /\ Sound(MovedInConflict(moved, op))
  BY <1>2, <1>3, SoundMovedRow, SoundMovedInConflict
<1>5. Sound(MovedRow(World, op)) /\ Sound(MovedInConflict(World, op))
  BY <1>3, SoundWorld, SoundMovedRow, SoundMovedInConflict
<1>6. Sound(Failed) /\ Sound(Ignored) /\ Sound(Blocked(op)) /\ Sound(Refused(op))
  BY SoundWorld, SoundBlocked, SoundRefused
<1> QED
  BY <1>1, <1>4, <1>5, <1>6

LEMMA SoundDelete ==
  ASSUME AreTrees(fs), AreRows(db), DOMAIN tree = Sides, NEW op
  PROVE  Sound(Delete(op))
<1> DEFINE t == op.target
           m == op.other
           item == IF t = Local THEN OnDisk(Path(m)) ELSE m[2]
           f == Pruned(fs[t], item)
           deleted == [World EXCEPT !.fs[t] = Pruned(@, item)]
           undone == WithoutNode(deleted, op.node)
<1>1. Delete(op) \in {DeletedRow(World, op), Ignored, Failed, undone, DeletedRow(deleted, op)}
  BY DEF Delete
<1>2. Sound(deleted)
  <2>1. deleted = [World EXCEPT !.fs[t] = f]
    BY DEF World
  <2> HIDE DEF item, deleted
  <2>2. t \in Sides => IsTree(f)
    BY PrunedTree DEF AreTrees
  <2> HIDE DEF f, t
  <2> QED
    BY <2>1, <2>2, SoundWorld, SoundFs
<1> HIDE DEF deleted
<1>3. Sound(undone)
  BY <1>2, SoundWithoutNode
<1>4. Sound(DeletedRow(World, op)) /\ Sound(DeletedRow(deleted, op))
  BY <1>2, SoundWorld, SoundDeletedRow
<1> HIDE DEF undone
<1> QED
  BY <1>1, <1>3, <1>4, SoundWorld

LEMMA SoundEffect ==
  ASSUME AreTrees(fs), AreRows(db), DOMAIN tree = Sides,
         \A s \in Sides : IdsLeft(s), MaxId \in Nat, NEW op
  PROVE  Sound(Effect(op))
<1>1. Effect(op) \in {Create(op), Edit(op), Move(op), Delete(op), Failed}
  BY DEF Effect
<1> QED
  BY <1>1, SoundCreate, SoundEdit, SoundMove, SoundDelete, SoundWorld

-----------------------------------------------------------------------------
(* The steps of a cycle.                                                    *)

\* Nothing is executed before the operations are sorted.
Inv == TypeOK /\ AreTrees(fs) /\ DOMAIN tree = Sides /\ (pc \notin {"execute", "blocked"} => done = {})

LEMMA InitInv == Init => Inv
  BY StartsAssumption DEF Init, Inv, TypeOK, AreTrees, Outcomes

\* The worker stops a cycle.
LEMMA AbortInv ==
  ASSUME Inv, Abort, completed' \in BOOLEAN, changed' \in BOOLEAN, AreTrees(fs'), AreRows(db'),
         DOMAIN tree' = Sides
  PROVE  Inv'
  BY DEF Abort, Inv, TypeOK, AreTrees, Outcomes

\* An operation, and any step.
LEMMA ExecuteInv ==
  ASSUME Inv, Execute
  PROVE  Inv'
<1>1. /\ pc = "execute" /\ \A s \in Sides : IdsLeft(s)
      /\ UNCHANGED <<downward, orphans, completed, kept>>
  BY DEF Execute
<1>2. PICK k \in DOMAIN ops \ done : \E w \in {Effect(ops[k])} :
        /\ fs' = w.fs /\ db' = w.db /\ tree' = w.tree
        /\ changed' = (changed \/ w.fs # fs)
        /\ IF w.outcome = "failed" THEN Abort
           ELSE IF w.outcome = "blocked"
           THEN pc' = "blocked" /\ outcome' = w.outcome /\ UNCHANGED <<ops, done, queue, restart>>
           ELSE /\ done' = done \cup {k} /\ outcome' = w.outcome
                /\ restart' = (restart \/ w.outcome = "refused")
                /\ UNCHANGED <<pc, ops, queue>>
  BY DEF Execute
<1> DEFINE w == Effect(ops[k])
<1>3. Sound(w)
  BY <1>1, SoundEffect, StartsAssumption DEF Inv, TypeOK
<1> HIDE DEF w
<1>4. /\ fs' = w.fs /\ db' = w.db /\ tree' = w.tree
      /\ changed' = (changed \/ w.fs # fs)
      /\ IF w.outcome = "failed" THEN Abort
         ELSE IF w.outcome = "blocked"
         THEN pc' = "blocked" /\ outcome' = w.outcome /\ UNCHANGED <<ops, done, queue, restart>>
         ELSE /\ done' = done \cup {k} /\ outcome' = w.outcome
              /\ restart' = (restart \/ w.outcome = "refused")
              /\ UNCHANGED <<pc, ops, queue>>
  BY <1>2 DEF w
<1>5. /\ AreTrees(fs') /\ AreRows(db') /\ DOMAIN tree' = Sides /\ w.outcome \in Outcomes
      /\ completed' \in BOOLEAN /\ changed' \in BOOLEAN
  BY <1>1, <1>3, <1>4 DEF Sound, Stay, Inv, TypeOK
<1>6. CASE w.outcome = "failed"
  BY <1>4, <1>5, <1>6, AbortInv
<1>7. CASE w.outcome = "blocked"
  BY <1>4, <1>5, <1>7 DEF Inv, TypeOK, AreTrees
<1>8. CASE w.outcome \notin {"failed", "blocked"}
  BY <1>1, <1>4, <1>5, <1>8 DEF Inv, TypeOK, AreTrees
<1> QED
  BY <1>6, <1>7, <1>8

LEMMA NextInv ==
  ASSUME Inv, [Next]_vars
  PROVE  Inv'
<1> USE DEF Inv, TypeOK, AreTrees
<1>1. CASE Detect
  BY <1>1 DEF Detect
<1>2. CASE Find
  BY <1>2 DEF Find
<1>3. CASE Resolve
  <2>0. pc = "resolve"
    BY <1>3 DEF Resolve
  <2>1. PICK c \in Tops(queue) :
          \/ /\ Abort
             /\ UNCHANGED <<fs, db, tree, downward, orphans, completed, changed, kept>>
          \/ /\ ops' = ops \o Solution(c, queue, orphans) /\ DOMAIN tree' = DOMAIN tree
             /\ pc' = IF queue' = {} THEN "sort" ELSE "resolve"
             /\ restart' = TRUE
             /\ UNCHANGED <<fs, db, downward, done, completed, changed, outcome, kept>>
    BY <1>3 DEF Resolve
  <2> QED
    BY <2>0, <2>1, AbortInv
<1>4. CASE GenerateAll
  <2>0. pc = "generate"
    BY <1>4 DEF GenerateAll
  <2>1. PICK g \in {Generated} :
          \/ /\ Abort
             /\ UNCHANGED <<fs, db, tree, downward, orphans, completed, changed, kept>>
          \/ /\ ops' = g.ops /\ restart' = (restart \/ g.restart) /\ pc' = "sort"
             /\ UNCHANGED <<fs, db, tree, downward, queue, done, orphans, completed, changed,
                            outcome, kept>>
    BY <1>4 DEF GenerateAll
  <2> QED
    BY <2>0, <2>1, AbortInv
<1>5. CASE Sort
  BY <1>5 DEF Sort
<1>6. CASE Execute
  BY <1>6, ExecuteInv
<1>7. CASE Finish
  BY <1>7 DEF Finish
<1>8. CASE Rest \/ UNCHANGED vars
  BY <1>8 DEF Rest, vars
<1> QED
  BY <1>1, <1>2, <1>3, <1>4, <1>5, <1>6, <1>7, <1>8 DEF Next

\* Whatever operations are executed, in whatever order, and whatever they find: both
\* replicas stay trees, where names are unique in a folder, and the rows a database with its
\* constraints (executorworker.cpp, syncdb.cpp).
THEOREM TypesAreCorrect == Spec => []TypeOK
<1>1. Inv => TypeOK
  BY DEF Inv
<1> QED
  BY InitInv, NextInv, <1>1, PTL DEF Spec

-----------------------------------------------------------------------------
(* What the walks through sets and sequences give.                          *)

\* The numbers of a set in the order of its container.
Numbers(S) == \A a \in S : a \in Int
LEMMA InOrderType ==
  ASSUME NEW S, Numbers(S), IsFiniteSet(S)
  PROVE  InOrder(S) \in Seq(S) /\ Len(InOrder(S)) = Cardinality(S) /\ Cardinality(S) \in Nat
<1> DEFINE n == Cardinality(S)
           R == {r \in S \X S : Before(r[1], r[2])}
           at(k) == CHOOSE x \in S : Cardinality({y \in S : Before(y, x)}) = k - 1
<1>1. \A x, y \in S : <<x, y>> \in R <=> Before(x, y)
  OBVIOUS
<1>2. \A x \in S : PlaceIn(S, R, x) = Cardinality({y \in S : Before(y, x)})
  <2> TAKE x \in S
  <2>1. {y \in S : <<y, x>> \in R} = {y \in S : Before(y, x)}
    BY <1>1
  <2> QED
    BY <2>1 DEF PlaceIn
<1> HIDE DEF R
<1>3. IsOrderOf(S, R)
  BY <1>1, BeforeIsOrder DEF IsOrderOf, Numbers
<1>4. n \in Nat /\ \A k \in 1 .. n : \E x \in S : PlaceIn(S, R, x) = k - 1
  BY <1>3, RanksArePlaces
<1>5. \A k \in 1 .. n : \E x \in S : Cardinality({y \in S : Before(y, x)}) = k - 1
  BY <1>2, <1>4
<1>6. \A k \in 1 .. n : at(k) \in S
  BY <1>5
<1>7. InOrder(S) = [k \in 1 .. n |-> at(k)]
  BY DEF InOrder
<1> HIDE DEF at, n
<1> QED
  BY <1>4, <1>6, <1>7 DEF n

\* What is written one sequence after the other.
LEMMA FlattenType ==
  ASSUME NEW T, NEW q \in Seq(Seq(T))
  PROVE  FlattenSeq(q) \in Seq(T)
<1> DEFINE n == Len(q)
           Is(f) == f = [i \in 1 .. n |-> IF i = 1 THEN q[i] ELSE f[i - 1] \o q[i]]
           g == CHOOSE f : Is(f)
           step == [i \in 1 .. n |-> [s \in Seq(T) |-> IF i = 1 THEN q[i] ELSE s \o q[i]]]
<1>0. n \in Nat /\ \A i \in 1 .. n : q[i] \in Seq(T)
  OBVIOUS
<1>1. CASE n = 0
  <2>1. FlattenSeq(q) = q
    BY <1>1 DEF FlattenSeq
  <2>2. q = <<>>
    BY <1>1
  <2> QED
    BY <2>1, <2>2
<1>2. CASE n # 0
  <2>1. FlattenSeq(q) = g[n]
    BY <1>2 DEF FlattenSeq
  <2>2. step \in Steps(n, Seq(T)) /\ <<>> \in Seq(T)
    BY <1>0 DEF Steps
  <2>3. PICK f : Follows(f, n, Seq(T), <<>>, step)
    <3> HIDE DEF step, n
    <3> QED
      BY <1>0, <2>2, RecursionUpTo
  <2> DEFINE h == [i \in 1 .. n |-> f[i]]
  <2>4. ASSUME NEW i \in 1 .. n
        PROVE  f[i] = IF i = 1 THEN q[i] ELSE f[i - 1] \o q[i]
    <3>1. i - 1 \in 0 .. n
      BY <1>0
    <3>2. f[i - 1] \in Seq(T) /\ f[i] = step[i][f[i - 1]]
      BY <2>3, <3>1 DEF Follows
    <3> QED
      BY <3>2
  <2>5. Is(h)
    <3>1. \A i \in 1 .. n : i # 1 => h[i - 1] = f[i - 1]
      BY <1>0
    <3>2. h = [i \in 1 .. n |-> IF i = 1 THEN q[i] ELSE h[i - 1] \o q[i]]
      BY <2>4, <3>1
    <3> QED
      BY <3>2
  <2> HIDE DEF h
  <2>6. Is(g)
    BY <2>5
  <2> HIDE DEF g
  <2> DEFINE R == {i \in 0 .. n : i # 0 => g[i] \in Seq(T)}
  <2>7. ASSUME NEW i \in 1 .. n, i - 1 \in R PROVE i \in R
    <3>1. g[i] = IF i = 1 THEN q[i] ELSE g[i - 1] \o q[i]
      BY <2>6
    <3>2. i # 1 => g[i - 1] \in Seq(T)
      BY <1>0, <2>7
    <3>3. g[i] \in Seq(T)
      BY <1>0, <3>1, <3>2
    <3> QED
      BY <1>0, <3>3
  <2>8. 0 \in R
    BY <1>0
  <2> HIDE DEF R
  <2>9. 0 .. n \subseteq R
    BY <1>0, <2>7, <2>8, InductionUpTo
  <2>10. n \in R
    BY <1>0, <2>9
  <2> QED
    BY <1>2, <2>1, <2>10 DEF R
<1> QED
  BY <1>1, <1>2

-----------------------------------------------------------------------------
(* The trees of a cycle.                                                    *)

\* The items of a replica that have a row.
Synced(s) == {SideId(s, r) : r \in DOMAIN db}

\* The row of an item is found again.
LEMMA SyncedHaveRows ==
  ASSUME AreRows(db), NEW s \in Sides
  PROVE  /\ Synced(s) \subseteq Ids
         /\ \A r \in DOMAIN db : SideId(s, r) \in Synced(s)
         /\ \A i \in Synced(s) : RowOf(s, i) \in DOMAIN db /\ SideId(s, RowOf(s, i)) = i
<1>1. \A r \in DOMAIN db : SideId(s, r) \in Ids /\ SideId(s, r) # Root
  BY DEF AreRows, SideId, Ids, Root
<1>2. \A r, t \in DOMAIN db : SideId(s, r) = SideId(s, t) => r = t
  BY DEF AreRows, SideId, Ids, Root
<1>3. ASSUME NEW i \in Synced(s)
      PROVE  RowOf(s, i) \in DOMAIN db /\ SideId(s, RowOf(s, i)) = i
  <2>1. PICK r \in DOMAIN db : i = SideId(s, r)
    BY DEF Synced
  <2>2. {t \in DOMAIN db : SideId(s, t) = i} = {r}
    BY <1>2, <2>1
  <2>3. RowOf(s, i) = FirstOf({r})
    BY <1>1, <2>1, <2>2 DEF RowOf
  <2>4. FirstOf({r}) = r
    BY DEF FirstOf
  <2> QED
    BY <2>1, <2>3, <2>4
<1> QED
  BY <1>1, <1>3 DEF Synced

\* The place of the row of an item.
RowPlace(s, i) ==
    [parent |-> SideId(s, db[RowOf(s, i)].parent), name |-> db[RowOf(s, i)].name]
ItsPlace(s, i) == [parent |-> fs[s][i].parent, name |-> fs[s][i].name]

\* What the tree of a replica says of an item.
Tells(d, s, i) ==
    /\ d[i].in
    /\ i = Root => d[i].ev = {}
    /\ i # Root =>
        /\ "create" \in d[i].ev <=> i \notin Synced(s)
        /\ "delete" \in d[i].ev <=> i \notin DOMAIN fs[s]
        /\ "edit" \in d[i].ev => i \in DOMAIN fs[s] /\ i \in Synced(s)
        /\ "move" \in d[i].ev <=> /\ i \in DOMAIN fs[s] /\ i \in Synced(s)
                                  /\ ItsPlace(s, i) # RowPlace(s, i)
        /\ i \in DOMAIN fs[s] => d[i].parent = fs[s][i].parent /\ d[i].dir = fs[s][i].dir
        /\ i \notin DOMAIN fs[s] => d[i].parent = SideId(s, db[RowOf(s, i)].parent)

\* The nodes of a detection are the items and the rows, the root among them.
LEMMA DetectedTells ==
  ASSUME NEW s \in Sides
  PROVE  /\ DOMAIN Detected(s) = DOMAIN fs[s] \cup Synced(s) \cup {Root}
         /\ \A i \in DOMAIN Detected(s) : Tells(Detected(s), s, i)
<1> DEFINE here == DOMAIN fs[s]
           known == Synced(s)
           row(i) == RowOf(s, i)
           place(i) == IF i \in here THEN ItsPlace(s, i) ELSE RowPlace(s, i)
           moved(i) == i \in here /\ place(i) # RowPlace(s, i)
           events(i) ==
             {e \in Events :
                CASE e = "create" -> i \notin known
                  [] e = "delete" -> i \notin here
                  [] e = "edit"   -> i \in here \cap known /\ ~fs[s][i].dir /\ fs[s][i].ver # db[row(i)].ver
                  [] e = "move"   -> i \in known /\ moved(i)}
           origin(i) == IF i \in known /\ moved(i) THEN DbPath(row(i)) ELSE <<>>
           dir(i) == IF i \in here THEN fs[s][i].dir ELSE db[row(i)].dir
           node(i) == [parent |-> place(i).parent, name |-> place(i).name, dir |-> dir(i),
                       ev |-> events(i), origin |-> origin(i), idb |-> row(i), in |-> TRUE]
           d == [i \in here \cup known \cup {Root} |-> IF i = Root THEN RootNode ELSE node(i)]
<1>1. Detected(s) = d
  BY DEF Detected, Synced, ItsPlace, RowPlace
<1>2. ASSUME NEW i, i \in here \cup known
      PROVE  /\ "create" \in events(i) <=> i \notin known
             /\ "delete" \in events(i) <=> i \notin here
             /\ "edit" \in events(i) => i \in here /\ i \in known
             /\ "move" \in events(i) <=> i \in known /\ moved(i)
  BY DEF Events
<1>3. ASSUME NEW i, i \in here \cup known
      PROVE  /\ i \in here => place(i) = ItsPlace(s, i)
             /\ i \notin here => place(i).parent = SideId(s, db[RowOf(s, i)].parent)
             /\ i \in here => place(i).parent = fs[s][i].parent /\ dir(i) = fs[s][i].dir
  BY DEF ItsPlace, RowPlace
<1> HIDE DEF events, origin
<1>4. ASSUME NEW i \in DOMAIN d
      PROVE  Tells(d, s, i)
  <2>1. CASE i = Root
    BY <2>1 DEF Tells, RootNode
  <2>2. CASE i # Root
    <3>1. d[i] = node(i) /\ i \in here \cup known
      BY <2>2
    <3>2. node(i).in /\ node(i).ev = events(i) /\ node(i).parent = place(i).parent /\ node(i).dir = dir(i)
      OBVIOUS
    <3> HIDE DEF d, node, dir, place
    <3>3. d[i].in /\ d[i].ev = events(i) /\ d[i].parent = place(i).parent /\ d[i].dir = dir(i)
      BY <3>1, <3>2
    <3>4. /\ "create" \in d[i].ev <=> i \notin Synced(s)
          /\ "delete" \in d[i].ev <=> i \notin DOMAIN fs[s]
          /\ "edit" \in d[i].ev => i \in DOMAIN fs[s] /\ i \in Synced(s)
          /\ "move" \in d[i].ev <=> i \in Synced(s) /\ moved(i)
      BY <1>2, <3>1, <3>3
    <3>5. moved(i) <=> i \in DOMAIN fs[s] /\ ItsPlace(s, i) # RowPlace(s, i)
      BY <1>3, <3>1
    <3>6. /\ i \in DOMAIN fs[s] => d[i].parent = fs[s][i].parent /\ d[i].dir = fs[s][i].dir
          /\ i \notin DOMAIN fs[s] => d[i].parent = SideId(s, db[RowOf(s, i)].parent)
      BY <1>3, <3>1, <3>3
    <3> HIDE DEF moved, here, known
    <3> QED
      BY <2>2, <3>3, <3>4, <3>5, <3>6 DEF Tells
  <2> QED
    BY <2>1, <2>2
<1>5. DOMAIN d = DOMAIN fs[s] \cup Synced(s) \cup {Root}
  OBVIOUS
<1> HIDE DEF d
<1> QED
  BY <1>1, <1>4, <1>5

-----------------------------------------------------------------------------
(* The nodes the generator explores.                                        *)

\* The trees are those of the detection.
Seen == AreTrees(fs) /\ AreRows(db) /\ tree = [s \in Sides |-> Detected(s)]

\* All of which is so of the nodes the generator is given.
LEMMA SeenNodes ==
  ASSUME Seen
  PROVE  /\ \A s \in Sides : /\ Root \in DOMAIN tree[s]
                             /\ DOMAIN tree[s] \subseteq Ids \cup {Root}
                             /\ \A i \in DOMAIN tree[s] : <<s, i>> \in Nodes /\ Tells(tree[s], s, i)
         /\ \A n \in Nodes : n[1] \in Sides /\ n[2] \in DOMAIN tree[n[1]] /\ n = <<n[1], n[2]>>
<1>1. \A s \in Sides : tree[s] = Detected(s)
  BY DEF Seen
<1>2. \A s \in Sides : DOMAIN fs[s] \subseteq Ids /\ Synced(s) \subseteq Ids
  <2> TAKE s \in Sides
  <2>1. IsTree(fs[s])
    BY DEF Seen, AreTrees
  <2>2. AreRows(db)
    BY DEF Seen
  <2> QED
    BY <2>1, <2>2, SyncedHaveRows DEF IsTree
<1>3. \A s \in Sides : /\ Root \in DOMAIN tree[s]
                       /\ DOMAIN tree[s] \subseteq Ids \cup {Root}
                       /\ \A i \in DOMAIN tree[s] : Tells(tree[s], s, i)
  BY <1>1, <1>2, DetectedTells
<1>4. \A s \in Sides : \A i \in DOMAIN tree[s] : tree[s][i].in
  BY <1>3 DEF Tells
<1>5. \A s \in Sides : \A i \in DOMAIN tree[s] : <<s, i>> \in Nodes
  BY <1>4 DEF Nodes
<1>6. \A n \in Nodes : n[1] \in Sides /\ n[2] \in DOMAIN tree[n[1]] /\ n = <<n[1], n[2]>>
  BY DEF Nodes
<1> QED
  BY <1>3, <1>5, <1>6

\* What is in a folder is ordered by its number.
LEMMA SeenChildren ==
  ASSUME Seen, MaxId \in Nat, NEW n \in Nodes
  PROVE  /\ Numbers(Children(n)) /\ IsFiniteSet(Children(n))
         /\ \A i \in Children(n) : <<n[1], i>> \in Nodes
<1>1. n[1] \in Sides
  BY SeenNodes
<1>2. Children(n) \subseteq DOMAIN tree[n[1]]
  BY DEF Children
<1>3. Children(n) \subseteq 0 .. MaxId
  BY <1>1, <1>2, SeenNodes DEF Ids, Root
<1>4. IsFiniteSet(Children(n))
  <2>1. IsFiniteSet(0 .. MaxId)
    BY FS_Interval
  <2>2. Children(n) \in SUBSET (0 .. MaxId)
    BY <1>3
  <2> QED
    BY <2>1, <2>2, FS_Subset
<1> QED
  BY <1>1, <1>2, <1>3, <1>4, SeenNodes DEF Numbers

\* There is an end of the nodes, so that the depth of the exploration is a number.
LEMMA SeenFinite ==
  ASSUME Seen, MaxId \in Nat
  PROVE  Cardinality(Nodes) \in Nat
<1>1. Nodes \subseteq Sides \X (0 .. MaxId)
  <2>1. \A n \in Nodes : n[1] \in Sides /\ n[2] \in 0 .. MaxId /\ n = <<n[1], n[2]>>
    BY SeenNodes DEF Ids, Root
  <2> QED
    BY <2>1
<1>2. IsFiniteSet(Sides) /\ IsFiniteSet(0 .. MaxId)
  <2>1. IsFiniteSet({}) /\ {} \cup {Local} \cup {Remote} = Sides
    BY FS_EmptySet DEF Sides
  <2>2. IsFiniteSet({} \cup {Local})
    BY <2>1, FS_AddElement
  <2>3. IsFiniteSet({} \cup {Local} \cup {Remote})
    BY <2>2, FS_AddElement
  <2>4. IsFiniteSet(0 .. MaxId)
    BY FS_Interval
  <2> QED
    BY <2>1, <2>3, <2>4
<1>3. IsFiniteSet(Nodes)
  BY <1>1, <1>2, FS_Product, FS_Subset
<1> QED
  BY <1>3, FS_CardinalityType

\* The exploration meets nodes.
LEMMA ExploredAreNodes ==
  ASSUME Seen, MaxId \in Nat
  PROVE  Exploration \in Seq(Nodes)
<1> DEFINE depth == Cardinality(Nodes)
           ids(n) == InOrder(Children(n))
           below(n) == [j \in 1 .. Len(ids(n)) |-> <<n[1], ids(n)[j]>>]
           next(above) == FlattenSeq([k \in 1 .. Len(above) |-> below(above[k])])
           roots == <<RootOf(Local), RootOf(Remote)>>
           Is(f) == f = [d \in 0 .. depth |-> IF d = 0 THEN roots ELSE next(f[d - 1])]
           level == CHOOSE f : Is(f)
           step == [d \in 1 .. depth |-> [q \in Seq(Nodes) |-> next(q)]]
<1>1. depth \in Nat
  BY SeenFinite
<1>2. ASSUME NEW n \in Nodes PROVE below(n) \in Seq(Nodes)
  <2>1. ids(n) \in Seq(Children(n))
    BY SeenChildren, InOrderType
  <2> DEFINE q == ids(n)
  <2>2. Len(q) \in Nat /\ \A j \in 1 .. Len(q) : q[j] \in Children(n)
    <3> HIDE DEF q
    <3> QED
      BY <2>1 DEF q
  <2>3. \A j \in 1 .. Len(q) : <<n[1], q[j]>> \in Nodes
    BY <2>2, SeenChildren
  <2> HIDE DEF q
  <2>4. [j \in 1 .. Len(q) |-> <<n[1], q[j]>>] \in Seq(Nodes)
    BY <2>2, <2>3
  <2> QED
    BY <2>4 DEF q
<1>3. roots \in Seq(Nodes)
  <2>1. RootOf(Local) \in Nodes /\ RootOf(Remote) \in Nodes
    BY SeenNodes DEF RootOf, Sides
  <2> QED
    BY <2>1
<1> HIDE DEF below, depth
<1>4. ASSUME NEW q \in Seq(Nodes) PROVE next(q) \in Seq(Nodes)
  <2>1. [k \in 1 .. Len(q) |-> below(q[k])] \in Seq(Seq(Nodes))
    <3>1. Len(q) \in Nat /\ \A k \in 1 .. Len(q) : q[k] \in Nodes
      OBVIOUS
    <3> QED
      BY <1>2, <3>1
  <2> QED
    BY <2>1, FlattenType
<1>5. Exploration = FlattenSeq([d \in 1 .. depth |-> level[d]])
  BY DEF Exploration, depth, below
<1> HIDE DEF next, roots
<1>6. PICK f : Follows(f, depth, Seq(Nodes), roots, step)
  <2>1. step \in Steps(depth, Seq(Nodes))
    BY <1>4 DEF Steps
  <2> HIDE DEF step
  <2> QED
    BY <1>1, <1>3, <2>1, RecursionUpTo
<1>7. Is(f)
  <2>1. ASSUME NEW d \in 1 .. depth PROVE f[d] = next(f[d - 1])
    <3>1. d - 1 \in 0 .. depth
      BY <1>1
    <3>2. f[d - 1] \in Seq(Nodes)
      BY <1>6, <3>1 DEF Follows
    <3> QED
      BY <1>6, <3>2 DEF Follows
  <2>2. \A d \in 0 .. depth : f[d] = IF d = 0 THEN roots ELSE next(f[d - 1])
    BY <1>1, <1>6, <2>1 DEF Follows
  <2>3. f = [d \in 0 .. depth |-> IF d = 0 THEN roots ELSE next(f[d - 1])]
    BY <1>6, <2>2 DEF Follows
  <2> QED
    BY <2>3
<1>8. Is(level)
  <2> HIDE DEF Is
  <2> QED
    BY <1>7
<1> HIDE DEF level
<1>9. level[0] = roots /\ \A d \in 1 .. depth : level[d] = next(level[d - 1])
  BY <1>1, <1>8
<1> DEFINE T == {d \in 0 .. depth : level[d] \in Seq(Nodes)}
<1>10. \A d \in 1 .. depth : d - 1 \in T => d \in T
  BY <1>1, <1>4, <1>9
<1>11. 0 \in T
  BY <1>1, <1>3, <1>9
<1> HIDE DEF T
<1>12. 0 .. depth \subseteq T
  BY <1>1, <1>10, <1>11, InductionUpTo
<1>13. \A d \in 1 .. depth : level[d] \in Seq(Nodes)
  BY <1>1, <1>12 DEF T
<1>14. [d \in 1 .. depth |-> level[d]] \in Seq(Seq(Nodes))
  BY <1>1, <1>13
<1> QED
  BY <1>5, <1>14, FlattenType

-----------------------------------------------------------------------------
(* The generated operations.                                                *)

\* An operation propagates what happened to its node to the other replica.
Counterparts == {CorrespondingInOtherTree(n) : n \in Nodes} \cup {NoNode}
Named == {0} \cup {Node(n).name : n \in Nodes}
Propagations ==
    {op \in [type : Events, node : Nodes, other : Counterparts, target : Sides, omit : BOOLEAN,
             newName : Named, newParent : {NoNode}, conflict : {NoConflict}, after : {0}] :
        Has(op.node, op.type) /\ op.target = OtherSide(op.node[1])}
Generators ==
    [ops : Seq(Propagations), processed : SUBSET (Nodes \cup Counterparts), deleted : SUBSET Nodes,
     restart : BOOLEAN, failed : BOOLEAN]

\* The edit of what moved has its move among the operations, but those of one node.
MovesToo(q, k) == \E j \in 1 .. Len(q) : q[j].type = "move" /\ q[j].node = q[k].node
MoveBut(q, S) ==
    \A k \in 1 .. Len(q) :
        q[k].type = "edit" /\ Has(q[k].node, "move") /\ q[k].node \notin S => MovesToo(q, k)

\* A counterpart is a node of the other replica.
LEMMA CounterpartIsOver ==
  ASSUME NEW n, CorrespondingInOtherTree(n) # NoNode
  PROVE  CorrespondingInOtherTree(n)[1] = OtherSide(n[1])
<1> DEFINE over(m) == m = NoNode \/ m[1] = OtherSide(n[1])
<1>1. over(CorrespondingDirect(n))
  BY DEF CorrespondingDirect
<1>2. over(CorrespondingByPath(n))
  BY DEF CorrespondingByPath, NodeAt
<1> QED
  BY <1>1, <1>2 DEF CorrespondingInOtherTree

\* One operation of the node is added.
Adds(h, g, type, n) ==
    /\ h \in Generators
    /\ \E op \in Propagations : op.type = type /\ op.node = n /\ h.ops = Append(g.ops, op)

\* Each step of the generator that is not without effect adds one operation.
LEMMA WithAdds ==
  ASSUME NEW g \in Generators, NEW op \in Propagations, NEW P \in SUBSET (Nodes \cup Counterparts)
  PROVE  Adds(With(g, op, P), g, op.type, op.node) /\ With(g, op, P) \in Generators
         /\ With(g, op, P).ops = Append(g.ops, op)
<1>1. With(g, op, P) = [g EXCEPT !.ops = Append(g.ops, op), !.processed = g.processed \cup P]
  BY DEF With
<1>2. g.ops \in Seq(Propagations) /\ g.processed \subseteq Nodes \cup Counterparts
  BY DEF Generators
<1>3. Append(g.ops, op) \in Seq(Propagations)
  BY <1>2
<1>4. With(g, op, P) \in Generators /\ With(g, op, P).ops = Append(g.ops, op)
  BY <1>1, <1>2, <1>3 DEF Generators
<1> QED
  BY <1>4 DEF Adds

LEMMA CreateAdds ==
  ASSUME Seen, NEW g \in Generators, NEW n \in Nodes, Has(n, "create")
  PROVE  Adds(GenerateCreate(g, n, CorrespondingInOtherTree(n)), g, "create", n)
<1> DEFINE m == CorrespondingInOtherTree(n)
           op == [Operation("create", n, NoNode, OtherSide(n[1])) EXCEPT !.newName = Node(n).name]
           same == [op EXCEPT !.omit = TRUE, !.other = m]
<1>0. OtherSide(n[1]) \in Sides
  BY DEF OtherSide, Sides
<1>1. m \in Counterparts /\ NoNode \in Counterparts /\ Node(n).name \in Named /\ 0 \in Named
  BY DEF Counterparts, Named
<1>2. GenerateCreate(g, n, m) = IF m # NoNode /\ IsPseudoConflict(n, m) THEN With(g, same, {n, m})
                                ELSE With(g, op, {n})
  BY DEF GenerateCreate
<1> DEFINE new == Operation("create", n, NoNode, OtherSide(n[1]))
<1>3. new \in Propagations /\ new.type = "create" /\ new.node = n
  BY <1>0, <1>1 DEF Operation, Propagations, Events
<1> HIDE DEF new
<1>4. op \in Propagations /\ op.type = "create" /\ op.node = n
  BY <1>1, <1>3 DEF Propagations, new
<1> HIDE DEF op, m
<1>5. same \in Propagations /\ same.type = "create" /\ same.node = n
  BY <1>1, <1>4 DEF Propagations
<1> HIDE DEF same
<1>6. {n, m} \in SUBSET (Nodes \cup Counterparts) /\ {n} \in SUBSET (Nodes \cup Counterparts)
  BY <1>1
<1> QED
  BY <1>2, <1>4, <1>5, <1>6, WithAdds DEF m

LEMMA DeleteAdds ==
  ASSUME Seen, NEW g \in Generators, NEW n \in Nodes, Has(n, "delete"),
         CorrespondingInOtherTree(n) # NoNode
  PROVE  \/ GenerateDelete(g, n, CorrespondingInOtherTree(n)) = g
         \/ Adds(GenerateDelete(g, n, CorrespondingInOtherTree(n)), g, "delete", n)
<1> DEFINE m == CorrespondingInOtherTree(n)
           both == Has(m, "delete")
           op == [Operation("delete", n, m, m[1]) EXCEPT !.omit = both]
           gone == {n, m} \cup SubNodes(n) \cup SubNodes(m)
           w == With(g, op, gone)
           h == [w EXCEPT !.deleted = @ \cup {n}, !.restart = @ \/ both]
<1>0. m[1] = OtherSide(n[1]) /\ m[1] \in Sides /\ both \in BOOLEAN
  BY CounterpartIsOver DEF OtherSide, Sides, Has
<1>1. m \in Counterparts /\ 0 \in Named
  BY DEF Counterparts, Named
<1>2. GenerateDelete(g, n, m) = IF Parent(n) \in g.deleted THEN g ELSE h
  BY DEF GenerateDelete
<1>3. op = [type |-> "delete", node |-> n, other |-> m, target |-> m[1], omit |-> both,
            newName |-> 0, newParent |-> NoNode, conflict |-> NoConflict, after |-> 0]
  BY DEF Operation
<1>4. gone \in SUBSET (Nodes \cup Counterparts)
  BY <1>1 DEF SubNodes
<1>5. h = [w EXCEPT !.deleted = w.deleted \cup {n}, !.restart = w.restart \/ both]
  OBVIOUS
<1> HIDE DEF op, gone, both, w, h, m
<1>6. op \in Propagations /\ op.type = "delete" /\ op.node = n
  BY <1>0, <1>1, <1>3 DEF Propagations, Events
<1>7. w \in Generators /\ w.ops = Append(g.ops, op)
  BY <1>4, <1>6, WithAdds DEF w
<1>8. w.deleted \cup {n} \in SUBSET Nodes /\ (w.restart \/ both) \in BOOLEAN
  BY <1>0, <1>7 DEF Generators
<1>9. h \in Generators /\ h.ops = w.ops
  BY <1>5, <1>7, <1>8 DEF Generators
<1>10. Adds(h, g, "delete", n)
  BY <1>6, <1>7, <1>9 DEF Adds
<1> QED
  BY <1>2, <1>10 DEF m

LEMMA ChangeAdds ==
  ASSUME Seen, NEW g \in Generators, NEW n \in Nodes, NEW type \in {"edit", "move"}, Has(n, type),
         CorrespondingInOtherTree(n) # NoNode
  PROVE  Adds(GenerateChange(g, n, CorrespondingInOtherTree(n), type), g, type, n)
<1> DEFINE m == CorrespondingInOtherTree(n)
           op == Operation(type, n, m, m[1])
           named == IF type = "move" THEN [op EXCEPT !.newName = Node(n).name] ELSE op
           same == [named EXCEPT !.omit = TRUE]
<1>0. m[1] = OtherSide(n[1]) /\ m[1] \in Sides
  BY CounterpartIsOver DEF OtherSide, Sides
<1>1. m \in Counterparts /\ 0 \in Named /\ Node(n).name \in Named
  BY DEF Counterparts, Named
<1>2. GenerateChange(g, n, m, type) = IF IsPseudoConflict(n, m) THEN With(g, same, {n, m})
                                      ELSE With(g, named, {n})
  BY DEF GenerateChange
<1>3. op \in Propagations /\ op.type = type /\ op.node = n
  BY <1>0, <1>1 DEF Operation, Propagations, Events
<1> HIDE DEF op, m
<1>4. named \in Propagations /\ named.type = type /\ named.node = n
  BY <1>1, <1>3 DEF Propagations
<1> HIDE DEF named
<1>5. same \in Propagations /\ same.type = type /\ same.node = n
  BY <1>4 DEF Propagations
<1> HIDE DEF same
<1>6. {n, m} \in SUBSET (Nodes \cup Counterparts) /\ {n} \in SUBSET (Nodes \cup Counterparts)
  BY <1>1
<1> QED
  BY <1>2, <1>4, <1>5, <1>6, WithAdds DEF m

-----------------------------------------------------------------------------
(* The whole list.                                                          *)

\* One more operation of a node whose move may be missing.
LEMMA AddsKeeps ==
  ASSUME NEW g \in Generators, NEW h, NEW type, NEW n, Adds(h, g, type, n), MoveBut(g.ops, {n})
  PROVE  /\ h \in Generators /\ MoveBut(h.ops, {n})
         /\ type = "move" => MoveBut(h.ops, {})
<1> DEFINE q == g.ops
           r == h.ops
<1>1. PICK op \in Propagations : op.type = type /\ op.node = n /\ r = Append(q, op)
  BY DEF Adds
<1>2. q \in Seq(Propagations)
  BY DEF Generators
<1>3. MoveBut(q, {n})
  OBVIOUS
<1> HIDE DEF q, r
<1>4. /\ Len(q) \in Nat /\ Len(r) = Len(q) + 1 /\ r[Len(r)] = op
      /\ \A k \in 1 .. Len(q) : r[k] = q[k]
  BY <1>1, <1>2
<1>5. \A k \in 1 .. Len(q) : MovesToo(q, k) => MovesToo(r, k)
  <2> SUFFICES ASSUME NEW k \in 1 .. Len(q), MovesToo(q, k) PROVE MovesToo(r, k)
    OBVIOUS
  <2>1. PICK j \in 1 .. Len(q) : q[j].type = "move" /\ q[j].node = q[k].node
    BY DEF MovesToo
  <2>2. j \in 1 .. Len(r) /\ r[j].type = "move" /\ r[j].node = r[k].node
    BY <1>4, <2>1
  <2> QED
    BY <2>2 DEF MovesToo
<1>6. MoveBut(r, {n})
  <2> SUFFICES ASSUME NEW k \in 1 .. Len(r), r[k].type = "edit", Has(r[k].node, "move"), r[k].node # n
               PROVE  MovesToo(r, k)
    BY DEF MoveBut
  <2>1. k \in 1 .. Len(q)
    BY <1>1, <1>4
  <2>2. MovesToo(q, k)
    BY <1>3, <1>4, <2>1 DEF MoveBut
  <2> QED
    BY <1>5, <2>1, <2>2
<1>7. ASSUME type = "move" PROVE MoveBut(r, {})
  <2> SUFFICES ASSUME NEW k \in 1 .. Len(r), r[k].type = "edit", Has(r[k].node, "move")
               PROVE  MovesToo(r, k)
    BY DEF MoveBut
  <2>1. CASE r[k].node # n
    BY <1>6, <2>1 DEF MoveBut
  <2>2. CASE r[k].node = n
    <3>1. Len(r) \in 1 .. Len(r) /\ r[Len(r)].type = "move" /\ r[Len(r)].node = r[k].node
      BY <1>1, <1>4, <1>7, <2>2
    <3> QED
      BY <3>1 DEF MovesToo
  <2> QED
    BY <2>1, <2>2
<1>8. h \in Generators
  BY DEF Adds
<1> QED
  BY <1>6, <1>7, <1>8 DEF r

\* The state of the generator.
Complete(g) == g \in Generators /\ MoveBut(g.ops, {})

\* Once a node is done with, its move is there.
LEMMA GenerateKeeps ==
  ASSUME Seen, NEW g, Complete(g), NEW n \in Nodes
  PROVE  Complete(Generate(g, n))
<1> DEFINE m == CorrespondingInOtherTree(n)
           created == IF Has(n, "create") THEN GenerateCreate(g, n, m) ELSE g
           deleted == IF Has(n, "delete") THEN GenerateDelete(created, n, m) ELSE created
           edited == IF Has(n, "edit") THEN GenerateChange(deleted, n, m, "edit") ELSE deleted
           moved == IF Has(n, "move") THEN GenerateChange(edited, n, m, "move") ELSE edited
           Fine(h) == h \in Generators /\ MoveBut(h.ops, {n})
<1>1. Generate(g, n) =
        IF g.failed \/ n \in g.processed THEN g
        ELSE IF m = NoNode /\ Node(n).ev # {} /\ ~Has(n, "create") THEN [g EXCEPT !.failed = TRUE]
        ELSE moved
  BY DEF Generate
<1>2. Complete([g EXCEPT !.failed = TRUE])
  BY DEF Complete, Generators
<1>3. Fine(g)
  BY DEF Complete, MoveBut
<1>4. Tells(tree[n[1]], n[1], n[2])
  BY SeenNodes
<1>5. Has(n, "create") => ~Has(n, "delete") /\ ~Has(n, "edit") /\ ~Has(n, "move")
  <2>1. n[1] \in Sides /\ Root \in DOMAIN tree[n[1]]
    BY SeenNodes
  <2>2. n[2] \notin DOMAIN fs[n[1]] \cup Synced(n[1]) => n[2] = Root
    <3>1. tree[n[1]] = Detected(n[1])
      BY <2>1 DEF Seen
    <3>2. n[2] \in DOMAIN Detected(n[1])
      BY <3>1, SeenNodes
    <3>3. DOMAIN Detected(n[1]) = DOMAIN fs[n[1]] \cup Synced(n[1]) \cup {Root}
      BY <2>1, DetectedTells
    <3> QED
      BY <3>2, <3>3
  <2> QED
    BY <1>4, <2>2 DEF Has, Node, Tells
<1>6. CASE m = NoNode /\ Node(n).ev # {} /\ ~Has(n, "create")
  BY <1>1, <1>2, <1>6
<1>7. CASE ~(m = NoNode /\ Node(n).ev # {} /\ ~Has(n, "create"))
  <2>1. Has(n, "delete") \/ Has(n, "edit") \/ Has(n, "move") => m # NoNode
    BY <1>5, <1>7 DEF Has
  <2>2. Has(n, "create") => Adds(GenerateCreate(g, n, m), g, "create", n)
    BY <1>3, CreateAdds
  <2>3. Fine(created)
    BY <1>3, <2>2, AddsKeeps
  <2> HIDE DEF created
  <2>4. Fine(deleted)
    BY <2>1, <2>3, DeleteAdds, AddsKeeps
  <2> HIDE DEF deleted
  <2>5. Fine(edited)
    <3>1. Has(n, "edit") => Adds(GenerateChange(deleted, n, m, "edit"), deleted, "edit", n)
      BY <2>1, <2>4, ChangeAdds
    <3> QED
      BY <2>4, <3>1, AddsKeeps
  <2> HIDE DEF edited
  <2>6. CASE Has(n, "move")
    <3>1. Adds(GenerateChange(edited, n, m, "move"), edited, "move", n)
      BY <2>1, <2>5, <2>6, ChangeAdds
    <3>2. Complete(moved)
      BY <2>5, <2>6, <3>1, AddsKeeps DEF Complete
    <3> HIDE DEF moved
    <3> QED
      BY <1>1, <1>2, <3>2
  <2>7. CASE ~Has(n, "move")
    <3>1. MoveBut(edited.ops, {})
      BY <2>5, <2>7 DEF MoveBut
    <3>2. Complete(moved)
      BY <2>5, <2>7, <3>1 DEF Complete
    <3> HIDE DEF moved
    <3> QED
      BY <1>1, <1>2, <3>2
  <2> QED
    BY <2>6, <2>7
<1> QED
  BY <1>6, <1>7

\* What the generator ends with.
LEMMA GeneratedComplete ==
  ASSUME Seen, MaxId \in Nat
  PROVE  Complete(Generated)
<1> DEFINE nodes == Exploration
           n == Len(nodes)
           S == {g \in Generators : Complete(g)}
           Is(f) == f = [k \in 0 .. n |-> IF k = 0 THEN Start ELSE Generate(f[k - 1], nodes[k])]
           generated == CHOOSE f : Is(f)
           step == [k \in 1 .. n |-> [g \in S |-> Generate(g, nodes[k])]]
<1>1. n \in Nat /\ \A k \in 1 .. n : nodes[k] \in Nodes
  <2>1. nodes \in Seq(Nodes)
    BY ExploredAreNodes
  <2> HIDE DEF nodes
  <2> QED
    BY <2>1
<1>2. Generated = generated[n]
  BY DEF Generated
<1> HIDE DEF nodes, n
<1>3. Start \in S
  <2>1. Start \in Generators /\ Start.ops = <<>>
    BY DEF Start, Generators
  <2>2. MoveBut(Start.ops, {})
    BY <2>1 DEF MoveBut
  <2> QED
    BY <2>1, <2>2 DEF Complete
<1>4. \A k \in 1 .. n : \A g \in S : Generate(g, nodes[k]) \in S
  BY <1>1, GenerateKeeps DEF Complete
<1> HIDE DEF S
<1>5. PICK f : Follows(f, n, S, Start, step)
  <2>1. step \in Steps(n, S)
    BY <1>4 DEF Steps
  <2> HIDE DEF step
  <2> QED
    BY <1>1, <1>3, <2>1, RecursionUpTo
<1>6. Is(f)
  <2>1. ASSUME NEW k \in 1 .. n PROVE f[k] = Generate(f[k - 1], nodes[k])
    <3>1. k - 1 \in 0 .. n
      BY <1>1
    <3>2. f[k - 1] \in S
      BY <1>5, <3>1 DEF Follows
    <3> QED
      BY <1>5, <3>2 DEF Follows
  <2>2. \A k \in 0 .. n : f[k] = IF k = 0 THEN Start ELSE Generate(f[k - 1], nodes[k])
    BY <1>1, <1>5, <2>1 DEF Follows
  <2>3. f = [k \in 0 .. n |-> IF k = 0 THEN Start ELSE Generate(f[k - 1], nodes[k])]
    BY <1>5, <2>2 DEF Follows
  <2> QED
    BY <2>3
<1>7. Is(generated)
  <2> HIDE DEF Is
  <2> QED
    BY <1>6
<1> HIDE DEF generated
<1>8. generated[0] = Start /\ \A k \in 1 .. n : generated[k] = Generate(generated[k - 1], nodes[k])
  BY <1>1, <1>7
<1> DEFINE T == {k \in 0 .. n : generated[k] \in S}
<1>9. \A k \in 1 .. n : k - 1 \in T => k \in T
  BY <1>1, <1>4, <1>8
<1>10. 0 \in T
  BY <1>1, <1>3, <1>8
<1> HIDE DEF T
<1>11. 0 .. n \subseteq T
  BY <1>1, <1>9, <1>10, InductionUpTo
<1>12. generated[n] \in S
  BY <1>1, <1>11 DEF T
<1> QED
  BY <1>2, <1>12 DEF S

-----------------------------------------------------------------------------
(* What the sorter counts on.                                               *)

\* The maker of an operation is the create of the folder its node is in.
LEMMA MakerMakes ==
  ASSUME NEW q, Len(q) \in Nat, NEW k, Maker(q, k) # 0
  PROVE  /\ Maker(q, k) \in 1 .. Len(q) /\ q[Maker(q, k)].type = "create"
         /\ q[Maker(q, k)].node = Parent(q[k].node)
<1> DEFINE makers == {c \in OfType(q, "create") : q[c].node = Parent(q[k].node)}
<1>1. Maker(q, k) = IF makers = {} THEN 0 ELSE Min(makers)
  BY DEF Maker
<1>2. makers \in SUBSET Nat
  BY DEF OfType
<1>3. makers # {} => \E m \in makers : \A c \in makers : m <= c
  <2> HIDE DEF makers
  <2> QED
    BY <1>2, Least
<1>4. makers # {} => Min(makers) \in makers
  BY <1>3 DEF Min
<1>5. Maker(q, k) \in makers
  <2> HIDE DEF makers
  <2> QED
    BY <1>1, <1>4
<1> QED
  BY <1>5 DEF OfType

\* What is in a folder that is created is on its replica, and has moved if it has a row.
InMade(n, p) ==
    /\ p = <<n[1], p[2]>> /\ p[2] \in DOMAIN fs[n[1]]
    /\ n[2] \in DOMAIN fs[n[1]] /\ fs[n[1]][n[2]].parent = p[2]
    /\ Node(p).dir
    /\ ~Has(n, "delete")
    /\ ~Has(n, "create") => Has(n, "move")
\* What the detection says of a node in a folder it found as new.
LEMMA MadeHas ==
  ASSUME Seen, NEW n \in Nodes, NEW p \in Nodes, p = Parent(n), Has(p, "create")
  PROVE  InMade(n, p)
<1> DEFINE s == n[1]
           d == tree[n[1]]
<1>1. s \in Sides /\ IsTree(fs[s]) /\ AreRows(db)
  BY SeenNodes DEF Seen, AreTrees
<1>2. ~IsRoot(n) /\ p = <<s, Node(n).parent>> /\ p[1] = s /\ p[2] = d[n[2]].parent
  <2>1. p[2] \in Ids \cup {Root}
    BY SeenNodes
  <2>2. p[2] # None
    BY <2>1 DEF Ids, Root, None
  <2> QED
    BY <2>2 DEF Parent, NoNode, Node
<1>3. n[2] # Root /\ n[2] \in DOMAIN d /\ p[2] \in DOMAIN d /\ Tells(d, s, n[2]) /\ Tells(d, s, p[2])
  BY <1>1, <1>2, SeenNodes DEF IsRoot
<1>4. "create" \in d[p[2]].ev /\ p[2] # Root
  BY <1>2, <1>3 DEF Has, Node, Tells
<1>5. p[2] \notin Synced(s)
  BY <1>3, <1>4 DEF Tells
<1>6. DOMAIN d = DOMAIN fs[s] \cup Synced(s) \cup {Root}
  <2>1. d = Detected(s)
    BY <1>1 DEF Seen
  <2> QED
    BY <1>1, <2>1, DetectedTells
<1>7. p[2] \in DOMAIN fs[s]
  BY <1>3, <1>4, <1>5, <1>6
<1>8. n[2] \in Synced(s) => SideId(s, db[RowOf(s, n[2])].parent) \in Synced(s) \cup {Root}
  <2> SUFFICES ASSUME n[2] \in Synced(s)
               PROVE  SideId(s, db[RowOf(s, n[2])].parent) \in Synced(s) \cup {Root}
    OBVIOUS
  <2> DEFINE up == db[RowOf(s, n[2])].parent
  <2>1. RowOf(s, n[2]) \in DOMAIN db
    BY <1>1, SyncedHaveRows
  <2>2. up \in DOMAIN db \cup {Root}
    BY <1>1, <2>1 DEF AreRows
  <2>3. up = Root => SideId(s, up) = Root
    BY DEF SideId
  <2> HIDE DEF up
  <2>4. up \in DOMAIN db => SideId(s, up) \in Synced(s)
    BY DEF Synced
  <2> QED
    BY <2>2, <2>3, <2>4 DEF up
<1>9. n[2] \in DOMAIN fs[s]
  <2> SUFFICES ASSUME n[2] \notin DOMAIN fs[s] PROVE FALSE
    OBVIOUS
  <2>1. n[2] \in Synced(s)
    BY <1>3, <1>6
  <2>2. d[n[2]].parent = SideId(s, db[RowOf(s, n[2])].parent)
    BY <1>3 DEF Tells
  <2> QED
    BY <1>2, <1>4, <1>5, <1>8, <2>1, <2>2
<1>10. fs[s][n[2]].parent = p[2]
  BY <1>2, <1>3, <1>9 DEF Tells
<1>11. Node(p).dir
  <2>1. Node(p).dir = fs[s][p[2]].dir
    BY <1>2, <1>3, <1>4, <1>7 DEF Tells, Node
  <2>2. fs[s][p[2]].dir
    BY <1>1, <1>4, <1>9, <1>10 DEF IsTree
  <2> QED
    BY <2>1, <2>2
<1>12. n[2] \in Synced(s) => ItsPlace(s, n[2]) # RowPlace(s, n[2])
  <2>1. ItsPlace(s, n[2]).parent = p[2]
    BY <1>10 DEF ItsPlace
  <2>2. RowPlace(s, n[2]).parent = SideId(s, db[RowOf(s, n[2])].parent)
    BY DEF RowPlace
  <2> QED
    BY <1>4, <1>5, <1>8, <2>1, <2>2
<1>13. ~Has(n, "delete") /\ (~Has(n, "create") => Has(n, "move"))
  BY <1>3, <1>9, <1>12 DEF Has, Node, Tells
<1> QED
  BY <1>2, <1>7, <1>9, <1>10, <1>11, <1>13 DEF InMade

\* The generated operations, and what is in what a create makes.
Propagates(op) ==
    /\ {"after", "type", "node", "omit"} \subseteq DOMAIN op
    /\ op.type \in Events /\ op.node \in Nodes /\ Has(op.node, op.type)
    /\ op.target = OtherSide(op.node[1])
Generates(q) ==
    Seen /\ Len(q) \in Nat /\ (\A k \in 1 .. Len(q) : Propagates(q[k])) /\ MoveBut(q, {})

\* The list a generator ends with.
LEMMA CompleteGenerates ==
  ASSUME Seen, NEW g, Complete(g)
  PROVE  Generates(g.ops)
<1>1. g.ops \in Seq(Propagations) /\ MoveBut(g.ops, {})
  BY DEF Complete, Generators
<1>2. Len(g.ops) \in Nat /\ \A k \in 1 .. Len(g.ops) : g.ops[k] \in Propagations
  BY <1>1
<1>3. ASSUME NEW op \in Propagations PROVE Propagates(op)
  BY DEF Propagations, Propagates
<1> QED
  BY <1>1, <1>2, <1>3 DEF Generates

\* So of each operation and its maker.
LEMMA MadeIn ==
  ASSUME NEW q, Generates(q), NEW k \in 1 .. Len(q), Maker(q, k) # 0
  PROVE  InMade(q[k].node, q[Maker(q, k)].node)
<1>1. Seen /\ Len(q) \in Nat /\ \A j \in 1 .. Len(q) : Propagates(q[j])
  BY DEF Generates
<1> DEFINE c == Maker(q, k)
<1>2. c \in 1 .. Len(q) /\ q[c].type = "create" /\ q[c].node = Parent(q[k].node)
  BY <1>1, MakerMakes
<1>3. q[k].node \in Nodes /\ q[c].node \in Nodes /\ Has(q[c].node, "create")
  BY <1>1, <1>2 DEF Propagates
<1> HIDE DEF c
<1> QED
  BY <1>1, <1>2, <1>3, MadeHas DEF c

\* The three parts of RulesCanCount, for a generated list: makers are folders;
LEMMA GeneratedFolders ==
  ASSUME NEW q, Generates(q)
  PROVE  MakersMakeFolders(q)
  BY MadeIn DEF MakersMakeFolders, InMade

\* what is put into a new folder is new, moved there, or the edit of what moved;
LEMMA GeneratedMoves ==
  ASSUME NEW q, Generates(q)
  PROVE  MadeIsMoved(q)
<1>1. Seen /\ Len(q) \in Nat /\ \A j \in 1 .. Len(q) : Propagates(q[j])
  BY DEF Generates
<1> SUFFICES ASSUME NEW k \in 1 .. Len(q), Maker(q, k) # 0, q[k].type # "create"
             PROVE  \/ <<k, Maker(q, k)>> \in CreateBeforeMove(q)
                    \/ \E m \in 1 .. Len(q) : /\ <<k, m>> \in MoveBeforeEdit(q)
                                              /\ <<m, Maker(q, k)>> \in CreateBeforeMove(q)
  BY DEF MadeIsMoved
<1> DEFINE c == Maker(q, k)
           n == q[k].node
           p == q[c].node
<1>2. InMade(n, p)
  BY MadeIn
<1>3. c \in 1 .. Len(q) /\ q[c].type = "create" /\ p = Parent(n)
  BY <1>1, MakerMakes
<1>4. /\ n \in Nodes /\ Has(n, q[k].type) /\ q[k].type \in Events
      /\ \A j \in 1 .. Len(q) : q[j].target = OtherSide(q[j].node[1])
  BY <1>1 DEF Propagates
<1> HIDE DEF c, n, p
<1>5. q[k].type \in {"edit", "move"} /\ ~Has(n, "create")
  <2>1. q[k].type # "delete"
    BY <1>2, <1>4 DEF InMade
  <2>2. q[k].type \in {"edit", "move"}
    BY <1>4, <2>1 DEF Events
  <2>3. Tells(tree[n[1]], n[1], n[2])
    BY <1>1, <1>4, SeenNodes
  <2> QED
    BY <1>4, <2>2, <2>3 DEF Has, Node, Tells
<1>6. ASSUME NEW m \in 1 .. Len(q), q[m].type = "move", q[m].node = n
      PROVE  <<m, c>> \in CreateBeforeMove(q)
  <2>1. q[m].target = q[c].target
    BY <1>2, <1>3, <1>4, <1>6 DEF InMade, p
  <2>2. <<m, c>> \in Pairs(q, "move", "create")
    BY <1>3, <1>6, <2>1 DEF Pairs, OfType
  <2>3. Node(q[c].node).dir /\ Parent(q[m].node) = q[c].node
    BY <1>2, <1>3, <1>6 DEF InMade, p
  <2> QED
    BY <2>2, <2>3 DEF CreateBeforeMove
<1>7. CASE q[k].type = "move"
  BY <1>6, <1>7 DEF c, n
<1>8. CASE q[k].type = "edit"
  <2>1. Has(n, "move")
    BY <1>2, <1>5 DEF InMade
  <2>2. PICK m \in 1 .. Len(q) : q[m].type = "move" /\ q[m].node = n
    BY <1>8, <2>1 DEF Generates, MoveBut, MovesToo, n
  <2>3. q[m].target = q[k].target
    BY <1>4, <2>2 DEF n
  <2>4. <<k, m>> \in MoveBeforeEdit(q)
    BY <1>8, <2>2, <2>3 DEF MoveBeforeEdit, Pairs, OfType, n
  <2> QED
    BY <1>6, <2>2, <2>4 DEF c
<1> QED
  BY <1>5, <1>7, <1>8

\* and nobody is above himself, as the replica is a tree.
LEMMA GeneratedEnd ==
  ASSUME NEW q, Generates(q)
  PROVE  MakersEnd(q)
<1>1. AreTrees(fs) /\ Len(q) \in Nat /\ \A j \in 1 .. Len(q) : q[j].node \in Nodes
  BY DEF Generates, Seen, Propagates
<1> DEFINE m == Len(q)
<1> SUFFICES ASSUME NEW k \in 1 .. m, Makers(q, k)[m] # 0 PROVE FALSE
  BY DEF MakersEnd
<1> DEFINE up == Makers(q, k)
<1>2. /\ up \in [0 .. m -> 0 .. m]
      /\ \A d \in 1 .. m : up[d] = IF up[d - 1] = 0 THEN 0 ELSE Maker(q, up[d - 1])
      /\ up[0] = k
  BY <1>1, MakersAbove
<1>3. m \in Nat /\ m # 0
  BY <1>1
<1> HIDE DEF up
<1>4. ASSUME NEW e \in 0 .. m PROVE up[e] # 0
  <2> DEFINE T == {d \in 0 .. m : d >= e => up[d] = 0}
  <2> SUFFICES ASSUME up[e] = 0 PROVE FALSE
    OBVIOUS
  <2>1. 0 \in T
    BY <1>3
  <2>2. ASSUME NEW d \in 1 .. m, d - 1 \in T PROVE d \in T
    <3>1. CASE d > e
      <4>1. d - 1 >= e /\ up[d - 1] = 0
        BY <1>3, <2>2, <3>1
      <4> QED
        BY <1>2, <1>3, <4>1
    <3> QED
      BY <1>3, <3>1
  <2> HIDE DEF T
  <2>3. 0 .. m \subseteq T
    BY <1>3, <2>1, <2>2, InductionUpTo
  <2>4. m \in T
    BY <1>3, <2>3
  <2> QED
    BY <1>3, <2>4 DEF T, up
<1>5. PICK a \in 0 .. m, b \in 0 .. m : a # b /\ up[a] = up[b]
  <2>1. /\ IsFiniteSet(0 .. m) /\ Cardinality(0 .. m) = m + 1
        /\ IsFiniteSet(1 .. m) /\ Cardinality(1 .. m) = m
    <3> HIDE DEF m
    <3>1. IsFiniteSet(0 .. m) /\ Cardinality(0 .. m) = m + 1
      BY <1>3, FS_Interval
    <3>2. IsFiniteSet(1 .. m) /\ Cardinality(1 .. m) = m
      BY <1>3, FS_Interval
    <3> QED
      BY <3>1, <3>2
  <2>2. up \in [0 .. m -> 1 .. m]
    BY <1>2, <1>3, <1>4
  <2>3. Cardinality(1 .. m) < Cardinality(0 .. m)
    BY <1>3, <2>1
  <2> QED
    BY <2>1, <2>2, <2>3, FS_PigeonHole
<1> DEFINE node == [d \in 0 .. m |-> q[up[d]].node]
<1>6. ASSUME NEW d \in 1 .. m PROVE InMade(node[d - 1], node[d])
  <2>1. d - 1 \in 0 .. m /\ up[d - 1] \in 1 .. m /\ up[d] = Maker(q, up[d - 1]) /\ up[d] # 0
    <3> HIDE DEF m
    <3>1. d - 1 \in 0 .. m /\ d \in 0 .. m
      BY <1>3
    <3>2. up[d - 1] # 0 /\ up[d] # 0
      BY <1>4, <3>1
    <3>3. up[d - 1] \in 0 .. m
      BY <1>2, <3>1
    <3> QED
      BY <1>2, <1>3, <3>1, <3>2, <3>3
  <2> HIDE DEF node
  <2>2. InMade(q[up[d - 1]].node, q[up[d]].node)
    BY <2>1, MadeIn
  <2> QED
    BY <2>1, <2>2 DEF node
<1> HIDE DEF node
<1> DEFINE s == node[0][1]
           f == fs[s]
           at(d) == node[d][2]
<1>7. \A d \in 0 .. m : node[d][1] = s
  <2> DEFINE T == {d \in 0 .. m : node[d][1] = s}
  <2>1. 0 \in T
    BY <1>3
  <2>2. ASSUME NEW d \in 1 .. m, d - 1 \in T PROVE d \in T
    BY <1>3, <1>6, <2>2 DEF InMade
  <2> HIDE DEF T
  <2>3. 0 .. m \subseteq T
    BY <1>3, <2>1, <2>2, InductionUpTo
  <2> QED
    BY <2>3 DEF T
<1>8. ASSUME NEW d \in 1 .. m
      PROVE  at(d - 1) \in DOMAIN f /\ f[at(d - 1)].parent = at(d)
  BY <1>3, <1>6, <1>7 DEF InMade
<1>9. IsTree(f)
  <2>1. up[0] \in 1 .. m /\ node[0] = q[up[0]].node
    BY <1>2, <1>3, <1>4 DEF node
  <2>2. node[0] \in Nodes
    BY <1>1, <2>1
  <2>3. s \in Sides
    BY <2>2, SeenNodes DEF Generates
  <2> QED
    BY <1>1, <2>3 DEF AreTrees
<1>10. ASSUME NEW i \in 0 .. m, NEW j \in 0 .. m, i < j, up[i] = up[j] PROVE FALSE
  <2>1. at(i) = at(j)
    BY <1>10 DEF node
  <2> HIDE DEF at, f
  <2> DEFINE S == {at(d) : d \in i .. j}
  <2>2. \A d \in i .. j - 1 : at(d) \in DOMAIN f /\ f[at(d)].parent = at(d + 1)
    <3> TAKE d \in i .. j - 1
    <3>1. d + 1 \in 1 .. m /\ (d + 1) - 1 = d
      BY <1>3, <1>10
    <3> QED
      BY <1>8, <3>1
  <2>3. \A d \in i .. j : at(d) \in DOMAIN f /\ f[at(d)].parent \in S
    <3> TAKE d \in i .. j
    <3>1. CASE d # j
      <4>1. d \in i .. j - 1 /\ d + 1 \in i .. j
        BY <1>3, <1>10, <3>1
      <4> QED
        BY <2>2, <4>1
    <3>2. CASE d = j
      <4>1. i \in i .. j - 1 /\ i + 1 \in i .. j
        BY <1>3, <1>10
      <4> QED
        BY <2>1, <2>2, <3>2, <4>1
    <3> QED
      BY <3>1, <3>2
  <2>4. S \in SUBSET DOMAIN f /\ S # {} /\ \A x \in S : f[x].parent \in S
    <3>1. at(i) \in S
      BY <1>3, <1>10
    <3> HIDE DEF S
    <3>2. \A x \in S : \E d \in i .. j : x = at(d)
      BY DEF S
    <3> QED
      BY <2>3, <3>1, <3>2
  <2> HIDE DEF S
  <2> QED
    BY <1>9, <2>4 DEF IsTree
<1>11. a < b \/ b < a
  BY <1>3, <1>5
<1> QED
  BY <1>5, <1>10, <1>11

-----------------------------------------------------------------------------
(* The operations that solve conflicts.                                     *)

\* They only move and delete.
Solves(o) ==
    /\ {"after", "type", "node", "omit", "conflict"} \subseteq DOMAIN o
    /\ o.type \in {"move", "delete"} /\ o.conflict # NoConflict
Resolves(q) ==
    \E S : /\ q \in Seq(S)
           /\ \A o \in S : Solves(o)

\* The same of the operations of a list.
LEMMA ResolvesElements ==
  ASSUME NEW q
  PROVE  Resolves(q) <=>
            /\ q \in Seq({q[k] : k \in 1 .. Len(q)})
            /\ Len(q) \in Nat
            /\ \A k \in 1 .. Len(q) : Solves(q[k])
<1>1. ASSUME NEW S, q \in Seq(S),
             \A o \in S : Solves(o)
      PROVE  /\ q \in Seq({q[k] : k \in 1 .. Len(q)})
             /\ Len(q) \in Nat
             /\ \A k \in 1 .. Len(q) : Solves(q[k])
  <2>1. Len(q) \in Nat /\ \A k \in 1 .. Len(q) : q[k] \in S
    BY <1>1
  <2>2. q \in Seq({q[k] : k \in 1 .. Len(q)})
    BY <1>1
  <2> QED
    BY <1>1, <2>1, <2>2
<1>2. ASSUME q \in Seq({q[k] : k \in 1 .. Len(q)}), Len(q) \in Nat,
             \A k \in 1 .. Len(q) : Solves(q[k])
      PROVE  Resolves(q)
  BY <1>2 DEF Resolves
<1> QED
  BY <1>1, <1>2 DEF Resolves

LEMMA ResolvesJoined ==
  ASSUME NEW p, NEW q, Resolves(p), Resolves(q)
  PROVE  Resolves(p \o q)
<1>1. PICK S : /\ p \in Seq(S)
               /\ \A o \in S : Solves(o)
  BY DEF Resolves
<1>2. PICK T : /\ q \in Seq(T)
               /\ \A o \in T : Solves(o)
  BY DEF Resolves
<1>3. p \in Seq(S \cup T) /\ q \in Seq(S \cup T)
  BY <1>1, <1>2
<1>4. p \o q \in Seq(S \cup T)
  BY <1>3
<1>5. \A o \in S \cup T : Solves(o)
  BY <1>1, <1>2
<1> HIDE DEF Resolves
<1> QED
  BY <1>4, <1>5 DEF Resolves

LEMMA ResolvesAre ==
  ASSUME NEW S, NEW q \in Seq(S),
         \A o \in S : Solves(o)
  PROVE  Resolves(q)
  BY DEF Resolves

LEMMA ResolvesAlone ==
  ASSUME NEW o, Solves(o)
  PROVE  Resolves(<<o>>)
<1> DEFINE S == {o}
<1>1. <<o>> \in Seq(S)
  OBVIOUS
<1>2. \A x \in S : Solves(x)
  OBVIOUS
<1> HIDE DEF S
<1> QED
  BY <1>1, <1>2, ResolvesAre

LEMMA ResolvesNothing == Resolves(<<>>)
<1> DEFINE S == {}
<1>1. <<>> \in Seq(S)
  OBVIOUS
<1>2. \A x \in S : Solves(x)
  OBVIOUS
<1> HIDE DEF S
<1> QED
  BY <1>1, <1>2, ResolvesAre

\* So does the solution of a conflict, whatever its type.
LEMMA SolutionResolves ==
  ASSUME AreRows(db), MaxId \in Nat, NEW c, c # NoConflict, NEW left, NEW from
  PROVE  Resolves(Solution(c, left, from))
<1>1. ASSUME NEW name PROVE Resolves(<<RenameLocal(c, name)>>)
  BY ResolvesAlone DEF RenameLocal, Operation, Solves
<1>2. ASSUME NEW node, NEW other PROVE Resolves(<<DropRow(c, node, other)>>)
  BY ResolvesAlone DEF DropRow, Operation, Solves
<1>3. ASSUME NEW name PROVE Resolves(SolveEditDelete(c, name))
  <2> DEFINE deleted == WithEvent(c, "delete")
             edited == WithEvent(c, "edit")
             move == [Operation("move", deleted, edited, edited[1]) EXCEPT
                        !.newName = name, !.newParent = RootOf(deleted[1]), !.conflict = c]
             drop == DropRow(c, deleted, edited)
             S == {move, drop}
  <2>1. \A o \in S : Solves(o)
    BY DEF Operation, DropRow, Solves
  <2>2. <<move, drop>> \in Seq(S)
    <3> HIDE DEF move, drop
    <3> QED
      OBVIOUS
  <2> HIDE DEF S
  <2>3. Resolves(<<move, drop>>)
    BY <2>1, <2>2, ResolvesAre
  <2> HIDE DEF move, drop, deleted, edited
  <2>4. SolveEditDelete(c, name) \in {<<move, drop>>, <<DropRow(c, edited, deleted)>>}
    BY DEF SolveEditDelete, move, drop, deleted, edited
  <2> QED
    BY <1>2, <2>3, <2>4
<1>4. ASSUME NEW name PROVE Resolves(SolveMoveDelete(c, name))
  <2> DEFINE deleted == WithEvent(c, "delete")
             orphans1 == InOrder(Orphans(deleted))
             moves == [k \in 1 .. Len(orphans1) |-> MoveOrphan(c, orphans1[k], name + k - 1)]
  <2>1. Len(orphans1) \in Nat
    <3>1. Orphans(deleted) \subseteq DOMAIN db
      BY DEF Orphans, Under
    <3>2. DOMAIN db \subseteq 1 .. MaxId
      BY DEF AreRows, Ids
    <3>3. IsFiniteSet(Orphans(deleted))
      <4>1. IsFiniteSet(1 .. MaxId)
        BY FS_Interval
      <4>2. Orphans(deleted) \in SUBSET (1 .. MaxId)
        BY <3>1, <3>2
      <4> QED
        BY <4>1, <4>2, FS_Subset
    <3>4. Numbers(Orphans(deleted))
      BY <3>1, <3>2 DEF Numbers
    <3> HIDE DEF deleted
    <3> QED
      BY <3>3, <3>4, InOrderType
  <2> HIDE DEF orphans1
  <2>2. Resolves(moves)
    <3> DEFINE S == {MoveOrphan(c, orphans1[k], name + k - 1) : k \in 1 .. Len(orphans1)}
    <3>1. moves \in Seq(S)
      BY <2>1
    <3>2. \A o \in S : Solves(o)
      BY DEF MoveOrphan, Operation, Solves
    <3> HIDE DEF S, moves
    <3> QED
      BY <3>1, <3>2 DEF Resolves
  <2>3. Resolves(<<DropRow(c, deleted, WithEvent(c, "move"))>>)
    BY <1>2
  <2> HIDE DEF moves
  <2>4. Resolves(moves \o <<DropRow(c, deleted, WithEvent(c, "move"))>>)
    BY <2>2, <2>3, ResolvesJoined
  <2> QED
    BY <2>4 DEF SolveMoveDelete, moves, orphans1
<1>5. ASSUME NEW deleted, NEW there
      PROVE  Resolves(<<[Operation("delete", deleted, there, there[1]) EXCEPT !.conflict = c]>>)
  BY ResolvesAlone DEF Operation, Solves
<1>6. ASSUME NEW moved, NEW name PROVE Resolves(<<UndoMove(c, moved, name)>>)
  BY ResolvesAlone DEF UndoMove, Operation, Solves
<1>7. CASE c.type \in RenameConflicts
  <2>1. Solution(c, left, from) = <<RenameLocal(c, NewName)>>
    BY <1>7 DEF Solution, RenameConflicts
  <2> QED
    BY <1>1, <2>1
<1>8. CASE c.type = "editDelete" /\ c.type \notin RenameConflicts
  BY <1>3, <1>8 DEF Solution
<1>9. CASE c.type = "moveDelete" /\ c.type \notin RenameConflicts
  BY <1>4, <1>9, ResolvesNothing DEF Solution
<1>10. CASE c.type = "createParentDelete" /\ c.type \notin RenameConflicts
  BY <1>5, <1>10 DEF Solution
<1>11. CASE c.type \notin RenameConflicts \cup {"editDelete", "moveDelete", "createParentDelete"}
  BY <1>6, <1>11 DEF Solution
<1> QED
  BY <1>7, <1>8, <1>9, <1>10, <1>11

\* Nothing is made by them, and so nothing is put into what they make.
LEMMA ResolvesCount ==
  ASSUME NEW q, Resolves(q)
  PROVE  RulesCanCount(q)
<1>1. /\ Len(q) \in Nat
      /\ \A k \in 1 .. Len(q) : q[k].type \in {"move", "delete"}
  BY ResolvesElements DEF Solves
<1>2. ASSUME NEW k PROVE Maker(q, k) = 0
  <2>1. {c \in OfType(q, "create") : q[c].node = Parent(q[k].node)} = {}
    BY <1>1 DEF OfType
  <2> QED
    BY <2>1 DEF Maker
<1>3. MakersMakeFolders(q) /\ MadeIsMoved(q)
  BY <1>2 DEF MakersMakeFolders, MadeIsMoved
<1>4. MakersEnd(q)
  <2> SUFFICES ASSUME NEW k \in 1 .. Len(q) PROVE Makers(q, k)[Len(q)] = 0
    BY DEF MakersEnd
  <2> DEFINE n == Len(q)
             up == Makers(q, k)
  <2>1. n \in 1 .. n /\ \A d \in 1 .. n : up[d] = IF up[d - 1] = 0 THEN 0 ELSE Maker(q, up[d - 1])
    BY <1>1, MakersAbove
  <2> HIDE DEF up, n
  <2>2. up[n] = 0
    BY <1>2, <2>1
  <2> QED
    BY <2>2 DEF up, n
<1> QED
  BY <1>3, <1>4 DEF RulesCanCount

LEMMA GeneratesCount ==
  ASSUME NEW q, Generates(q)
  PROVE  RulesCanCount(q)
  BY GeneratedFolders, GeneratedMoves, GeneratedEnd DEF RulesCanCount

\* What moved or was deleted has a row, and so a counterpart.
LEMMA ChangedHaveCounterparts ==
  ASSUME Seen, NEW n \in Nodes, NEW type \in {"delete", "move"}, Has(n, type)
  PROVE  Exists(CorrespondingInOtherTree(n))
<1> DEFINE s == n[1]
           t == OtherSide(s)
           i == n[2]
           row == RowOf(s, i)
           j == SideId(t, row)
<1>1. s \in Sides /\ i \in DOMAIN tree[s] /\ tree[s] = Detected(s) /\ Tells(tree[s], s, i)
      /\ AreRows(db) /\ t \in Sides /\ tree[t] = Detected(t)
  BY SeenNodes DEF Seen, OtherSide, Sides
<1>2. type \in tree[s][i].ev
  BY DEF Has, Node
<1>3. i # Root
  BY <1>1, <1>2 DEF Tells
<1>4. i \in Synced(s)
  <2>1. DOMAIN Detected(s) = DOMAIN fs[s] \cup Synced(s) \cup {Root}
    BY <1>1, DetectedTells
  <2>2. type = "move" => i \in Synced(s)
    BY <1>1, <1>2, <1>3 DEF Tells
  <2>3. type = "delete" => i \notin DOMAIN fs[s]
    BY <1>1, <1>2, <1>3 DEF Tells
  <2> HIDE DEF s, i
  <2> QED
    BY <1>1, <1>3, <2>1, <2>2, <2>3
<1>5. row \in DOMAIN db
  <2> HIDE DEF s, i
  <2> QED
    BY <1>1, <1>4, SyncedHaveRows
<1>6. tree[s][i].idb = row
  <2>1. ASSUME NEW u, NEW k \in DOMAIN Detected(u), k # Root PROVE Detected(u)[k].idb = RowOf(u, k)
    BY <2>1 DEF Detected
  <2> HIDE DEF s, i
  <2> QED
    BY <1>1, <1>3, <2>1
<1>7. j \in Synced(t) /\ j \in Ids
  <2> HIDE DEF row, t
  <2> QED
    BY <1>1, <1>5, SyncedHaveRows
<1>8. InTree(<<t, j>>)
  <2>1. j \in DOMAIN Detected(t) /\ Detected(t)[j].in
    <3> HIDE DEF j, t
    <3>1. j \in DOMAIN Detected(t)
      BY <1>1, <1>7, DetectedTells
    <3>2. Tells(Detected(t), t, j)
      BY <1>1, <3>1, DetectedTells
    <3> QED
      BY <3>1, <3>2 DEF Tells
  <2> HIDE DEF j, t
  <2> QED
    BY <1>1, <2>1 DEF InTree, Node
<1>9. row \in Ids /\ row # None
  BY <1>1, <1>5 DEF AreRows, Ids, None
<1>10. CorrespondingDirect(n) = <<t, j>>
  <2>1. Node(n).idb = row
    BY <1>6 DEF Node
  <2> HIDE DEF row
  <2> QED
    BY <1>5, <1>8, <1>9, <2>1 DEF CorrespondingDirect
<1>11. CorrespondingInOtherTree(n) = <<t, j>>
  <2> HIDE DEF j, t
  <2> QED
    BY <1>9, <1>10 DEF CorrespondingInOtherTree
<1>12. j # None
  BY <1>7 DEF Ids, None
<1> HIDE DEF j, t
<1> QED
  BY <1>11, <1>12 DEF Exists

\* breakCycle always finds what to rename among the generated operations.
LEMMA GeneratedAreBroken ==
  ASSUME NEW q, Generates(q)
  PROVE  CyclesAreBroken(q)
<1>1. Seen /\ Len(q) \in Nat /\ \A j \in 1 .. Len(q) : Propagates(q[j])
  BY DEF Generates
<1>2. ASSUME NEW k \in 1 .. Len(q), q[k].type \in {"delete", "move"}
      PROVE  Exists(CorrespondingInOtherTree(q[k].node))
  <2>1. q[k].node \in Nodes /\ Has(q[k].node, q[k].type)
    BY <1>1 DEF Propagates
  <2> QED
    BY <1>1, <1>2, <2>1, ChangedHaveCounterparts
<1>3. MakersEnd(q)
  BY GeneratedEnd
<1> QED
  BY <1>1, <1>2, <1>3, BrokenWhenFound

\* What is found is a conflict.
Real(found) == \A c \in found : c # NoConflict
LEMMA FoundAreReal ==
  ASSUME NEW finished
  PROVE  Real(FindConflicts(finished))
<1>1. ASSUME NEW n
      PROVE  /\ Real(CreateCreate(n, finished)) /\ Real(EditEdit(n)) /\ Real(MoveDelete(n))
             /\ Real(EditDelete(n)) /\ Real(MoveCreate(n))
             /\ Real(MoveMoveDest(n)) /\ Real(MoveMoveSource(n))
             /\ Real(ParentDelete(n, "move", "moveParentDelete"))
             /\ Real(ParentDelete(n, "create", "createParentDelete"))
  BY DEF Real, NoConflict, Conflict, CreateCreate, EditEdit, MoveDelete, EditDelete, MoveCreate,
         MoveMoveDest, MoveMoveSource, ParentDelete
<1> DEFINE nodes == {n \in Nodes : ~IsRoot(n)}
           a1 == UNION {CreateCreate(n, finished) : n \in nodes}
           a2 == UNION {EditEdit(n) : n \in nodes}
           a3 == UNION {ParentDelete(n, "move", "moveParentDelete") : n \in nodes}
           a4 == UNION {ParentDelete(n, "create", "createParentDelete") : n \in nodes}
           a5 == UNION {MoveDelete(n) : n \in nodes}
           a6 == UNION {EditDelete(n) : n \in nodes}
           a7 == UNION {MoveCreate(n) : n \in nodes}
           a8 == UNION {MoveMoveDest(n) : n \in nodes}
           a9 == UNION {MoveMoveSource(n) : n \in nodes}
           moved(s) == {n \in nodes : n[1] = s /\ Node(n).dir /\ Has(n, "move")}
           a10 == {Conflict("moveMoveCycle", p[1], p[2]) :
                    p \in {p \in moved(Local) \X moved(Remote) : MoveMoveCycle(p[1], p[2])}}
<1>2. Real(a1) /\ Real(a2) /\ Real(a3) /\ Real(a4) /\ Real(a5) /\ Real(a6) /\ Real(a7)
      /\ Real(a8) /\ Real(a9)
  BY <1>1 DEF Real
<1>3. Real(a10)
  BY DEF Real, NoConflict, Conflict
<1>4. FindConflicts(finished) =
        UNION {Once(a1), Once(a2), a3, a4, a5, a6, a7, Once(a8), Once(a9), a10}
  BY DEF FindConflicts
<1> HIDE DEF a1, a2, a3, a4, a5, a6, a7, a8, a9, a10
<1>5. \A found : Real(found) => Real(Once(found))
  BY DEF Once, Real
<1>6. Real(Once(a1)) /\ Real(Once(a2)) /\ Real(Once(a8)) /\ Real(Once(a9))
  BY <1>2, <1>5
<1> QED
  BY <1>2, <1>3, <1>4, <1>6 DEF Real

-----------------------------------------------------------------------------
(* From the trees to the sorter.                                            *)

\* The nodes of what may be a transfer are in the trees.
Known(n) == n[1] \in Sides /\ n[2] \in DOMAIN tree[n[1]] /\ "dir" \in DOMAIN tree[n[1]][n[2]]
Placed(q) ==
    \A k \in 1 .. Len(q) :
        /\ {"after", "type", "node", "omit"} \subseteq DOMAIN q[k]
        /\ q[k].type \in {"create", "edit"} => Known(q[k].node)

\* Detection tells files from folders; so the operations know what they transfer.
LEMMA DetectedKnown ==
  ASSUME NEW s \in Sides, NEW i \in DOMAIN Detected(s)
  PROVE  "dir" \in DOMAIN Detected(s)[i]
  BY DEF Detected, RootNode

\* The generated operations and those of conflicts are of known nodes.
LEMMA GeneratesPlaced ==
  ASSUME NEW q, Generates(q)
  PROVE  Placed(q)
<1>1. Len(q) \in Nat /\ \A k \in 1 .. Len(q) : Propagates(q[k])
  BY DEF Generates
<1>2. ASSUME NEW k \in 1 .. Len(q) PROVE Known(q[k].node)
  <2>1. q[k].node \in Nodes
    BY <1>1 DEF Propagates
  <2> DEFINE n == q[k].node
  <2>2. n[1] \in Sides /\ n[2] \in DOMAIN tree[n[1]]
    BY <2>1, SeenNodes DEF Generates
  <2>3. tree[n[1]] = Detected(n[1])
    BY <2>2 DEF Generates, Seen
  <2> HIDE DEF n
  <2>4. Known(n)
    BY <2>2, <2>3, DetectedKnown DEF Known
  <2> QED
    BY <2>4 DEF n
<1>3. ASSUME NEW k \in 1 .. Len(q) PROVE {"after", "type", "node", "omit"} \subseteq DOMAIN q[k]
  BY <1>1 DEF Propagates
<1> QED
  BY <1>2, <1>3 DEF Placed

LEMMA ResolvesPlaced ==
  ASSUME NEW q, Resolves(q)
  PROVE  Placed(q)
  BY ResolvesElements DEF Placed, Solves

\* What the sorter is given.
Planned(q) == Resolves(q) \/ Generates(q)

\* What is so from the detection to the sorter.
PlanInv ==
    /\ Inv
    /\ pc \in {"find", "generate"} => tree = [s \in Sides |-> Detected(s)]
    /\ pc = "find" => ops = <<>>
    /\ pc = "resolve" => Resolves(ops) /\ Real(queue)
    /\ pc = "sort" => Planned(ops)

\* What is read of the state is the same when nothing of it changes.
LEMMA SeenSame ==
  ASSUME UNCHANGED <<fs, db, downward>>, NEW s
  PROVE  Detected(s)' = Detected(s)
  BY DEF Detected, RowOf, SideId, FirstOf, Before, DbPath, PathIn

\* Nor is what the generated operations are.
LEMMA GeneratesSame ==
  ASSUME UNCHANGED <<fs, db, tree, downward>>
  PROVE  Generates(ops)' <=> Generates(ops')
<1>1. Seen' <=> Seen
  <2>1. \A s \in Sides : Detected(s)' = Detected(s)
    BY SeenSame
  <2>2. [s \in Sides |-> Detected(s)]' = [s \in Sides |-> Detected(s)]
    BY <2>1
  <2>3. AreTrees(fs)' <=> AreTrees(fs)
    BY DEF AreTrees, IsTree
  <2>4. AreRows(db)' <=> AreRows(db)
    BY DEF AreRows
  <2> QED
    BY <2>2, <2>3, <2>4 DEF Seen
<1>2. \A op : Propagates(op)' <=> Propagates(op)
  BY DEF Propagates, Nodes, Has, Node
<1>3. MoveBut(ops, {})' <=> MoveBut(ops', {})
  BY DEF MoveBut, MovesToo, Has, Node
<1> QED
  BY <1>1, <1>2, <1>3 DEF Generates

LEMMA AbortPlans ==
  ASSUME Inv', Abort
  PROVE  PlanInv'
  BY DEF Abort, PlanInv

LEMMA InitPlans == Init => PlanInv
<1> SUFFICES ASSUME Init PROVE PlanInv
  OBVIOUS
<1>1. pc = "idle"
  BY DEF Init
<1> QED
  BY <1>1, InitInv DEF PlanInv

\* The generated list, at the end of the exploration.
LEMMA GeneratedPlanned ==
  ASSUME PlanInv, pc = "generate"
  PROVE  Generates(Generated.ops)
<1>1. Seen /\ MaxId \in Nat
  BY StartsAssumption DEF PlanInv, Inv, TypeOK, Seen
<1>2. Complete(Generated)
  BY <1>1, GeneratedComplete
<1> QED
  BY <1>1, <1>2, CompleteGenerates

\* The steps of a cycle.
LEMMA NextPlans ==
  ASSUME PlanInv, [Next]_vars
  PROVE  PlanInv'
<1>0. Inv /\ Inv' /\ DOMAIN tree = Sides /\ MaxId \in Nat
  BY NextInv, StartsAssumption DEF PlanInv, Inv
<1>1. CASE Detect
  <2>1. /\ pc' = "find" /\ tree' = [s \in Sides |-> Detected(s)] /\ ops' = <<>>
        /\ UNCHANGED <<fs, db, downward>>
    BY <1>1 DEF Detect
  <2>2. \A s \in Sides : Detected(s)' = Detected(s)
    BY <2>1, SeenSame
  <2>3. tree' = [s \in Sides |-> Detected(s)']
    BY <2>1, <2>2
  <2> QED
    BY <1>0, <2>1, <2>3 DEF PlanInv
<1>2. CASE Find
  <2>1. /\ pc = "find" /\ pc' \in {"generate", "resolve"} /\ ops = <<>> /\ ops' = ops
        /\ UNCHANGED <<fs, db, tree, downward>>
    BY <1>2 DEF Find, PlanInv
  <2>2. tree = [s \in Sides |-> Detected(s)]
    BY <2>1 DEF PlanInv
  <2>3. \A s \in Sides : Detected(s)' = Detected(s)
    BY <2>1, SeenSame
  <2>4. tree' = [s \in Sides |-> Detected(s)']
    BY <2>1, <2>2, <2>3
  <2>5. Resolves(ops') /\ Real(queue')
    BY <1>2, <2>1, ResolvesNothing, FoundAreReal DEF Find
  <2> QED
    BY <1>0, <2>1, <2>4, <2>5 DEF PlanInv
<1>3. CASE Resolve
  <2>1. pc = "resolve"
    BY <1>3 DEF Resolve
  <2>2. PICK c \in Tops(queue) :
          \/ /\ Abort
             /\ UNCHANGED <<fs, db, tree, downward, orphans, completed, changed, kept>>
          \/ /\ ops' = ops \o Solution(c, queue, orphans)
             /\ DOMAIN tree' = DOMAIN tree
             /\ pc' = IF queue' = {} THEN "sort" ELSE "resolve"
             /\ queue' \subseteq queue
    BY <1>3 DEF Resolve
  <2>3. CASE Abort /\ UNCHANGED tree
    BY <1>0, <2>3, AbortPlans
  <2>4. CASE /\ ops' = ops \o Solution(c, queue, orphans) /\ DOMAIN tree' = DOMAIN tree
             /\ pc' = IF queue' = {} THEN "sort" ELSE "resolve"
             /\ queue' \subseteq queue
    <3>1. Resolves(ops) /\ Real(queue) /\ c # NoConflict
      BY <2>1 DEF PlanInv, Tops, Real
    <3>4. Resolves(Solution(c, queue, orphans))
      BY <1>0, <3>1, SolutionResolves DEF Inv, TypeOK
    <3>2. Resolves(ops')
      BY <2>4, <3>1, <3>4, ResolvesJoined
    <3>3. Real(queue')
      BY <2>4, <3>1 DEF Real
    <3> QED
      BY <1>0, <2>4, <3>2, <3>3 DEF PlanInv, Planned
  <2> QED
    BY <2>2, <2>3, <2>4
<1>4. CASE GenerateAll
  <2>1. pc = "generate"
    BY <1>4 DEF GenerateAll
  <2>2. \/ Abort /\ UNCHANGED tree
        \/ ops' = Generated.ops /\ pc' = "sort" /\ UNCHANGED <<fs, db, tree, downward>>
    BY <1>4 DEF GenerateAll
  <2>3. CASE Abort /\ UNCHANGED tree
    BY <1>0, <2>3, AbortPlans
  <2>4. CASE ops' = Generated.ops /\ pc' = "sort" /\ UNCHANGED <<fs, db, tree, downward>>
    <3>1. Generates(ops')
      BY <2>1, <2>4, GeneratedPlanned
    <3>2. Generates(ops)'
      BY <2>4, <3>1, GeneratesSame
    <3> QED
      BY <1>0, <2>4, <3>2 DEF PlanInv, Planned
  <2> QED
    BY <2>2, <2>3, <2>4
<1>5. CASE Sort
  <2>1. pc' = "execute" /\ tree' = tree
    BY <1>5 DEF Sort
  <2> QED
    BY <1>0, <2>1 DEF PlanInv
<1>6. CASE Execute
  <2>1. Abort \/ pc' \in {"execute", "blocked"}
    BY <1>6 DEF Execute
  <2> QED
    BY <1>0, <2>1, AbortPlans DEF PlanInv
<1>7. CASE Finish
  <2>1. pc' = "idle" /\ tree' = tree
    BY <1>7 DEF Finish
  <2> QED
    BY <1>0, <2>1 DEF PlanInv
<1>8. CASE Rest \/ UNCHANGED vars
  <2>1. UNCHANGED <<fs, db, tree, downward, pc, ops, queue>>
    BY <1>8 DEF Rest, vars
  <2>2. \A s \in Sides : Detected(s)' = Detected(s)
    BY <2>1, SeenSame
  <2>3. Generates(ops)' <=> Generates(ops)
    BY <2>1, GeneratesSame
  <2> QED
    BY <1>0, <2>1, <2>2, <2>3 DEF PlanInv, Planned
<1> QED
  BY <1>1, <1>2, <1>3, <1>4, <1>5, <1>6, <1>7, <1>8 DEF Next

\* What the sorter is given is what it counts on.
LEMMA PlannedCount ==
  ASSUME NEW q, Planned(q)
  PROVE  Len(q) \in Nat /\ RulesCanCount(q) /\ Placed(q)
<1>1. CASE Resolves(q)
  BY <1>1, ResolvesElements, ResolvesCount, ResolvesPlaced
<1>2. CASE Generates(q)
  BY <1>2, GeneratesCount, GeneratesPlaced DEF Generates
<1> QED
  BY <1>1, <1>2 DEF Planned

\* What the rules of the sorter count on is so whenever a cycle comes to it, for any
\* replicas and any changes to them: the generated list (operationgeneratorworker.cpp)
\* puts into a folder it creates only what it creates there, moves there, or edits after
\* its move, and the solutions of conflicts (conflictresolverworker.cpp) make nothing.
THEOREM WhatTheRulesCountOn == Spec => [](pc = "sort" => RulesCanCount(ops))
<1>1. PlanInv => (pc = "sort" => RulesCanCount(ops))
  BY PlannedCount DEF PlanInv
<1> QED
  BY InitPlans, NextPlans, <1>1, PTL DEF Spec

\* The cycles of generated operations can be broken; those of operations that solve
\* conflicts are supposed to.
Mends(q) == (\E k \in DOMAIN q : q[k].conflict # NoConflict) => CyclesAreBroken(q)

\* As there is none in a list without operations.
LEMMA PlannedAreBroken ==
  ASSUME NEW q, Planned(q), Mends(q)
  PROVE  CyclesAreBroken(q)
<1>1. CASE Generates(q)
  BY <1>1, GeneratedAreBroken
<1>2. CASE Resolves(q)
  <2>1. /\ Len(q) \in Nat /\ DOMAIN q = 1 .. Len(q)
        /\ \A k \in 1 .. Len(q) : q[k].conflict # NoConflict
    <3>1. /\ q \in Seq({q[k] : k \in 1 .. Len(q)}) /\ Len(q) \in Nat
          /\ \A k \in 1 .. Len(q) : Solves(q[k])
      BY <1>2, ResolvesElements
    <3>2. DOMAIN q = 1 .. Len(q)
      BY <3>1
    <3> QED
      BY <3>1, <3>2 DEF Solves
  <2>2. CASE Len(q) = 0
    <3>1. MakersEnd(q)
      BY <1>2, ResolvesCount DEF RulesCanCount
    <3> QED
      BY <2>1, <2>2, <3>1, BrokenWhenFound
  <2>3. CASE Len(q) # 0
    <3>1. 1 \in DOMAIN q /\ q[1].conflict # NoConflict
      BY <2>1, <2>3
    <3> QED
      BY <3>1 DEF Mends
  <2> QED
    BY <2>2, <2>3
<1> QED
  BY <1>1, <1>2 DEF Planned

\* Of the changes of the replicas, however they wait for each other, breakCycle always
\* finds one to break: what its comment says (operationsorterworker.cpp:743: a cycle must
\* contain a Delete or a Move Op) is so of the reorderings of one sort, as creates alone
\* come after the creates above them, and what was moved or deleted had been
\* synchronized, so that it has a counterpart.
THEOREM CyclesOfChangesAreBroken ==
  Spec => [](pc = "sort" /\ (\A k \in DOMAIN ops : ops[k].conflict = NoConflict)
                => CyclesAreBroken(ops))
<1>1. PlanInv => (pc = "sort" /\ (\A k \in DOMAIN ops : ops[k].conflict = NoConflict)
                    => CyclesAreBroken(ops))
  BY PlannedAreBroken DEF PlanInv, Mends
<1> QED
  BY InitPlans, NextPlans, <1>1, PTL DEF Spec

-----------------------------------------------------------------------------
(* From the sorter to the executor.                                         *)

\* An operation that is executed at once: no file is transferred.
Settled(o) == o.type \in {"create", "edit"} => Known(o.node) /\ Node(o.node).dir
Waits(q) ==
    \A k \in DOMAIN q : q[k].after < k /\ (q[k].after # 0 => Settled(q[q[k].after]))

\* What the theorems about the sorter give for what it is given in a cycle.
LEMMA SortedWaits ==
  ASSUME NEW q, Planned(q), SortingEnds(q), CyclesAreBroken(q)
  PROVE  Waits(SortOperations(q).ops)
<1>1. /\ Len(q) \in Nat /\ RulesCanCount(q)
      /\ \A k \in 1 .. Len(q) : {"after", "type", "node"} \subseteq DOMAIN q[k]
      /\ \A k \in 1 .. Len(q) : q[k].type \in {"create", "edit"} => Known(q[k].node)
  BY PlannedCount DEF Placed
<1> DEFINE sorted == SortOperations(q).ops
<1>2. \A k \in DOMAIN sorted : sorted[k].after < k
  BY <1>1, OperationsWaitForEarlier
<1>3. ASSUME NEW k \in DOMAIN sorted, sorted[k].after # 0
      PROVE  Settled(sorted[sorted[k].after])
  <2>1. ~Transfers(sorted[sorted[k].after])
    BY <1>1, <1>3, NoTransferIsWaitedFor DEF RulesCanCount
  <2>2. sorted = SortOperations(q).ops
    OBVIOUS
  <2> HIDE DEF sorted
  <2>3. WaitedFor(q, sorted[sorted[k].after])
    BY <1>1, <1>3, <2>2, WaitedForIsSorted
  <2>4. PICK j \in 1 .. Len(q) : /\ sorted[sorted[k].after].type = q[j].type
                                /\ sorted[sorted[k].after].node = q[j].node
    BY <2>3 DEF WaitedFor
  <2> QED
    BY <1>1, <2>1, <2>4 DEF Settled, Transfers
<1> HIDE DEF sorted
<1>4. Waits(sorted)
  BY <1>2, <1>3 DEF Waits
<1> QED
  BY <1>4 DEF sorted

\* What is executed leaves the nodes in the trees.
LEMMA ExecuteStays ==
  ASSUME Inv, Execute
  PROVE  Stay(tree, tree')
<1>1. PICK k \in DOMAIN ops \ done : tree' = Effect(ops[k]).tree
  BY DEF Execute
<1>2. Sound(Effect(ops[k]))
  BY SoundEffect, StartsAssumption DEF Inv, TypeOK, Execute
<1> QED
  BY <1>1, <1>2 DEF Sound

\* And so leaves folders what they are.
LEMMA WaitsStays ==
  ASSUME Stay(tree, tree'), Waits(ops), UNCHANGED ops
  PROVE  Waits(ops)'
<1>1. ASSUME NEW o, Settled(o) PROVE o.type \in {"create", "edit"} =>
            /\ o.node[1] \in Sides /\ o.node[2] \in DOMAIN tree'[o.node[1]]
            /\ "dir" \in DOMAIN tree'[o.node[1]][o.node[2]]
            /\ tree'[o.node[1]][o.node[2]].dir
  BY <1>1 DEF Settled, Known, Node, Stay, StayIn
<1>2. ASSUME NEW k \in DOMAIN ops
      PROVE  ops[k].after < k /\ (ops[k].after # 0 => Settled(ops[ops[k].after])')
  <2>1. ops[k].after < k /\ (ops[k].after # 0 => Settled(ops[ops[k].after]))
    BY DEF Waits
  <2> DEFINE o == ops[ops[k].after]
  <2>2. ASSUME Settled(o) PROVE Settled(o)'
    BY <1>1, <2>2 DEF Settled, Known, Node
  <2> QED
    BY <2>1, <2>2
<1> QED
  BY <1>2 DEF Waits

LEMMA WaitsSame ==
  ASSUME UNCHANGED tree
  PROVE  Waits(ops)' <=> Waits(ops')
  BY DEF Waits, Settled, Known, Node

\* From the detection to the end of the executor.
WaitInv == PlanInv /\ (pc = "execute" => Waits(ops))

LEMMA NextWaits ==
  ASSUME WaitInv, [Next]_vars, pc = "sort" => Mends(ops)
  PROVE  WaitInv'
<1>0. PlanInv /\ PlanInv' /\ Inv
  BY NextPlans DEF WaitInv, PlanInv
<1>1. CASE Sort
  <2>1. /\ pc = "sort" /\ SortingEnds(ops) /\ Mends(ops)
        /\ ops' = SortOperations(ops).ops /\ tree' = tree
    BY <1>1 DEF Sort
  <2>2. Planned(ops)
    BY <1>0, <2>1 DEF PlanInv
  <2>3. Waits(SortOperations(ops).ops)
    BY <2>1, <2>2, PlannedAreBroken, SortedWaits
  <2>4. Waits(ops')
    BY <2>1, <2>3
  <2>5. Waits(ops)'
    BY <2>1, <2>4, WaitsSame
  <2> QED
    BY <1>0, <2>5 DEF WaitInv
<1>2. CASE Execute
  <2>1. pc = "execute" /\ Waits(ops)
    BY <1>2 DEF Execute, WaitInv
  <2>2. pc' # "execute" \/ UNCHANGED ops
    BY <1>2 DEF Execute, Abort
  <2>3. Stay(tree, tree')
    BY <1>0, <1>2, ExecuteStays
  <2>4. UNCHANGED ops => Waits(ops)'
    BY <2>1, <2>3, WaitsStays
  <2> QED
    BY <1>0, <2>2, <2>4 DEF WaitInv
<1>3. CASE Rest \/ UNCHANGED vars
  <2>1. UNCHANGED <<pc, ops, tree>>
    BY <1>3 DEF Rest, vars
  <2>2. Stay(tree, tree')
    BY <1>0, <2>1 DEF Stay, StayIn, Inv
  <2>3. Waits(ops) => Waits(ops)'
    BY <2>1, <2>2, WaitsStays
  <2> QED
    BY <1>0, <2>1, <2>3 DEF WaitInv
<1>4. CASE Detect \/ Find \/ Resolve \/ GenerateAll \/ Finish
  <2>1. pc' # "execute"
    BY <1>4 DEF Detect, Find, Resolve, GenerateAll, Finish, Abort
  <2> QED
    BY <1>0, <2>1 DEF WaitInv
<1> QED
  BY <1>1, <1>2, <1>3, <1>4 DEF Next

\* What the executor is given (operationsorterworker.cpp, manageJobDependencies): no
\* operation waits for one that comes after it, nor for one a job may end later. Among the
\* operations that solve conflicts, a cycle of which breakCycle finds no counterpart to
\* rename would be left in the list; of these, the theorem is about the lists without one.
THEOREM WaitsAreForEarlier ==
  Spec /\ [](pc = "sort" /\ (\E k \in DOMAIN ops : ops[k].conflict # NoConflict)
                => CyclesAreBroken(ops))
    => []WaitsForEarlier
<1>1. Init => WaitInv
  BY InitPlans DEF Init, WaitInv
<1>2. ASSUME WaitInv PROVE WaitsForEarlier
  <2>1. pc = "sort" => RulesCanCount(ops)
    BY <1>2, PlannedCount DEF WaitInv, PlanInv
  <2>2. ASSUME pc = "execute", NEW k \in DOMAIN ops
        PROVE  ops[k].after < k /\ (ops[k].after # 0 => ~IsTransfer(ops[ops[k].after]))
    <3>1. Waits(ops)
      BY <1>2, <2>2 DEF WaitInv
    <3> QED
      BY <3>1 DEF Waits, Settled, IsTransfer
  <2> QED
    BY <2>1, <2>2 DEF WaitsForEarlier
<1>3. (pc = "sort" /\ (\E k \in DOMAIN ops : ops[k].conflict # NoConflict)
         => CyclesAreBroken(ops)) => (pc = "sort" => Mends(ops))
  BY DEF Mends
<1> QED
  BY <1>1, NextWaits, <1>2, <1>3, PTL DEF Spec
=============================================================================
