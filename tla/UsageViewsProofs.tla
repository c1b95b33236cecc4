-------------------------- MODULE UsageViewsProofs --------------------------
(***************************************************************************)
(* What the two views of a subscriber's data promise, for any number of    *)
(* packages and records.  The sums of the views are recursive functions;   *)
(* they are shown to count the units of data of the rows one by one, after *)
(* which it is enough to compare finite sets.                              *)
(***************************************************************************)
EXTENDS UsageProofs, FiniteSetTheorems, WellFoundedInduction

-----------------------------------------------------------------------------
(* Sums over finite sets.                                                  *)

Pick(s) == CHOOSE x \in s : TRUE

\* it gives the sums of f over the subsets of S.
Sums(it, f, S) ==
    it = [s \in SUBSET S |-> IF s = {} THEN 0 ELSE f[Pick(s)] + it[s \ {Pick(s)}]]

\* The sum of f over s, counted one by one.
Pile(f, s) == {xk \in s \X (1..Limit) : xk[2] <= f[xk[1]]}
Total(f, s) == Cardinality(Pile(f, s))

LEMMA CountUpTo ==
  ASSUME NEW n \in Nat
  PROVE  IsFiniteSet(1..n) /\ Cardinality(1..n) = n
<1>1. 1 \in Int /\ n \in Int
  OBVIOUS
<1>2. IsFiniteSet(1..n) /\ Cardinality(1..n) = IF 1 > n THEN 0 ELSE n - 1 + 1
  BY <1>1, FS_Interval
<1>3. QED
  BY <1>2

\* The units of one element.
LEMMA Column ==
  ASSUME NEW x, NEW n \in Nat
  PROVE  IsFiniteSet({x} \X (1..n)) /\ Cardinality({x} \X (1..n)) = n
<1>1. IsFiniteSet({x}) /\ Cardinality({x}) = 1
  BY FS_Singleton
<1>2. IsFiniteSet(1..n) /\ Cardinality(1..n) = n
  BY CountUpTo
<1>3. /\ IsFiniteSet({x} \X (1..n))
      /\ Cardinality({x} \X (1..n)) = Cardinality({x}) * Cardinality(1..n)
  BY <1>1, <1>2, FS_Product
<1>4. QED
  BY <1>1, <1>2, <1>3

LEMMA PileIsFinite ==
  ASSUME NEW s, IsFiniteSet(s), NEW f
  PROVE  IsFiniteSet(Pile(f, s)) /\ Total(f, s) \in Nat
<1>0. IsFiniteSet(1..Limit)
  BY Assumed, CountUpTo
<1>1. IsFiniteSet(s \X (1..Limit))
  BY <1>0, FS_Product
<1>2. IsFiniteSet(Pile(f, s))
  BY <1>1, FS_Subset DEF Pile
<1>3. QED
  BY <1>2, FS_CardinalityType DEF Total

LEMMA TotalOfNone ==
  ASSUME NEW f
  PROVE  Total(f, {}) = 0
<1>1. Pile(f, {}) = {}
  BY DEF Pile
<1>2. QED
  BY <1>1, FS_EmptySet DEF Total

LEMMA TotalSplits ==
  ASSUME NEW S, IsFiniteSet(S), NEW f \in [S -> 0..Limit], NEW s \in SUBSET S, NEW x \in s
  PROVE  Total(f, s) = f[x] + Total(f, s \ {x})
<1> DEFINE rest == Pile(f, s \ {x})
           own == {x} \X (1..f[x])
<1>1. f[x] \in 0..Limit /\ f[x] \in Nat /\ IsFiniteSet(s \ {x}) /\ Limit \in Nat
  BY Assumed, FS_Subset
<1>2. IsFiniteSet(rest) /\ Cardinality(rest) \in Nat
  BY <1>1, PileIsFinite DEF Total
<1>3. IsFiniteSet(own) /\ Cardinality(own) = f[x]
  BY <1>1, Column
<1>4. Pile(f, s) = rest \cup own
  <2>1. ASSUME NEW e \in Pile(f, s)
        PROVE  e \in rest \cup own
    BY <1>1, <2>1 DEF Pile
  <2>2. ASSUME NEW e \in rest \cup own
        PROVE  e \in Pile(f, s)
    BY <1>1, <2>2 DEF Pile
  <2>3. QED
    BY <2>1, <2>2
<1>5. rest \cap own = {}
  BY DEF Pile
<1>6. Cardinality(rest \cup own) = Cardinality(rest) + Cardinality(own)
  <2>1. Cardinality({}) = 0
    BY FS_EmptySet
  <2> HIDE DEF rest, own
  <2>2. Cardinality(rest \cup own) =
          Cardinality(rest) + Cardinality(own) - Cardinality(rest \cap own)
    BY <1>2, <1>3, FS_Union
  <2>3. Cardinality(rest \cap own) = 0
    BY <1>5, <2>1
  <2>4. QED
    BY <1>1, <1>2, <1>3, <2>2, <2>3
<1>7. QED
  BY <1>1, <1>2, <1>3, <1>4, <1>6 DEF Total

LEMMA SumsExist ==
  ASSUME NEW S, IsFiniteSet(S), NEW f \in [S -> 0..Limit]
  PROVE  \E it : Sums(it, f, S)
<1> DEFINE it == [s \in SUBSET S |-> Total(f, s)]
<1>1. ASSUME NEW s \in SUBSET S
      PROVE  it[s] = IF s = {} THEN 0 ELSE f[Pick(s)] + it[s \ {Pick(s)}]
  <2>1. CASE s = {}
    BY <2>1, TotalOfNone
  <2>2. CASE s # {}
    <3>1. Pick(s) \in s
      BY <2>2 DEF Pick
    <3>2. s \ {Pick(s)} \in SUBSET S
      OBVIOUS
    <3>3. QED
      BY <2>2, <3>1, <3>2, TotalSplits
  <2>3. QED
    BY <2>1, <2>2
<1>2. Sums(it, f, S)
  BY <1>1 DEF Sums
<1>3. QED
  BY <1>2

\* Induction over the subsets of S: of those that are wrong, one is smallest.
LEMMA SmallestWrong ==
  ASSUME NEW S, IsFiniteSet(S), NEW wrong \in SUBSET SUBSET S, wrong # {}
  PROVE  \E s \in wrong : \A x \in s : s \ {x} \notin wrong
<1>1. IsWellFoundedOn(StrictSubsetOrdering(S), SUBSET S)
  BY FS_StrictSubsetOrderingWellFounded, FS_FiniteSubsetsOfFinite
<1>2. PICK s \in wrong : \A t \in wrong : ~(<<t, s>> \in StrictSubsetOrdering(S))
  BY <1>1, WFMin
<1>3. \A x \in s : <<s \ {x}, s>> \in StrictSubsetOrdering(S)
  BY DEF StrictSubsetOrdering
<1>4. QED
  BY <1>2, <1>3

LEMMA SumsAreTotals ==
  ASSUME NEW S, IsFiniteSet(S), NEW f \in [S -> 0..Limit], NEW it, Sums(it, f, S)
  PROVE  it[S] = Total(f, S)
<1> DEFINE wrong == {s \in SUBSET S : it[s] # Total(f, s)}
<1>1. CASE wrong = {}
  BY <1>1
<1>2. ASSUME wrong # {}
      PROVE  FALSE
  <2>2. PICK s \in wrong : \A x \in s : s \ {x} \notin wrong
    BY <1>2, SmallestWrong
  <2>3. s # {}
    BY TotalOfNone DEF Sums
  <2>4. Pick(s) \in s /\ it[s] = f[Pick(s)] + it[s \ {Pick(s)}]
    BY <2>3 DEF Sums, Pick
  <2>5. s \ {Pick(s)} \notin wrong
    BY <2>2, <2>4
  <2>6. QED
    BY <2>4, <2>5, TotalSplits
<1>3. QED
  BY <1>1, <1>2

\* The sums of the two views and of what the OCS still has.
LEMMA AllowedTotal ==
  ASSUME NEW S, IsFiniteSet(S), NEW f \in [S -> 0..Limit], \A i \in S : f[i] = Allowed(i)
  PROVE  MapThenSumSet(Allowed, S) = Total(f, S)
<1> DEFINE IsSum(it) == it = [s \in SUBSET S |->
               IF s = {} THEN 0 ELSE Allowed(Pick(s)) + it[s \ {Pick(s)}]]
<1>1. MapThenSumSet(Allowed, S) = (CHOOSE it : IsSum(it))[S]
  BY DEF MapThenSumSet, MapThenFoldSet, Pick
<1>2. \A s \in SUBSET S : s # {} => f[Pick(s)] = Allowed(Pick(s))
  BY DEF Pick
<1>3. \A it : Sums(it, f, S) <=> IsSum(it)
  BY <1>2 DEF Sums
<1>4. \E it : IsSum(it)
  BY <1>3, SumsExist
<1> HIDE DEF IsSum
<1>5. Sums(CHOOSE it : IsSum(it), f, S)
  BY <1>3, <1>4
<1>6. QED
  BY <1>1, <1>5, SumsAreTotals


\* What the OCS would still let through, for an order.
LeftAt(o) == Limit - meter[o]

LEMMA UsedTotal ==
  ASSUME NEW S, IsFiniteSet(S), NEW f \in [S -> 0..Limit], \A i \in S : f[i] = Used(i)
  PROVE  MapThenSumSet(Used, S) = Total(f, S)
<1> DEFINE IsSum(it) == it = [s \in SUBSET S |->
               IF s = {} THEN 0 ELSE Used(Pick(s)) + it[s \ {Pick(s)}]]
<1>1. MapThenSumSet(Used, S) = (CHOOSE it : IsSum(it))[S]
  BY DEF MapThenSumSet, MapThenFoldSet, Pick
<1>2. \A s \in SUBSET S : s # {} => f[Pick(s)] = Used(Pick(s))
  BY DEF Pick
<1>3. \A it : Sums(it, f, S) <=> IsSum(it)
  BY <1>2 DEF Sums
<1>4. \E it : IsSum(it)
  BY <1>3, SumsExist
<1> HIDE DEF IsSum
<1>5. Sums(CHOOSE it : IsSum(it), f, S)
  BY <1>3, <1>4
<1>6. QED
  BY <1>1, <1>5, SumsAreTotals

LEMMA LeftTotal ==
  ASSUME NEW S, IsFiniteSet(S), NEW f \in [S -> 0..Limit], \A o \in S : f[o] = LeftAt(o)
  PROVE  MapThenSumSet(LeftAt, S) = Total(f, S)
<1> DEFINE IsSum(it) == it = [s \in SUBSET S |->
               IF s = {} THEN 0 ELSE LeftAt(Pick(s)) + it[s \ {Pick(s)}]]
<1>1. MapThenSumSet(LeftAt, S) = (CHOOSE it : IsSum(it))[S]
  BY DEF MapThenSumSet, MapThenFoldSet, Pick
<1>2. \A s \in SUBSET S : s # {} => f[Pick(s)] = LeftAt(Pick(s))
  BY DEF Pick
<1>3. \A it : Sums(it, f, S) <=> IsSum(it)
  BY <1>2 DEF Sums
<1>4. \E it : IsSum(it)
  BY <1>3, SumsExist
<1> HIDE DEF IsSum
<1>5. Sums(CHOOSE it : IsSum(it), f, S)
  BY <1>3, <1>4
<1>6. QED
  BY <1>1, <1>5, SumsAreTotals

-----------------------------------------------------------------------------
(* Sums compared.                                                          *)

LEMMA TotalsAdd ==
  ASSUME NEW S, IsFiniteSet(S),
         NEW f \in [S -> 0..Limit], NEW g \in [S -> 0..Limit], NEW h \in [S -> 0..Limit],
         \A x \in S : f[x] = g[x] + h[x]
  PROVE  Total(f, S) = Total(g, S) + Total(h, S)
<1> DEFINE wrong == {s \in SUBSET S : Total(f, s) # Total(g, s) + Total(h, s)}
<1>1. ASSUME wrong # {}
      PROVE  FALSE
  <2>1. PICK s \in wrong : \A x \in s : s \ {x} \notin wrong
    BY <1>1, SmallestWrong
  <2>2. s # {}
    <3>1. Total(f, {}) = 0 /\ Total(g, {}) = 0 /\ Total(h, {}) = 0
      BY TotalOfNone
    <3>2. {} \notin wrong
      BY <3>1
    <3>3. QED
      BY <3>2
  <2>3. PICK x \in s : TRUE
    BY <2>2
  <2>4. Total(f, s \ {x}) = Total(g, s \ {x}) + Total(h, s \ {x})
    BY <2>1
  <2>5. /\ Total(f, s) = f[x] + Total(f, s \ {x})
        /\ Total(g, s) = g[x] + Total(g, s \ {x})
        /\ Total(h, s) = h[x] + Total(h, s \ {x})
    BY TotalSplits
  <2>6. IsFiniteSet(s \ {x})
    BY FS_Subset
  <2>7. /\ Total(g, s \ {x}) \in Nat /\ Total(h, s \ {x}) \in Nat
        /\ g[x] \in Nat /\ h[x] \in Nat /\ f[x] = g[x] + h[x]
    BY <2>6, PileIsFinite, Assumed
  <2>8. QED
    BY <2>1, <2>4, <2>5, <2>7
<1>2. QED
  BY <1>1

\* What is counted in one pile is found in another.
LEMMA TotalsCompare ==
  ASSUME NEW A, NEW B, IsFiniteSet(A), IsFiniteSet(B),
         NEW f \in [A -> 0..Limit], NEW g \in [B -> 0..Limit],
         NEW h \in [{x \in A : f[x] > 0} -> B],
         \A x, y \in {z \in A : f[z] > 0} : h[x] = h[y] => x = y,
         \A x \in {z \in A : f[z] > 0} : f[x] <= g[h[x]]
  PROVE  Total(f, A) <= Total(g, B)
<1> DEFINE m == [xk \in Pile(f, A) |-> <<h[xk[1]], xk[2]>>]
<1>1. ASSUME NEW e \in Pile(f, A)
      PROVE  /\ e[1] \in A /\ e[2] \in 1..Limit /\ e = <<e[1], e[2]>> /\ f[e[1]] > 0
             /\ m[e] = <<h[e[1]], e[2]>> /\ m[e] \in Pile(g, B)
  <2>1. e[1] \in A /\ e[2] \in 1..Limit /\ e = <<e[1], e[2]>> /\ e[2] <= f[e[1]]
    BY DEF Pile
  <2>2. f[e[1]] \in Nat /\ Limit \in Nat
    BY <2>1, Assumed
  <2>3. f[e[1]] > 0
    BY <2>1, <2>2
  <2>4. h[e[1]] \in B /\ f[e[1]] <= g[h[e[1]]]
    BY <2>1, <2>3
  <2>5. g[h[e[1]]] \in Nat
    BY <2>2, <2>4
  <2>6. e[2] <= g[h[e[1]]]
    BY <2>1, <2>2, <2>4, <2>5
  <2>7. QED
    BY <2>1, <2>3, <2>4, <2>6 DEF Pile
<1>2. m \in [Pile(f, A) -> Pile(g, B)]
  BY <1>1
<1>3. ASSUME NEW d \in Pile(f, A), NEW e \in Pile(f, A), m[d] = m[e]
      PROVE  d = e
  <2>1. h[d[1]] = h[e[1]] /\ d[2] = e[2]
    BY <1>1, <1>3
  <2>2. d[1] = e[1]
    BY <1>1, <2>1
  <2>3. <<d[1], d[2]>> = <<e[1], e[2]>>
    BY <2>1, <2>2
  <2>4. d = <<d[1], d[2]>> /\ e = <<e[1], e[2]>>
    BY <1>1
  <2>5. QED
    BY <2>3, <2>4
<1> HIDE DEF m
<1>4. m \in Injection(Pile(f, A), Pile(g, B))
  BY <1>2, <1>3 DEF Injection, IsInjective
<1>5. QED
  BY <1>4, PileIsFinite, FS_Injection DEF Total

LEMMA TotalCongruence ==
  ASSUME NEW S, NEW f, NEW g, \A x \in S : f[x] = g[x]
  PROVE  Total(f, S) = Total(g, S)
<1>1. Pile(f, S) = Pile(g, S)
  BY DEF Pile
<1>2. QED
  BY <1>1 DEF Total

-----------------------------------------------------------------------------
(* The rows a subscriber has.                                              *)

\* The allowance of a row is that of a package, before and after synchronisation.
FullAllowance == \A i \in DOMAIN usage : usage[i].allowed = Limit

LEMMA RowsAreFinite ==
  ASSUME Inv
  PROVE  /\ DOMAIN usage = 1..Len(usage) /\ Len(usage) \in Nat /\ IsFiniteSet(DOMAIN usage)
         /\ IsFiniteSet({usage[i].order : i \in DOMAIN usage})
<1> DEFINE R == {usage[i].order : i \in DOMAIN usage}
           f == [i \in DOMAIN usage |-> usage[i].order]
<1>1. DOMAIN usage = 1..Len(usage) /\ Len(usage) \in Nat
  BY DEF Inv, Types
<1>2. IsFiniteSet(DOMAIN usage)
  BY <1>1, CountUpTo
<1>3. f \in Surjection(DOMAIN usage, R)
  BY DEF Surjection
<1>4. IsFiniteSet(R)
  BY <1>2, <1>3, FS_Surjection
<1>5. QED
  BY <1>1, <1>2, <1>4

LEMMA MinOfNats ==
  ASSUME NEW S \in SUBSET Nat, S # {}
  PROVE  Min(S) \in S
<1>1. PICK x \in S : \A y \in S : ~(<<y, x>> \in OpToRel(<, Nat))
  BY NatLessThanWellFounded, WFMin
<1>2. ASSUME NEW y \in S
      PROVE  x <= y
  <2>1. <<y, x>> \in Nat \X Nat /\ <<y, x>>[1] = y /\ <<y, x>>[2] = x
    OBVIOUS
  <2>2. ~(y < x)
    BY <1>1, <2>1 DEF OpToRel
  <2>3. QED
    BY <2>2
<1>3. QED
  BY <1>2 DEF Min

LEMMA LatestIsRow ==
  ASSUME Inv, usage # <<>>
  PROVE  Latest \in DOMAIN usage
<1> DEFINE synced == {i \in DOMAIN usage : usage[i].synced}
<1>1. 1 \in DOMAIN usage /\ DOMAIN usage \subseteq Nat
  BY RowsAreFinite DEF Inv, Types
<1>2. synced # {} => Min(synced) \in synced
  BY <1>1, MinOfNats
<1>3. QED
  BY <1>1, <1>2 DEF Latest


\* What NeverUnderstates supposes of the orders that have rows.
Recorded == {usage[i].order : i \in DOMAIN usage}

LEMMA RowFacts ==
  ASSUME Inv, FullAllowance, \A o \in Recorded : Certain(o)
  PROVE  \A i \in DOMAIN usage :
           /\ usage[i].order \in Recorded /\ usage[i].order \in Orders
           /\ usage[i].allowed = Limit /\ usage[i].used \in 0..Limit
           /\ meter[usage[i].order] \in 0..Limit
           /\ usage[i].used <= meter[usage[i].order]
           /\ ~usage[i].active => meter[usage[i].order] = Limit
<1> SUFFICES ASSUME NEW i \in DOMAIN usage
             PROVE  /\ usage[i].order \in Recorded /\ usage[i].order \in Orders
                    /\ usage[i].allowed = Limit /\ usage[i].used \in 0..Limit
                    /\ meter[usage[i].order] \in 0..Limit
                    /\ usage[i].used <= meter[usage[i].order]
                    /\ ~usage[i].active => meter[usage[i].order] = Limit
  OBVIOUS
<1>1. usage[i].order \in Recorded /\ Certain(usage[i].order)
  BY DEF Recorded
<1>2. usage[i].used <= meter[usage[i].order] /\ (~usage[i].active => meter[usage[i].order] = Limit)
  BY <1>1 DEF Inv, RightTables, UsedIsCounted, InactiveIsExhausted
<1>3. usage[i].order \in Orders /\ usage[i].used \in 0..Limit
  BY RowTypes DEF Row
<1>4. meter[usage[i].order] \in 0..Limit
  BY <1>3 DEF Inv, Types
<1>5. QED
  BY <1>1, <1>2, <1>3, <1>4 DEF FullAllowance

LEMMA ConsolidatedIsEnough ==
  ASSUME Inv, FullAllowance, usage # <<>>, \A o \in Recorded : Certain(o)
  PROVE  ConsolidatedRemaining >= MapThenSumSet(LeftAt, Recorded)
<1> DEFINE D == DOMAIN usage
           L == Latest
           u == usage[L].used
           all == [i \in D |-> Limit]
           rest == [i \in D |-> IF i = L THEN Limit - u ELSE Limit]
           left == [o \in Recorded |-> Limit - meter[o]]
           row == [o \in {x \in Recorded : left[x] > 0} |->
                      IF usage[L].order = o THEN L
                      ELSE CHOOSE i \in D : usage[i].order = o]
<1>1. /\ IsFiniteSet(D) /\ IsFiniteSet(Recorded) /\ L \in D /\ Limit \in Nat
      /\ u \in 0..Limit /\ u <= meter[usage[L].order]
  BY RowsAreFinite, LatestIsRow, RowFacts, Assumed DEF Recorded
<1>2. \A o \in Recorded : meter[o] \in 0..Limit /\ \E i \in D : usage[i].order = o
  BY RowFacts DEF Recorded
<1>3. all \in [D -> 0..Limit] /\ rest \in [D -> 0..Limit] /\ left \in [Recorded -> 0..Limit]
  BY <1>1, <1>2
<1>4. Total(all, D) = Total(rest, D) + u
  <2>1. Total(all, D) = all[L] + Total(all, D \ {L})
    BY <1>1, <1>3, TotalSplits
  <2>2. Total(rest, D) = rest[L] + Total(rest, D \ {L})
    BY <1>1, <1>3, TotalSplits
  <2>3. Total(all, D \ {L}) = Total(rest, D \ {L})
    <3>1. \A i \in D \ {L} : all[i] = rest[i]
      OBVIOUS
    <3> HIDE DEF all, rest
    <3>2. QED
      BY <3>1, TotalCongruence
  <2>4. Total(rest, D \ {L}) \in Nat
    <3>1. IsFiniteSet(D \ {L})
      BY <1>1, FS_Subset
    <3>2. QED
      BY <3>1, PileIsFinite
  <2>5. all[L] = Limit /\ rest[L] = Limit - u
    BY <1>1
  <2> HIDE DEF all, rest, u
  <2>6. QED
    BY <1>1, <2>1, <2>2, <2>3, <2>4, <2>5
<1>5. Total(left, Recorded) <= Total(rest, D)
  <2>1. \A o \in {x \in Recorded : left[x] > 0} :
           row[o] \in D /\ usage[row[o]].order = o
    BY <1>1, <1>2
  <2>2. row \in [{x \in Recorded : left[x] > 0} -> D]
    BY <2>1
  <2>3. \A x, y \in {z \in Recorded : left[z] > 0} : row[x] = row[y] => x = y
    <3> HIDE DEF row, left
    <3>1. QED
      BY <2>1
  <2>4. \A o \in {x \in Recorded : left[x] > 0} : left[o] <= rest[row[o]]
    <3> SUFFICES ASSUME NEW o \in {x \in Recorded : left[x] > 0}
                 PROVE  left[o] <= rest[row[o]]
      OBVIOUS
    <3>1. left[o] = Limit - meter[o] /\ meter[o] \in 0..Limit
      BY <1>2
    <3>2. CASE row[o] = L
      <4>1. usage[L].order = o /\ rest[row[o]] = Limit - u
        BY <1>1, <2>1, <3>2
      <4> HIDE DEF row, rest, left, u
      <4>2. QED
        BY <1>1, <3>1, <4>1
    <3>3. CASE row[o] # L
      <4>1. rest[row[o]] = Limit
        BY <2>1, <3>3
      <4> HIDE DEF row, rest, left
      <4>2. QED
        BY <1>1, <3>1, <4>1
    <3>4. QED
      BY <3>2, <3>3
  <2> HIDE DEF row, rest, left
  <2>5. QED
    BY <1>1, <1>3, <2>2, <2>3, <2>4, TotalsCompare
<1>6. MapThenSumSet(Allowed, D) = Total(all, D)
  <2>1. \A i \in D : all[i] = Allowed(i)
    BY DEF FullAllowance, Allowed
  <2> HIDE DEF all
  <2>2. QED
    BY <1>1, <1>3, <2>1, AllowedTotal
<1>7. MapThenSumSet(LeftAt, Recorded) = Total(left, Recorded)
  <2>1. \A o \in Recorded : left[o] = LeftAt(o)
    BY DEF LeftAt
  <2> HIDE DEF left
  <2>2. QED
    BY <1>1, <1>3, <2>1, LeftTotal
<1>8. /\ Total(rest, D) \in Nat /\ Total(left, Recorded) \in Nat
  BY <1>1, PileIsFinite
<1> HIDE DEF all, rest, left
<1>9. ConsolidatedRemaining = IF Total(all, D) - u > 0 THEN Total(all, D) - u ELSE 0
  BY <1>6 DEF ConsolidatedRemaining
<1> HIDE DEF u
<1>10. QED
  BY <1>1, <1>4, <1>5, <1>7, <1>8, <1>9

LEMMA GroupIsEnough ==
  ASSUME Inv, FullAllowance, usage # <<>>, \A o \in Recorded : Certain(o)
  PROVE  GroupRemaining >= MapThenSumSet(LeftAt, Recorded \cap SamePackage)
<1> DEFINE D == DOMAIN usage
           S == Recorded \cap SamePackage
           rows == GroupRows
           left == [o \in S |-> Limit - meter[o]]
           all == [i \in rows |-> Limit]
           used == [i \in rows |-> usage[i].used]
           rest == [i \in rows |-> Limit - usage[i].used]
<1>1. /\ IsFiniteSet(D) /\ rows \subseteq D /\ IsFiniteSet(rows) /\ Limit \in Nat
      /\ IsFiniteSet(S)
  <2>1. IsFiniteSet(D) /\ IsFiniteSet(Recorded) /\ rows \subseteq D /\ Limit \in Nat
    BY RowsAreFinite, Assumed DEF Recorded, GroupRows
  <2>2. S \subseteq Recorded
    OBVIOUS
  <2> HIDE DEF D, rows, S
  <2>3. QED
    BY <2>1, <2>2, FS_Subset
<1>2. \A o \in S : meter[o] \in 0..Limit /\ \E i \in D : usage[i].order = o
  BY RowFacts DEF Recorded
<1>3. /\ left \in [S -> 0..Limit] /\ all \in [rows -> 0..Limit]
      /\ used \in [rows -> 0..Limit] /\ rest \in [rows -> 0..Limit]
  BY <1>1, <1>2, RowFacts
<1>4. MapThenSumSet(LeftAt, S) = Total(left, S)
  <2>1. \A o \in S : left[o] = LeftAt(o)
    BY DEF LeftAt
  <2> HIDE DEF left, S
  <2>2. QED
    BY <1>1, <1>3, <2>1, LeftTotal
<1>5. CASE Len(usage) = 1
  <2>1. D = {1}
    BY <1>5, RowsAreFinite
  <2>2. GroupRemaining = Limit - usage[1].used /\ usage[1].used \in 0..Limit
        /\ usage[1].used <= meter[usage[1].order]
    BY <1>1, <1>5, <2>1, RowFacts DEF GroupRemaining, Remaining
  <2>3. Recorded = {usage[1].order}
    BY <2>1 DEF Recorded
  <2>4. CASE S = {}
    <3>1. Total(left, S) = 0
      BY <2>4, TotalOfNone
    <3> HIDE DEF left
    <3>2. QED
      BY <1>1, <1>4, <2>2, <3>1
  <2>5. CASE S # {}
    <3>1. PICK o \in S : o = usage[1].order /\ S = {o}
      BY <2>3, <2>5
    <3>2. Total(left, S) = left[o] + Total(left, S \ {o})
      BY <1>1, <1>3, TotalSplits
    <3>3. S \ {o} = {} /\ left[o] = Limit - meter[o] /\ meter[o] \in 0..Limit
      BY <1>2, <3>1
    <3>4. Total(left, S \ {o}) = 0
      BY <3>3, TotalOfNone
    <3> HIDE DEF left, S
    <3>5. QED
      BY <1>1, <1>4, <2>2, <3>1, <3>2, <3>3, <3>4 DEF S
  <2>6. QED
    BY <2>4, <2>5
<1>6. CASE Len(usage) # 1
  <2> DEFINE row == [o \in {x \in S : left[x] > 0} |->
                        CHOOSE i \in rows : usage[i].order = o]
  <2>1. Total(all, rows) = Total(rest, rows) + Total(used, rows)
    <3>1. \A i \in rows : all[i] = rest[i] + used[i]
      BY <1>1, RowFacts
    <3> HIDE DEF all, rest, used, rows
    <3>2. QED
      BY <1>1, <1>3, <3>1, TotalsAdd, ZenonT(60)
  <2>2. MapThenSumSet(Allowed, rows) = Total(all, rows)
    <3>1. \A i \in rows : all[i] = Allowed(i)
      BY <1>1 DEF FullAllowance, Allowed
    <3> HIDE DEF all, rows
    <3>2. QED
      BY <1>1, <1>3, <3>1, AllowedTotal
  <2>3. MapThenSumSet(Used, rows) = Total(used, rows)
    <3>1. \A i \in rows : used[i] = Used(i)
      BY DEF Used
    <3> HIDE DEF used, rows
    <3>2. QED
      BY <1>1, <1>3, <3>1, UsedTotal
  <2>4. ASSUME NEW o \in {x \in S : left[x] > 0}
        PROVE  \E i \in rows : usage[i].order = o
    <3>1. PICK i \in D : usage[i].order = o
      BY <1>2
    <3>2. meter[o] < Limit /\ o \in SamePackage
      BY <1>1, <1>2
    <3>3. usage[i].active /\ usage[i].allowed = Limit /\ usage[i].used < Limit
      BY <1>1, <1>2, <3>1, <3>2, RowFacts
    <3>4. Remaining(usage[i]) > 0
      BY <1>1, <3>1, <3>3, RowFacts DEF Remaining
    <3>5. QED
      BY <3>1, <3>2, <3>3, <3>4 DEF GroupRows
  <2>5. \A o \in {x \in S : left[x] > 0} : row[o] \in rows /\ usage[row[o]].order = o
    BY <2>4
  <2>6. row \in [{x \in S : left[x] > 0} -> rows]
    BY <2>5
  <2>7. \A x, y \in {z \in S : left[z] > 0} : row[x] = row[y] => x = y
    BY <2>5, ZenonT(60)
  <2>8. \A o \in {x \in S : left[x] > 0} : left[o] <= rest[row[o]]
    <3> SUFFICES ASSUME NEW o \in {x \in S : left[x] > 0}
                 PROVE  left[o] <= rest[row[o]]
      OBVIOUS
    <3>1. PICK i \in rows : i = row[o] /\ usage[i].order = o
      BY <2>5
    <3>2. left[o] = Limit - meter[o] /\ rest[i] = Limit - usage[i].used
      OBVIOUS
    <3>3. usage[i].used <= meter[o] /\ usage[i].used \in 0..Limit /\ meter[o] \in 0..Limit
      BY <1>1, <3>1, RowFacts
    <3> HIDE DEF left, rest, row
    <3>4. QED
      BY <1>1, <3>1, <3>2, <3>3
  <2>9. Total(left, S) <= Total(rest, rows)
    <3> HIDE DEF left, rest, row, S, rows
    <3>1. QED
      BY <1>1, <1>3, <2>6, <2>7, <2>8, TotalsCompare
  <2>10. Total(rest, rows) \in Nat /\ Total(used, rows) \in Nat /\ Total(left, S) \in Nat
    BY <1>1, PileIsFinite
  <2>11. GroupRemaining = Total(all, rows) - Total(used, rows)
    BY <1>6, <2>2, <2>3 DEF GroupRemaining
  <2> HIDE DEF left, rest, used, all, S, rows
  <2>12. QED
    BY <1>4, <2>1, <2>9, <2>10, <2>11 DEF S
<1>7. QED
  BY <1>5, <1>6

LEMMA BothAreEnough ==
  ASSUME Inv, FullAllowance
  PROVE  NeverUnderstates
<1>1. ASSUME usage # <<>>, \A o \in Recorded : Certain(o)
      PROVE  /\ ConsolidatedRemaining >= MapThenSumSet(LeftAt, Recorded)
             /\ GroupRemaining >= MapThenSumSet(LeftAt, Recorded \cap SamePackage)
  BY <1>1, ConsolidatedIsEnough, GroupIsEnough
<1>2. QED
  BY <1>1 DEF NeverUnderstates, Recorded, LeftAt, MapThenSumSet, MapThenFoldSet


-----------------------------------------------------------------------------
(* The theorem.                                                            *)

LEMMA AllowanceStays ==
  ASSUME Inv, FullAllowance, [Next]_vars
  PROVE  FullAllowance'
<1>1. ASSUME NEW q \in Runs, InsertUsage(q)
      PROVE  FullAllowance'
  <2>1. PICK o \in Orders : usage' = Append(usage, NewRow(o))
    BY <1>1, RowTypes DEF InsertUsage, Handlers
  <2>2. NewRow(o).allowed = Limit /\ NewRow(o) \in Row
    BY Assumed DEF NewRow, Row
  <2>3. /\ usage \in Seq(Row) /\ DOMAIN usage' = 1..Len(usage) + 1
        /\ usage'[Len(usage) + 1] = NewRow(o)
        /\ \A i \in 1..Len(usage) : usage'[i] = usage[i]
    BY <2>1, <2>2 DEF Inv, Types
  <2>4. QED
    BY <2>2, <2>3 DEF FullAllowance
<1>2. ASSUME NEW q \in Runs, WriteUsage(q)
      PROVE  FullAllowance'
  <2>1. PICK i \in DOMAIN usage : i = request[q].row
    BY <1>2, RowTypes DEF WriteUsage, Sound, RightRows
  <2> DEFINE new == Synced(usage[i], request[q].reading)
  <2>2. usage' = [usage EXCEPT ![i] = new]
    BY <1>2, <2>1 DEF WriteUsage
  <2>3. new.allowed = Limit
    BY RowTypes DEF Synced, Row, FullAllowance
  <2> HIDE DEF new
  <2>4. QED
    BY <2>2, <2>3 DEF FullAllowance, Inv, Types
<1>3. CASE UNCHANGED usage
  BY <1>3 DEF FullAllowance
<1>4. UNCHANGED usage \/ \E q \in Runs : InsertUsage(q) \/ WriteUsage(q)
  <2>1. ASSUME NEW q \in Runs, Step(q) \/ Fault(q)
        PROVE  UNCHANGED usage \/ InsertUsage(q) \/ WriteUsage(q)
    BY <2>1 DEF Step, Fault, Complete, FindUsage, NoAnswer, AnswerWithoutIt, Answer, NothingElse
  <2>2. QED
    BY <2>1
       DEF Next, vars, Runs, Use, ProcessOrder, CreateUsageRecord, SyncUsage,
           SyncAllActiveUsage, Crash, NothingElse
<1>5. QED
  BY <1>1, <1>2, <1>3, <1>4

\* Neither view of a subscriber's data says that less is left than the OCS would
\* still let through, as long as every order names its package and was completed
\* once: getConsolidatedUsageBySubscriber and consolidateUsageDataForGroup, with any
\* number of packages and records, of any volume, and answers that come in any order.
THEOREM ViewsNeverUnderstate == Spec => []NeverUnderstates
<1>1. Init => FullAllowance
  BY DEF Init, FullAllowance
<1>2. Inv /\ FullAllowance /\ [Next]_vars => FullAllowance'
  BY AllowanceStays
<1>3. Inv /\ FullAllowance => NeverUnderstates
  BY BothAreEnough
<1>4. QED
  BY <1>1, <1>2, <1>3, InvAlways, PTL DEF Spec
=============================================================================
