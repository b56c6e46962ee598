--------------------------- MODULE ChargesProofs ---------------------------
(***************************************************************************)
(* Proofs about what is paid for and what is shown of it, for any number   *)
(* of calls, tenants, servers, payments and pages.  The parts share no     *)
(* variable; the invariant behind each is stated at the head of its        *)
(* section, and the last section says that Charges behaves as each.        *)
(***************************************************************************)
EXTENDS Charges, FiniteSetTheorems, TLAPS

-----------------------------------------------------------------------------
(***************************************************************************)
(* A report adds up.                                                       *)
(*                                                                         *)
(* Sums are counts of coins, so that the sum of the parts is the sum of    *)
(* the whole once every call is in one part.  That it is in one: hours by  *)
(* their definition, and days because no day is shorter than a stride and  *)
(* the strides start no later than the first call.  The invariant says of  *)
(* every answer what it still says of rows that have changed since, and,   *)
(* as long as none has, that it is what would be answered now.             *)
(***************************************************************************)
\* A finite set of numbers has a greatest and a least one.
LEMMA GreatestExists ==
  ASSUME NEW S \in SUBSET Int, IsFiniteSet(S), S # {}
  PROVE  \E m \in S : \A x \in S : x <= m
<1> DEFINE from(x) == {y \in S : x <= y}
           T == {from(x) : x \in S}
<1>1. T \subseteq FiniteSubsetsOf(S) /\ T # {}
  <2>1. \A x \in S : from(x) \in FiniteSubsetsOf(S)
    BY FS_Subset DEF FiniteSubsetsOf
  <2> QED
    BY <2>1
<1>2. PICK U \in T : \A V \in T : ~(<<V, U>> \in StrictSubsetOrdering(S))
  <2> HIDE DEF T
  <2> QED
    BY <1>1, FS_StrictSubsetOrderingWellFounded, WFMin
<1>3. PICK m \in S : U = from(m)
  OBVIOUS
<1>4. \A x \in S : from(x) \in T
  OBVIOUS
<1> HIDE DEF T
<1>5. ASSUME NEW x \in S, ~(x <= m) PROVE FALSE
  <2>1. m \in Int /\ x \in Int /\ \A y \in S : y \in Int
    OBVIOUS
  <2>2. from(x) \subseteq from(m) /\ m \in from(m) /\ m \notin from(x)
    <3>1. \A y \in S : x <= y => m <= y
      BY <1>5, <2>1
    <3>2. ~(x <= m) /\ m <= m
      BY <1>5, <2>1
    <3> QED
      BY <3>1, <3>2
  <2>3. <<from(x), from(m)>> \in StrictSubsetOrdering(S)
    BY <2>2 DEF StrictSubsetOrdering
  <2> QED
    BY <1>2, <1>3, <1>4, <2>3
<1> QED
  BY <1>5

LEMMA LeastExists ==
  ASSUME NEW S \in SUBSET Int, IsFiniteSet(S), S # {}
  PROVE  \E m \in S : \A x \in S : m <= x
<1> DEFINE upTo(x) == {y \in S : y <= x}
           T == {upTo(x) : x \in S}
<1>1. T \subseteq FiniteSubsetsOf(S) /\ T # {}
  <2>1. \A x \in S : upTo(x) \in FiniteSubsetsOf(S)
    BY FS_Subset DEF FiniteSubsetsOf
  <2> QED
    BY <2>1
<1>2. PICK U \in T : \A V \in T : ~(<<V, U>> \in StrictSubsetOrdering(S))
  <2> HIDE DEF T
  <2> QED
    BY <1>1, FS_StrictSubsetOrderingWellFounded, WFMin
<1>3. PICK m \in S : U = upTo(m)
  OBVIOUS
<1>4. \A x \in S : upTo(x) \in T
  OBVIOUS
<1> HIDE DEF T
<1>5. ASSUME NEW x \in S, ~(m <= x) PROVE FALSE
  <2>1. m \in Int /\ x \in Int /\ \A y \in S : y \in Int
    OBVIOUS
  <2>2. upTo(x) \subseteq upTo(m) /\ m \in upTo(m) /\ m \notin upTo(x)
    <3>1. \A y \in S : y <= x => y <= m
      BY <1>5, <2>1
    <3>2. ~(m <= x) /\ m <= m
      BY <1>5, <2>1
    <3> QED
      BY <3>1, <3>2
  <2>3. <<upTo(x), upTo(m)>> \in StrictSubsetOrdering(S)
    BY <2>2 DEF StrictSubsetOrdering
  <2> QED
    BY <1>2, <1>3, <1>4, <2>3
<1> QED
  BY <1>5

LEMMA CoinsOf ==
  ASSUME NEW D, NEW f \in [D -> Int]
  PROVE  \A c : c \in Coins(f) <=> c = <<c[1], c[2]>> /\ c[1] \in D /\ c[2] \in 1 .. f[c[1]]
BY DEF Coins

\* Sums of finitely many amounts: parts that are counted apart count the whole, and a sum of
\* differences is the difference of the sums.
LEMMA CoinsFinite ==
  ASSUME NEW D, IsFiniteSet(D), NEW f \in [D -> Int]
  PROVE  IsFiniteSet(Coins(f)) /\ Cardinality(Coins(f)) \in Nat
<1> DEFINE h == [d \in D |-> {d} \X (1 .. f[d])]
           T == {{d} \X (1 .. f[d]) : d \in D}
<1>1. h \in Surjection(D, T)
  BY DEF Surjection
<1>2. IsFiniteSet(T)
  <2> HIDE DEF h, T
  <2> QED
    BY <1>1, FS_Surjection
<1>3. ASSUME NEW U \in T PROVE IsFiniteSet(U)
  <2>1. PICK d \in D : U = {d} \X (1 .. f[d])
    OBVIOUS
  <2>2. f[d] \in Int /\ IsFiniteSet({d})
    BY FS_Singleton
  <2>3. IsFiniteSet(1 .. f[d])
    BY <2>2, FS_Interval
  <2> QED
    BY <2>1, <2>2, <2>3, FS_Product
<1>4. Coins(f) = UNION T
  BY DEF Coins
<1> HIDE DEF T
<1>5. IsFiniteSet(Coins(f))
  BY <1>2, <1>3, <1>4, FS_UNION
<1> QED
  BY <1>5, FS_CardinalityType

LEMMA CountedInParts ==
  ASSUME NEW X, IsFiniteSet(X), NEW D, NEW g \in [X -> D]
  PROVE  Cardinality(Coins([d \in D |-> Cardinality({x \in X : g[x] = d})])) = Cardinality(X)
<1> DEFINE part(d) == {x \in X : g[x] = d}
           n == [d \in D |-> Cardinality(part(d))]
           b == [d \in D |-> CHOOSE h : h \in Bijection(1 .. n[d], part(d))]
           f == [c \in Coins(n) |-> b[c[1]][c[2]]]
<1>1. ASSUME NEW d \in D PROVE n[d] \in Nat /\ b[d] \in Bijection(1 .. n[d], part(d))
  <2>1. IsFiniteSet(part(d))
    BY FS_Subset
  <2>2. Cardinality(part(d)) \in Nat /\ ExistsBijection(1 .. Cardinality(part(d)), part(d))
    BY <2>1, FS_CardinalityType
  <2> QED
    BY <2>2 DEF ExistsBijection
<1>2. n \in [D -> Int]
  <2> HIDE DEF b
  <2>1. \A d \in D : n[d] \in Int
    <3>1. \A d \in D : n[d] \in Nat
      BY <1>1
    <3> HIDE DEF n
    <3> QED
      BY <3>1
  <2> HIDE DEF part
  <2> QED
    BY <2>1
<1> HIDE DEF n, b
<1>3. \A c : c \in Coins(n) <=> c = <<c[1], c[2]>> /\ c[1] \in D /\ c[2] \in 1 .. n[c[1]]
  BY <1>2, CoinsOf
<1>4. ASSUME NEW c \in Coins(n) PROVE f[c] \in X /\ g[f[c]] = c[1]
  <2>1. c[1] \in D /\ c[2] \in 1 .. n[c[1]]
    BY <1>3
  <2>2. b[c[1]][c[2]] \in part(c[1])
    BY <2>1, <1>1 DEF Bijection, Injection, IsInjective
  <2> QED
    BY <2>2
<1>5. ASSUME NEW c \in Coins(n), NEW e \in Coins(n), f[c] = f[e] PROVE c = e
  <2>1. c[1] = e[1]
    BY <1>4, <1>5
  <2>2. c[1] \in D /\ c[2] \in 1 .. n[c[1]] /\ e[2] \in 1 .. n[c[1]]
    BY <1>3, <2>1
  <2>3. b[c[1]][c[2]] = b[c[1]][e[2]]
    BY <1>5, <2>1
  <2>4. b[c[1]] \in Bijection(1 .. n[c[1]], part(c[1]))
    BY <1>1, <2>2
  <2>5. c[2] = e[2]
    BY <2>2, <2>3, <2>4 DEF Bijection, Injection, IsInjective
  <2> QED
    BY <1>3, <2>1, <2>5
<1>6. ASSUME NEW x \in X PROVE \E c \in Coins(n) : f[c] = x
  <2>1. g[x] \in D /\ x \in part(g[x])
    OBVIOUS
  <2>2. PICK u \in 1 .. n[g[x]] : b[g[x]][u] = x
    BY <1>1, <2>1 DEF Bijection, Surjection
  <2>3. <<g[x], u>> \in Coins(n)
    BY <1>3, <2>1
  <2> QED
    BY <2>2, <2>3
<1>7. f \in Injection(Coins(n), X) /\ f \in Surjection(Coins(n), X)
  BY <1>4, <1>5, <1>6 DEF Injection, IsInjective, Surjection
<1> HIDE DEF f
<1>8. Cardinality(Coins(n)) = Cardinality(X)
  BY <1>7, FS_Injection
<1> QED
  BY <1>8 DEF n

LEMMA CoinsOfBoth ==
  ASSUME NEW D, IsFiniteSet(D), NEW f \in [D -> Nat], NEW g \in [D -> Nat]
  PROVE  Cardinality(Coins([d \in D |-> f[d] + g[d]])) =
           Cardinality(Coins(f)) + Cardinality(Coins(g))
<1> DEFINE both == [d \in D |-> f[d] + g[d]]
           above == {c \in Coins(both) : c[2] > f[c[1]]}
           down == [c \in above |-> <<c[1], c[2] - f[c[1]]>>]
<1>1. f \in [D -> Int] /\ g \in [D -> Int] /\ both \in [D -> Int]
  OBVIOUS
<1> HIDE DEF both
<1>2. /\ \A c : c \in Coins(f) <=> c = <<c[1], c[2]>> /\ c[1] \in D /\ c[2] \in 1 .. f[c[1]]
      /\ \A c : c \in Coins(g) <=> c = <<c[1], c[2]>> /\ c[1] \in D /\ c[2] \in 1 .. g[c[1]]
      /\ \A c : c \in Coins(both) <=> c = <<c[1], c[2]>> /\ c[1] \in D /\ c[2] \in 1 .. both[c[1]]
  BY <1>1, CoinsOf, Zenon
<1>3. \A d \in D : both[d] = f[d] + g[d] /\ f[d] \in Nat /\ g[d] \in Nat
  BY DEF both
<1>4. Coins(both) = Coins(f) \cup above
  <2>1. ASSUME NEW c \in Coins(f) PROVE c \in Coins(both)
    BY <1>2, <1>3
  <2>2. ASSUME NEW c \in Coins(both), c \notin above PROVE c \in Coins(f)
    <3>1. c = <<c[1], c[2]>> /\ c[1] \in D /\ c[2] \in 1 .. both[c[1]]
      BY <1>2
    <3>2. c[2] \in Int /\ ~(c[2] > f[c[1]])
      BY <1>3, <2>2, <3>1
    <3>3. c[2] \in 1 .. f[c[1]]
      BY <1>3, <3>1, <3>2
    <3> QED
      BY <1>2, <3>1, <3>3
  <2> QED
    BY <2>1, <2>2
<1>5. Coins(f) \cap above = {}
  BY <1>2, <1>3
<1>6. ASSUME NEW c \in above PROVE down[c] \in Coins(g)
  <2>1. c[1] \in D /\ c[2] \in 1 .. both[c[1]] /\ c[2] > f[c[1]]
    BY <1>2
  <2>2. c[2] - f[c[1]] \in 1 .. g[c[1]]
    BY <1>3, <2>1
  <2> QED
    BY <1>2, <2>1, <2>2
<1>7. ASSUME NEW c \in above, NEW e \in above, down[c] = down[e] PROVE c = e
  <2>1. /\ c = <<c[1], c[2]>> /\ c[1] \in D /\ c[2] \in 1 .. both[c[1]]
        /\ e = <<e[1], e[2]>> /\ e[1] \in D /\ e[2] \in 1 .. both[e[1]]
    BY <1>2
  <2>2. c[1] = e[1] /\ c[2] - f[c[1]] = e[2] - f[e[1]]
    BY <1>7
  <2>3. c[2] = e[2]
    BY <1>3, <2>1, <2>2
  <2> QED
    BY <2>1, <2>2, <2>3
<1>8. ASSUME NEW c \in Coins(g) PROVE \E e \in above : down[e] = c
  <2> DEFINE e == <<c[1], c[2] + f[c[1]]>>
  <2>1. c = <<c[1], c[2]>> /\ c[1] \in D /\ c[2] \in 1 .. g[c[1]]
    BY <1>2
  <2>2. c[2] + f[c[1]] \in 1 .. both[c[1]] /\ c[2] + f[c[1]] > f[c[1]]
    BY <1>3, <2>1
  <2>3. e \in above
    BY <1>2, <2>1, <2>2
  <2>4. (c[2] + f[c[1]]) - f[c[1]] = c[2]
    BY <1>3, <2>1
  <2>5. down[e] = c
    BY <2>1, <2>3, <2>4
  <2> QED
    BY <2>3, <2>5
<1>9. down \in Injection(above, Coins(g)) /\ down \in Surjection(above, Coins(g))
  BY <1>6, <1>7, <1>8 DEF Injection, IsInjective, Surjection
<1>10. IsFiniteSet(Coins(g)) /\ IsFiniteSet(Coins(f)) /\ Cardinality(Coins(f)) \in Nat
         /\ Cardinality(Coins(g)) \in Nat
  BY <1>1, CoinsFinite
<1> HIDE DEF down, above
<1>11. IsFiniteSet(above) /\ Cardinality(above) = Cardinality(Coins(g))
  BY <1>9, <1>10, FS_Injection
<1>12. Cardinality(Coins(f) \cup above) = Cardinality(Coins(f)) + Cardinality(above) - Cardinality({})
  BY <1>5, <1>10, <1>11, FS_Union
<1>13. Cardinality(Coins(both)) = Cardinality(Coins(f)) + Cardinality(Coins(g))
  BY <1>4, <1>10, <1>11, <1>12, FS_EmptySet
<1> QED
  BY <1>13 DEF both

LEMMA SumOfGains ==
  ASSUME NEW D, IsFiniteSet(D), NEW f \in [D -> Nat]
  PROVE  Sum(f) = Cardinality(Coins(f)) /\ Sum(f) \in Nat
<1>1. \A d \in D : 1 .. (-f[d]) = {}
  OBVIOUS
<1>2. Coins([d \in D |-> -f[d]]) = {}
  BY <1>1 DEF Coins
<1>3. f \in [D -> Int]
  OBVIOUS
<1>4. Cardinality(Coins(f)) \in Nat
  BY <1>3, CoinsFinite
<1>5. Sum(f) = Cardinality(Coins(f)) - 0
  BY <1>2, FS_EmptySet DEF Sum
<1> QED
  BY <1>4, <1>5

LEMMA SumOfDifferences ==
  ASSUME NEW D, IsFiniteSet(D), NEW a \in [D -> Nat], NEW b \in [D -> Nat]
  PROVE  Sum([d \in D |-> a[d] - b[d]]) = Cardinality(Coins(a)) - Cardinality(Coins(b))
<1> DEFINE gain == [d \in D |-> IF a[d] > b[d] THEN a[d] - b[d] ELSE 0]
           loss == [d \in D |-> IF b[d] > a[d] THEN b[d] - a[d] ELSE 0]
           even == [d \in D |-> IF a[d] > b[d] THEN b[d] ELSE a[d]]
           f == [d \in D |-> a[d] - b[d]]
<1>1. \A d \in D : /\ gain[d] \in Nat /\ loss[d] \in Nat /\ even[d] \in Nat
                   /\ a[d] = gain[d] + even[d] /\ b[d] = loss[d] + even[d]
  <2> SUFFICES ASSUME NEW d \in D
               PROVE  /\ gain[d] \in Nat /\ loss[d] \in Nat /\ even[d] \in Nat
                      /\ a[d] = gain[d] + even[d] /\ b[d] = loss[d] + even[d]
    OBVIOUS
  <2>1. a[d] \in Nat /\ b[d] \in Nat
    OBVIOUS
  <2>2. CASE a[d] > b[d]
    BY <2>1, <2>2
  <2>3. CASE ~(a[d] > b[d])
    BY <2>1, <2>3
  <2> QED
    BY <2>2, <2>3
<1>2. \A d \in D : 1 .. f[d] = 1 .. gain[d] /\ 1 .. (-f[d]) = 1 .. loss[d]
  OBVIOUS
<1>3. gain \in [D -> Nat] /\ loss \in [D -> Nat] /\ even \in [D -> Nat]
  OBVIOUS
<1>4. Coins(f) = Coins(gain) /\ Coins([d \in D |-> -f[d]]) = Coins(loss)
  BY <1>2 DEF Coins
<1> HIDE DEF gain, loss, even
<1>5. a = [d \in D |-> gain[d] + even[d]] /\ b = [d \in D |-> loss[d] + even[d]]
  BY <1>1
<1>6. /\ Cardinality(Coins(a)) = Cardinality(Coins(gain)) + Cardinality(Coins(even))
      /\ Cardinality(Coins(b)) = Cardinality(Coins(loss)) + Cardinality(Coins(even))
  BY <1>3, <1>5, CoinsOfBoth
<1>7. /\ Cardinality(Coins(gain)) \in Nat /\ Cardinality(Coins(loss)) \in Nat
      /\ Cardinality(Coins(even)) \in Nat
  <2>1. gain \in [D -> Int] /\ loss \in [D -> Int] /\ even \in [D -> Int]
    BY <1>3
  <2> QED
    BY <2>1, CoinsFinite
<1>8. Sum(f) = Cardinality(Coins(gain)) - Cardinality(Coins(loss))
  BY <1>4 DEF Sum
<1> QED
  BY <1>6, <1>7, <1>8

LEMMA SumOfProfits ==
  ASSUME NEW D, IsFiniteSet(D), NEW r \in [D -> Nat], NEW p \in [D -> Nat], NEW c \in [D -> Nat]
  PROVE  Sum([d \in D |-> r[d] - p[d] - c[d]]) = Sum(r) - Sum(p) - Sum(c)
<1> DEFINE spent == [d \in D |-> p[d] + c[d]]
<1>1. spent \in [D -> Nat]
  OBVIOUS
<1>2. [d \in D |-> r[d] - p[d] - c[d]] = [d \in D |-> r[d] - spent[d]]
  <2>1. \A d \in D : r[d] - p[d] - c[d] = r[d] - spent[d]
    OBVIOUS
  <2> QED
    BY <2>1
<1>3. Cardinality(Coins(spent)) = Cardinality(Coins(p)) + Cardinality(Coins(c))
  BY CoinsOfBoth
<1> HIDE DEF spent
<1>4. Sum([d \in D |-> r[d] - spent[d]]) = Cardinality(Coins(r)) - Cardinality(Coins(spent))
  BY <1>1, SumOfDifferences
<1>5. /\ Sum(r) = Cardinality(Coins(r)) /\ Sum(r) \in Nat
      /\ Sum(p) = Cardinality(Coins(p)) /\ Sum(p) \in Nat
      /\ Sum(c) = Cardinality(Coins(c)) /\ Sum(c) \in Nat
  BY SumOfGains
<1>6. Sum([d \in D |-> r[d] - p[d] - c[d]]) = Sum(r) - (Sum(p) + Sum(c))
  BY <1>2, <1>3, <1>4, <1>5
<1> QED
  BY <1>5, <1>6

\* What is counted of a set of calls, and that parts of the set add up to it.
Counts == {"calls", "converted", "revenue", "payout", "cost"}

LEMMA RowFields ==
  ASSUME cdrs \in [Cdr -> CallRow], NEW c \in Cdr
  PROVE  /\ cdrs[c].result.converted \in BOOLEAN /\ cdrs[c].at \in Nat
         /\ \A k \in {"revenue", "payout", "cost"} : cdrs[c].result[k] \in Nat
BY DEF CallRow

LEMMA BucketOf ==
  ASSUME NEW S
  PROVE  /\ DOMAIN Bucket(S) = Counts
         /\ Bucket(S).calls = Cardinality(S)
         /\ Bucket(S).converted = Cardinality({c \in S : cdrs[c].result.converted})
         /\ \A k \in {"revenue", "payout", "cost"} :
              Bucket(S)[k] = Sum([c \in S |-> cdrs[c].result[k]])
BY DEF Bucket, Counts, SumOf, Money

LEMMA BucketTyped ==
  ASSUME cdrs \in [Cdr -> CallRow], NEW S \in SUBSET Cdr
  PROVE  \A k \in Counts : Bucket(S)[k] \in Nat
<1>1. IsFiniteSet(S) /\ IsFiniteSet({c \in S : cdrs[c].result.converted})
  BY RowsAssumption, FS_Subset
<1>2. Bucket(S).calls \in Nat /\ Bucket(S).converted \in Nat
  <2>1. Cardinality(S) \in Nat /\ Cardinality({c \in S : cdrs[c].result.converted}) \in Nat
    BY <1>1, FS_CardinalityType
  <2> QED
    BY <2>1, BucketOf
<1>3. ASSUME NEW k \in {"revenue", "payout", "cost"} PROVE Bucket(S)[k] \in Nat
  <2>1. [c \in S |-> cdrs[c].result[k]] \in [S -> Nat]
    BY RowFields
  <2>2. Sum([c \in S |-> cdrs[c].result[k]]) \in Nat
    BY <1>1, <2>1, SumOfGains
  <2> QED
    BY <2>2, BucketOf
<1> QED
  BY <1>2, <1>3 DEF Counts

LEMMA PartsAddUp ==
  ASSUME cdrs \in [Cdr -> CallRow], NEW S \in SUBSET Cdr, NEW D, IsFiniteSet(D), NEW g \in [S -> D]
  PROVE  \A k \in Counts : Sum([d \in D |-> Bucket({c \in S : g[c] = d})[k]]) = Bucket(S)[k]
<1> DEFINE part(d) == {c \in S : g[c] = d}
<1>1. IsFiniteSet(S)
  BY RowsAssumption, FS_Subset
<1>2. ASSUME NEW k \in Counts, NEW X, IsFiniteSet(X), NEW h \in [X -> D],
             \A d \in D : Bucket(part(d))[k] = Cardinality({x \in X : h[x] = d})
      PROVE  Sum([d \in D |-> Bucket(part(d))[k]]) = Cardinality(X)
  <2> DEFINE n == [d \in D |-> Cardinality({x \in X : h[x] = d})]
  <2>1. [d \in D |-> Bucket(part(d))[k]] = n
    BY <1>2
  <2>2. \A d \in D : n[d] \in Nat
    BY <1>2, BucketTyped
  <2>3. n \in [D -> Nat]
    BY <2>2
  <2>4. Cardinality(Coins(n)) = Cardinality(X)
    BY <1>2, CountedInParts
  <2> HIDE DEF n
  <2>5. Sum(n) = Cardinality(Coins(n))
    BY <2>3, SumOfGains
  <2> QED
    BY <2>1, <2>4, <2>5
<1>3. Sum([d \in D |-> Bucket(part(d)).calls]) = Bucket(S).calls
  <2>1. \A d \in D : Bucket(part(d)).calls = Cardinality({x \in S : g[x] = d})
    BY BucketOf
  <2>2. "calls" \in Counts
    BY DEF Counts
  <2>3. Sum([d \in D |-> Bucket(part(d))["calls"]]) = Cardinality(S)
    <3> HIDE DEF part
    <3> QED
      BY <1>1, <1>2, <2>1, <2>2
  <2> QED
    BY <2>3, BucketOf
<1>4. Sum([d \in D |-> Bucket(part(d)).converted]) = Bucket(S).converted
  <2> DEFINE X == {c \in S : cdrs[c].result.converted}
             h == [x \in X |-> g[x]]
  <2>1. ASSUME NEW d \in D PROVE Bucket(part(d)).converted = Cardinality({x \in X : h[x] = d})
    <3>1. {c \in part(d) : cdrs[c].result.converted} = {x \in X : h[x] = d}
      OBVIOUS
    <3> QED
      BY <3>1, BucketOf
  <2>2. "converted" \in Counts /\ IsFiniteSet(X) /\ h \in [X -> D]
    BY <1>1, FS_Subset DEF Counts
  <2>3. Bucket(S).converted = Cardinality(X)
    BY BucketOf
  <2> HIDE DEF X, h
  <2> QED
    BY <1>2, <2>1, <2>2, <2>3
<1>5. ASSUME NEW k \in {"revenue", "payout", "cost"}
      PROVE  Sum([d \in D |-> Bucket(part(d))[k]]) = Bucket(S)[k]
  <2> DEFINE w == [c \in S |-> cdrs[c].result[k]]
             X == Coins(w)
             h == [x \in X |-> g[x[1]]]
  <2>1. w \in [S -> Nat] /\ w \in [S -> Int]
    BY RowFields
  <2>2. IsFiniteSet(X)
    BY <1>1, <2>1, CoinsFinite
  <2>3. \A x : x \in X <=> x = <<x[1], x[2]>> /\ x[1] \in S /\ x[2] \in 1 .. w[x[1]]
    BY <2>1, CoinsOf
  <2>4. h \in [X -> D]
    BY <2>3
  <2>5. ASSUME NEW d \in D PROVE Bucket(part(d))[k] = Cardinality({x \in X : h[x] = d})
    <3> DEFINE v == [c \in part(d) |-> cdrs[c].result[k]]
    <3>1. v \in [part(d) -> Nat] /\ v \in [part(d) -> Int] /\ IsFiniteSet(part(d))
      BY <1>1, RowFields, FS_Subset
    <3>2. \A x : x \in Coins(v) <=> x = <<x[1], x[2]>> /\ x[1] \in part(d) /\ x[2] \in 1 .. v[x[1]]
      BY <3>1, CoinsOf
    <3>3. \A c \in part(d) : v[c] = w[c]
      OBVIOUS
    <3>4. Coins(v) = {x \in X : h[x] = d}
      <4> HIDE DEF w, v
      <4>1. ASSUME NEW x \in Coins(v) PROVE x \in X /\ h[x] = d
        <5> HIDE DEF X
        <5>1. x \in X
          BY <2>3, <3>2, <3>3
        <5> QED
          BY <3>2, <5>1
      <4>2. ASSUME NEW x \in X, h[x] = d PROVE x \in Coins(v)
        <5> HIDE DEF X
        <5>1. x = <<x[1], x[2]>> /\ x[1] \in S /\ x[2] \in 1 .. w[x[1]]
          BY <2>3
        <5>2. x[1] \in part(d)
          BY <4>2, <5>1
        <5> QED
          BY <3>2, <3>3, <5>1, <5>2
      <4> QED
        BY <4>1, <4>2
    <3>5. Bucket(part(d))[k] = Sum(v)
      BY BucketOf
    <3>6. Sum(v) = Cardinality(Coins(v))
      <4> HIDE DEF v
      <4> QED
        BY <3>1, SumOfGains
    <3> QED
      BY <3>4, <3>5, <3>6
  <2>6. k \in Counts
    BY DEF Counts
  <2>7. Bucket(S)[k] = Cardinality(X)
    <3>1. Bucket(S)[k] = Sum(w)
      BY BucketOf
    <3> HIDE DEF w
    <3>2. Sum(w) = Cardinality(Coins(w))
      BY <1>1, <2>1, SumOfGains
    <3> QED
      BY <3>1, <3>2
  <2> HIDE DEF X, h
  <2> QED
    BY <1>2, <2>2, <2>4, <2>5, <2>6, <2>7
<1> QED
  BY <1>3, <1>4, <1>5 DEF Counts

\* The day of a time.
LEMMA DayOfTime ==
  ASSUME NEW t \in Nat
  PROVE  /\ DayOf(t) \in DOMAIN DayStarts /\ DayStarts[DayOf(t)] <= t
         /\ \A e \in DOMAIN DayStarts : DayStarts[e] <= t => e <= DayOf(t)
<1> DEFINE E == {d \in DOMAIN DayStarts : DayStarts[d] <= t}
<1>1. DOMAIN DayStarts = 1 .. Len(DayStarts) /\ Len(DayStarts) \in Nat
  BY ReportsAssumption
<1>2. 1 \in E
  <2>1. Len(DayStarts) >= 1 /\ DayStarts[1] = 0
    BY ReportsAssumption
  <2> QED
    BY <1>1, <2>1
<1>3. E \in SUBSET Int /\ IsFiniteSet(E)
  <2>1. IsFiniteSet(1 .. Len(DayStarts))
    BY <1>1, FS_Interval
  <2>2. E \subseteq 1 .. Len(DayStarts) /\ 1 .. Len(DayStarts) \subseteq Int
    BY <1>1
  <2> QED
    BY <2>1, <2>2, FS_Subset
<1> HIDE DEF E
<1>4. PICK d \in E : \A e \in E : e <= d
  BY <1>2, <1>3, GreatestExists
<1>5. d \in DOMAIN DayStarts /\ DayStarts[d] <= t /\ \A e \in DOMAIN DayStarts : DayStarts[e] <= t => e <= d
  BY <1>4 DEF E
<1> QED
  BY <1>5 DEF DayOf

LEMMA DayIs ==
  ASSUME NEW t \in Nat, NEW d \in DOMAIN DayStarts, DayStarts[d] <= t,
         \A e \in DOMAIN DayStarts : DayStarts[e] <= t => e <= d
  PROVE  DayOf(t) = d
<1>1. DayOf(t) <= d /\ d <= DayOf(t)
  BY DayOfTime
<1>2. DayOf(t) \in Int /\ d \in Int
  <2>1. DayOf(t) \in DOMAIN DayStarts
    BY DayOfTime
  <2>2. DOMAIN DayStarts = 1 .. Len(DayStarts) /\ Len(DayStarts) \in Nat
    BY ReportsAssumption
  <2> QED
    BY <2>1, <2>2
<1> QED
  BY <1>1, <1>2

LEMMA StrideAfter ==
  ASSUME NEW f \in Nat, NEW a \in Nat, f <= a
  PROVE  \E u \in Nat : a <= u /\ u < a + Stride /\ (u - f) % Stride = 0
<1>1. Stride \in Nat \ {0}
  BY ReportsAssumption
<1> DEFINE x == a - f
           q == x \div Stride
           r == x % Stride
<1>2. x \in Nat /\ q \in Int /\ r \in 0 .. Stride - 1 /\ x = Stride * q + r
  BY <1>1
<1>3. (Stride * q) % Stride = 0 /\ (Stride * (q + 1)) % Stride = 0
  BY <1>1, <1>2
<1>4. Stride * (q + 1) = Stride * q + Stride
  BY <1>1, <1>2
<1>5. CASE r = 0
  BY <1>1, <1>2, <1>3, <1>5
<1>6. CASE r # 0
  <2> DEFINE u == a + Stride - r
  <2>1. u - f = Stride * (q + 1)
    BY <1>1, <1>2, <1>4
  <2>2. u \in Nat /\ a <= u /\ u < a + Stride
    BY <1>1, <1>2, <1>6
  <2> QED
    BY <1>3, <2>1, <2>2
<1> QED
  BY <1>5, <1>6

\* The strides from f on, cut off at z, meet the day of every time from f to z.
LEMMA StridesMeetDays ==
  ASSUME NEW f \in Nat, NEW z \in Nat, NEW t \in Nat, f <= t, t <= z
  PROVE  \E u \in f .. z + Stride : (u - f) % Stride = 0 /\ DayOf(Earlier(u, z)) = DayOf(t)
<1> DEFINE d == DayOf(t)
           a == DayStarts[d]
<1>1. /\ d \in DOMAIN DayStarts /\ a <= t
      /\ \A e \in DOMAIN DayStarts : DayStarts[e] <= t => e <= d
  BY DayOfTime
<1>2. Stride \in Nat \ {0} /\ \A e \in DOMAIN DayStarts : DayStarts[e] \in Nat /\ e \in Nat
  BY ReportsAssumption
<1>3. \A e \in DOMAIN DayStarts : d < e => a + Stride <= DayStarts[e]
  BY <1>1, ReportsAssumption
<1> HIDE DEF d
<1>4. ASSUME NEW u \in Nat, a <= u, f <= u, u <= t \/ u < a + Stride
      PROVE  u \in f .. z + Stride /\ DayOf(Earlier(u, z)) = d
  <2> DEFINE v == Earlier(u, z)
  <2>1. v \in Nat /\ a <= v /\ (v <= t \/ v < a + Stride)
    BY <1>1, <1>2, <1>4 DEF Earlier
  <2> HIDE DEF v
  <2>2. ASSUME NEW e \in DOMAIN DayStarts, DayStarts[e] <= v PROVE e <= d
    BY <1>1, <1>2, <1>3, <2>1, <2>2
  <2>3. DayOf(v) = d
    BY <1>1, <2>1, <2>2, DayIs
  <2> QED
    BY <1>1, <1>2, <1>4, <2>3 DEF v
<1>5. CASE a <= f
  <2>1. (f - f) % Stride = 0
    BY <1>2
  <2> QED
    BY <1>4, <1>5, <2>1 DEF d
<1>6. CASE f < a
  <2>1. a \in Nat
    BY <1>1, <1>2
  <2>2. PICK u \in Nat : a <= u /\ u < a + Stride /\ (u - f) % Stride = 0
    BY <1>6, <2>1, StrideAfter
  <2>3. f <= u
    BY <1>6, <2>1, <2>2
  <2> QED
    BY <1>4, <2>2, <2>3 DEF d
<1>7. a \in Nat
  BY <1>1, <1>2
<1> QED
  BY <1>5, <1>6, <1>7

\* So does what a role is shown.
LEMMA HiddenAddUp ==
  ASSUME cdrs \in [Cdr -> CallRow], NEW S \in SUBSET Cdr, NEW D, IsFiniteSet(D), NEW g \in [S -> D],
         NEW role, NEW k \in DOMAIN Hide(role, Bucket(S))
  PROVE  Sum([d \in D |-> Hide(role, Bucket({c \in S : g[c] = d}))[k]]) = Hide(role, Bucket(S))[k]
<1> DEFINE part(d) == {c \in S : g[c] = d}
           of(i) == [d \in D |-> Bucket(part(d))[i]]
<1>1. \A i \in Counts : Sum(of(i)) = Bucket(S)[i]
  BY PartsAddUp
<1>2. \A T : \A i \in DOMAIN Hide(role, Bucket(S)) :
        Hide(role, Bucket(T))[i] = IF i = "profit"
                                   THEN Bucket(T).revenue - Bucket(T).payout - Bucket(T).cost
                                   ELSE Bucket(T)[i]
  BY DEF Hide
<1>3. CASE k # "profit"
  <2>1. k \in Counts
    BY <1>3 DEF Hide, Counts
  <2>2. \A T : Hide(role, Bucket(T))[k] = Bucket(T)[k]
    BY <1>2, <1>3
  <2>3. [d \in D |-> Hide(role, Bucket(part(d)))[k]] = of(k)
    BY <2>2
  <2> QED
    BY <1>1, <2>1, <2>2, <2>3
<1>4. CASE k = "profit"
  <2>1. \A T : Hide(role, Bucket(T))[k] = Bucket(T).revenue - Bucket(T).payout - Bucket(T).cost
    BY <1>2, <1>4
  <2>2. /\ of("revenue") \in [D -> Nat] /\ of("payout") \in [D -> Nat] /\ of("cost") \in [D -> Nat]
        /\ {"revenue", "payout", "cost"} \subseteq Counts
    BY BucketTyped DEF Counts
  <2>3. [d \in D |-> Hide(role, Bucket(part(d)))[k]] =
          [d \in D |-> of("revenue")[d] - of("payout")[d] - of("cost")[d]]
    BY <2>1
  <2> HIDE DEF of
  <2>4. Sum([d \in D |-> of("revenue")[d] - of("payout")[d] - of("cost")[d]]) =
          Sum(of("revenue")) - Sum(of("payout")) - Sum(of("cost"))
    BY <2>2, SumOfProfits
  <2> QED
    BY <1>1, <2>1, <2>2, <2>3, <2>4
<1> QED
  BY <1>3, <1>4

\* What the breakdown would be of the rows as they are.
GroupsNow == [g \in {GroupOf(c) : c \in Found} |-> Bucket({c \in Found : GroupOf(c) = g})]
GroupsConvertedNow ==
  [g \in {GroupOf(c) : c \in FoundConverted} |-> Cardinality({c \in FoundConverted : GroupOf(c) = g})]

\* The order in which the queries are made.
Rightly ==
  /\ Asked({"daily"}) \/ Asked({"hourly"}) => Asked(Together)
  /\ Asked({"groups"}) => Asked(Charts)
  /\ Asked({"groupsConverted"}) => Asked({"groups"})

\* The charts are of the calls of the list, as they were when they came in.
ChartsCount ==
  /\ Asked({"daily"}) =>
       /\ DOMAIN got["daily"] = Days
       /\ \A d \in Days : got["daily"][d].calls = Cardinality({c \in got["ids"] : DayOf(cdrs[c].at) = d})
  /\ Asked({"hourly"}) =>
       /\ DOMAIN got["hourly"] = 0 .. 7
       /\ \A h \in 0 .. 7 : got["hourly"][h].calls = Cardinality({c \in got["ids"] : HourOf(cdrs[c].at) = h})

\* The calls of the list are there and in the range, whatever happened to them since.
InRange ==
  /\ Asked({"ids"}) =>
       /\ got["ids"] \subseteq Cdr
       /\ \A c \in got["ids"] : Written(c) /\ request.from <= cdrs[c].at /\ cdrs[c].at <= request.to
  /\ Asked({"first"}) => got["first"] \subseteq request.from .. request.to

\* What was answered is what would be answered.
UpToDate ==
  /\ \A q \in Together : Asked({q}) => got[q] = Answer(q)
  /\ \A q \in Charts : Asked({q}) => got[q] = Chart(q)
  /\ Asked({"groups"}) => got["groups"] = GroupsNow
  /\ Asked({"groupsConverted"}) => got["groupsConverted"] = GroupsConvertedNow

ReportsInv ==
  /\ cdrs \in [Cdr -> CallRow] /\ request \in Request /\ moves \in Nat
  /\ Rightly /\ InRange /\ ChartsCount
  /\ moves = 0 => UpToDate

LEMMA GotKeeps ==
  ASSUME NEW q, NEW a, q \notin DOMAIN got, Got(q, a)
  PROVE  /\ DOMAIN got' = DOMAIN got \cup {q} /\ got'[q] = a
         /\ \A r \in DOMAIN got : got'[r] = got[r]
BY DEF Got

\* What does not touch the rows or the request leaves every answer right.
LEMMA SameDays ==
  ASSUME UNCHANGED request, got'["first"] = got["first"]
  PROVE  Days' = Days
BY DEF Days, ChartFrom

LEMMA SameChart ==
  ASSUME UNCHANGED <<cdrs, request>>, got'["first"] = got["first"], got'["ids"] = got["ids"], NEW q
  PROVE  Chart(q)' = Chart(q)
BY SameDays DEF Chart, Bucket, SumOf, Money

LEMMA SameAnswers ==
  ASSUME UNCHANGED <<cdrs, request>>
  PROVE  /\ Found' = Found /\ FoundConverted' = FoundConverted
         /\ \A q : Answer(q)' = Answer(q)
         /\ GroupsNow' = GroupsNow /\ GroupsConvertedNow' = GroupsConvertedNow
BY DEF Found, FoundConverted, Listed, Written, Answer, Bucket, SumOf, Money, GroupsNow, GroupsConvertedNow,
       GroupOf

\* One more answer.
LEMMA GotInv ==
  ASSUME ReportsInv, NEW q, NEW a, q \notin DOMAIN got, Got(q, a), UNCHANGED <<cdrs, request, moves>>,
         \/ q \in Together /\ a = Answer(q)
         \/ q \in Charts /\ Asked(Together) /\ a = Chart(q)
         \/ q = "groups" /\ Asked(Charts) /\ a = GroupsNow
         \/ q = "groupsConverted" /\ Asked({"groups"}) /\ a = GroupsConvertedNow
  PROVE  ReportsInv'
<1>1. /\ DOMAIN got' = DOMAIN got \cup {q} /\ got'[q] = a
      /\ \A r \in DOMAIN got : got'[r] = got[r]
  BY GotKeeps
<1>2. /\ Found' = Found /\ FoundConverted' = FoundConverted
      /\ \A r : Answer(r)' = Answer(r)
      /\ GroupsNow' = GroupsNow /\ GroupsConvertedNow' = GroupsConvertedNow
  BY SameAnswers
<1>3. \A Q : Asked(Q) => Asked(Q)'
  BY <1>1 DEF Asked
<1>4. \A r : Asked({r})' <=> Asked({r}) \/ r = q
  BY <1>1 DEF Asked
<1>5. ASSUME Asked(Together) PROVE Days' = Days /\ \A r : Chart(r)' = Chart(r)
  <2>1. got'["first"] = got["first"] /\ got'["ids"] = got["ids"]
    BY <1>1, <1>5 DEF Asked, Together
  <2> QED
    BY <2>1, SameDays, SameChart
<1>6. Rightly'
  BY <1>1, <1>3, <1>4 DEF ReportsInv, Rightly, Together, Charts
<1>7. InRange'
  <2>1. CASE q = "ids"
    <3>1. got'["ids"] = Found /\ (Asked({"first"})' <=> Asked({"first"}))
      BY <1>1, <1>4, <2>1 DEF Together, Charts, Answer
    <3>2. \A c \in Found : c \in Cdr /\ Written(c) /\ request.from <= cdrs[c].at /\ cdrs[c].at <= request.to
      BY DEF Found, Listed
    <3>3. Asked({"first"}) => got'["first"] = got["first"]
      BY <1>1 DEF Asked
    <3> QED
      BY <3>1, <3>2, <3>3 DEF ReportsInv, InRange, Written
  <2>2. CASE q = "first"
    <3>1. got'["first"] = {cdrs[c].at : c \in Found} /\ (Asked({"ids"})' <=> Asked({"ids"}))
      BY <1>1, <1>4, <2>2 DEF Together, Charts, Answer
    <3>2. Asked({"ids"}) => got'["ids"] = got["ids"]
      BY <1>1 DEF Asked
    <3>3. ASSUME NEW c \in Found PROVE cdrs[c].at \in request.from .. request.to
      <4>1. c \in Cdr /\ request.from <= cdrs[c].at /\ cdrs[c].at <= request.to
        BY DEF Found, Listed
      <4>2. cdrs[c].at \in Nat /\ request.from \in Nat /\ request.to \in Nat
        BY <4>1, RowFields DEF ReportsInv, Request
      <4> QED
        BY <4>1, <4>2
    <3> QED
      BY <3>1, <3>2, <3>3 DEF ReportsInv, InRange, Written
  <2>3. CASE q \notin {"ids", "first"}
    <3>1. /\ (Asked({"ids"})' <=> Asked({"ids"})) /\ (Asked({"first"})' <=> Asked({"first"}))
          /\ Asked({"ids"}) => got'["ids"] = got["ids"]
          /\ Asked({"first"}) => got'["first"] = got["first"]
      BY <1>1, <1>4, <2>3 DEF Asked
    <3> QED
      BY <3>1 DEF ReportsInv, InRange, Written
  <2> QED
    BY <2>1, <2>2, <2>3
<1>8. ChartsCount'
  <2>1. CASE ~Asked(Together)
    <3>1. ~Asked({"daily"}) /\ ~Asked({"hourly"}) /\ q \notin Charts
      BY <2>1 DEF ReportsInv, Rightly, Together, Charts, Asked
    <3>2. ~Asked({"daily"})' /\ ~Asked({"hourly"})'
      BY <1>4, <3>1 DEF Charts
    <3> QED
      BY <3>2 DEF ChartsCount
  <2>2. CASE Asked(Together)
    <3>1. Days' = Days /\ got'["ids"] = got["ids"]
      BY <1>1, <1>5, <2>2 DEF Asked, Together
    <3>2. ASSUME Asked({"daily"})'
          PROVE  /\ DOMAIN got'["daily"] = Days
                 /\ \A d \in Days :
                      got'["daily"][d].calls = Cardinality({c \in got["ids"] : DayOf(cdrs[c].at) = d})
      <4>1. CASE Asked({"daily"})
        BY <1>1, <4>1 DEF ReportsInv, ChartsCount, Asked
      <4>2. CASE q = "daily"
        <5>1. got'["daily"] = Chart("daily")
          BY <1>1, <4>2 DEF Together, Charts
        <5>2. Chart("daily") = [d \in Days |-> Bucket({c \in got["ids"] : DayOf(cdrs[c].at) = d})]
          BY DEF Chart
        <5>3. \A S : Bucket(S).calls = Cardinality(S)
          BY BucketOf
        <5> QED
          BY <5>1, <5>2, <5>3
      <4> QED
        BY <1>4, <3>2, <4>1, <4>2
    <3>3. ASSUME Asked({"hourly"})'
          PROVE  /\ DOMAIN got'["hourly"] = 0 .. 7
                 /\ \A h \in 0 .. 7 :
                      got'["hourly"][h].calls = Cardinality({c \in got["ids"] : HourOf(cdrs[c].at) = h})
      <4>1. CASE Asked({"hourly"})
        BY <1>1, <4>1 DEF ReportsInv, ChartsCount, Asked
      <4>2. CASE q = "hourly"
        <5>1. got'["hourly"] = Chart("hourly")
          BY <1>1, <4>2 DEF Together, Charts
        <5>2. Chart("hourly") = [h \in 0 .. 7 |-> Bucket({c \in got["ids"] : HourOf(cdrs[c].at) = h})]
          BY DEF Chart
        <5>3. \A S : Bucket(S).calls = Cardinality(S)
          BY BucketOf
        <5> QED
          BY <5>1, <5>2, <5>3
      <4> QED
        BY <1>4, <3>3, <4>1, <4>2
    <3> QED
      BY <3>1, <3>2, <3>3 DEF ChartsCount
  <2> QED
    BY <2>1, <2>2
<1>9. moves' = 0 => UpToDate'
  <2>1. SUFFICES ASSUME UpToDate PROVE UpToDate'
    BY DEF ReportsInv
  <2>2. ASSUME NEW r \in Together, Asked({r})' PROVE got'[r] = Answer(r)
    <3>1. CASE Asked({r})
      BY <1>1, <2>1, <3>1 DEF UpToDate, Asked
    <3>2. CASE r = q
      BY <1>1, <3>2 DEF Together, Charts
    <3> QED
      BY <1>4, <2>2, <3>1, <3>2
  <2>3. ASSUME NEW r \in Charts, Asked({r})' PROVE got'[r] = Chart(r)'
    <3>1. Asked(Together)
      <4>1. CASE Asked({r})
        BY <4>1 DEF ReportsInv, Rightly, Charts
      <4>2. CASE r = q
        BY <4>2 DEF Together, Charts
      <4> QED
        BY <1>4, <2>3, <4>1, <4>2
    <3>2. Chart(r)' = Chart(r)
      BY <1>5, <3>1
    <3>3. CASE Asked({r})
      BY <1>1, <2>1, <3>2, <3>3 DEF UpToDate, Asked
    <3>4. CASE r = q
      BY <1>1, <3>2, <3>4 DEF Together, Charts
    <3> QED
      BY <1>4, <2>3, <3>3, <3>4
  <2>4. Asked({"groups"})' => got'["groups"] = GroupsNow
    BY <1>1, <1>4, <2>1 DEF UpToDate, Asked, Together, Charts
  <2>5. Asked({"groupsConverted"})' => got'["groupsConverted"] = GroupsConvertedNow
    BY <1>1, <1>4, <2>1 DEF UpToDate, Asked, Together, Charts
  <2> QED
    BY <1>2, <2>2, <2>3, <2>4, <2>5 DEF UpToDate
<1>10. (cdrs \in [Cdr -> CallRow] /\ request \in Request /\ moves \in Nat)'
  BY DEF ReportsInv, Request, Allowed
<1> QED
  BY <1>6, <1>7, <1>8, <1>9, <1>10 DEF ReportsInv

\* Rows are never taken away, and a call came in when it came in.
LEMMA RowsKeep ==
  ASSUME cdrs \in [Cdr -> CallRow], RowsChange
  PROVE  /\ cdrs' \in [Cdr -> CallRow]
         /\ \A c \in Cdr : Written(c) => Written(c)' /\ cdrs'[c].at = cdrs[c].at
<1>1. ASSUME NEW c \in Cdr, NEW r \in CallRow, cdrs' = [cdrs EXCEPT ![c] = r],
             Written(c) => r.status # "none" /\ r.at = cdrs[c].at
      PROVE  /\ cdrs' \in [Cdr -> CallRow]
             /\ \A e \in Cdr : Written(e) => Written(e)' /\ cdrs'[e].at = cdrs[e].at
  BY <1>1 DEF Written
<1>2. PICK c \in Cdr : ComesIn(c) \/ Rings(c) \/ Connects(c) \/ Finishes(c)
  BY DEF RowsChange
<1>3. CASE ComesIn(c)
  <2>1. PICK p \in {"p1", "p2"} : cdrs' = [cdrs EXCEPT ![c] = Fresh(p)]
    BY <1>3 DEF ComesIn
  <2>2. Fresh(p) \in CallRow
    BY RowsAssumption DEF Fresh, CallRow, Unfinished
  <2> QED
    BY <1>1, <1>3, <2>1, <2>2 DEF ComesIn
<1>4. CASE Rings(c)
  <2>1. PICK l \in Line : cdrs' = [cdrs EXCEPT ![c] = [cdrs[c] EXCEPT !.line = l]]
    BY <1>4 DEF Rings
  <2>2. [cdrs[c] EXCEPT !.line = l] \in CallRow
    BY DEF CallRow
  <2>3. [cdrs[c] EXCEPT !.line = l].at = cdrs[c].at /\ [cdrs[c] EXCEPT !.line = l].status = cdrs[c].status
    BY DEF CallRow
  <2> QED
    BY <1>1, <2>1, <2>2, <2>3 DEF Written
<1>5. CASE Connects(c)
  <2> DEFINE r == [cdrs[c] EXCEPT !.status = "IN_PROGRESS"]
  <2>1. cdrs' = [cdrs EXCEPT ![c] = r]
    BY <1>5 DEF Connects
  <2>2. r \in CallRow /\ r.at = cdrs[c].at /\ r.status = "IN_PROGRESS"
    BY DEF CallRow
  <2> QED
    BY <1>1, <2>1, <2>2 DEF Written
<1>6. CASE Finishes(c)
  <2>1. PICK o \in Outcome :
          cdrs' = [cdrs EXCEPT ![c] = [cdrs[c] EXCEPT !.status = "COMPLETED", !.result = o]]
    BY <1>6 DEF Finishes
  <2> DEFINE r == [cdrs[c] EXCEPT !.status = "COMPLETED", !.result = o]
  <2>2. o \in [converted : BOOLEAN, revenue : Nat, payout : Nat, cost : Nat] /\ cdrs[c] \in CallRow
    <3>1. 0 \in Nat /\ 1 \in Nat /\ 2 \in Nat /\ 5 \in Nat
      OBVIOUS
    <3>2. \/ o = [converted |-> TRUE, revenue |-> 5, payout |-> 2, cost |-> 1]
          \/ o = [converted |-> TRUE, revenue |-> 5, payout |-> 0, cost |-> 1]
          \/ o = [converted |-> FALSE, revenue |-> 0, payout |-> 0, cost |-> 1]
      BY DEF Outcome
    <3>3. \A a, b, d \in Nat :
            /\ [converted |-> TRUE, revenue |-> a, payout |-> b, cost |-> d]
                 \in [converted : BOOLEAN, revenue : Nat, payout : Nat, cost : Nat]
            /\ [converted |-> FALSE, revenue |-> a, payout |-> b, cost |-> d]
                 \in [converted : BOOLEAN, revenue : Nat, payout : Nat, cost : Nat]
      OBVIOUS
    <3>4. /\ [converted |-> TRUE, revenue |-> 5, payout |-> 2, cost |-> 1]
               \in [converted : BOOLEAN, revenue : Nat, payout : Nat, cost : Nat]
          /\ [converted |-> TRUE, revenue |-> 5, payout |-> 0, cost |-> 1]
               \in [converted : BOOLEAN, revenue : Nat, payout : Nat, cost : Nat]
          /\ [converted |-> FALSE, revenue |-> 0, payout |-> 0, cost |-> 1]
               \in [converted : BOOLEAN, revenue : Nat, payout : Nat, cost : Nat]
      BY <3>1, <3>3
    <3> QED
      BY <3>2, <3>4, Zenon
  <2>3. r \in CallRow /\ r.at = cdrs[c].at /\ r.status = "COMPLETED"
    BY <2>2 DEF CallRow
  <2> QED
    BY <1>1, <2>1, <2>3 DEF Written
<1> QED
  BY <1>2, <1>3, <1>4, <1>5, <1>6

LEMMA MeanwhileInv == ASSUME ReportsInv, Meanwhile PROVE ReportsInv'
<1>1. UNCHANGED <<request, got>> /\ RowsChange /\ moves' = moves + 1
  BY DEF Meanwhile
<1>2. /\ cdrs' \in [Cdr -> CallRow]
      /\ \A c \in Cdr : Written(c) => Written(c)' /\ cdrs'[c].at = cdrs[c].at
  BY <1>1, RowsKeep DEF ReportsInv
<1>3. Days' = Days
  BY <1>1, SameDays
<1>4. \A Q : Asked(Q)' <=> Asked(Q)
  BY <1>1 DEF Asked
<1>5. Asked({"ids"}) => \A c \in got["ids"] : c \in Cdr /\ Written(c) /\ cdrs'[c].at = cdrs[c].at /\ Written(c)'
  BY <1>2 DEF ReportsInv, InRange
<1>6. InRange'
  BY <1>1, <1>4, <1>5 DEF ReportsInv, InRange
<1>7. ChartsCount'
  <2>1. CASE Asked({"ids"})
    <3>1. \A d : {c \in got["ids"] : DayOf(cdrs'[c].at) = d} = {c \in got["ids"] : DayOf(cdrs[c].at) = d}
      BY <1>5, <2>1
    <3>2. \A h : {c \in got["ids"] : HourOf(cdrs'[c].at) = h} = {c \in got["ids"] : HourOf(cdrs[c].at) = h}
      BY <1>5, <2>1
    <3> QED
      BY <1>1, <1>3, <1>4, <3>1, <3>2 DEF ReportsInv, ChartsCount
  <2>2. CASE ~Asked({"ids"})
    <3>1. ~Asked({"daily"}) /\ ~Asked({"hourly"})
      BY <2>2 DEF ReportsInv, Rightly, Asked, Together
    <3> QED
      BY <1>4, <3>1 DEF ChartsCount
  <2> QED
    BY <2>1, <2>2
<1>8. Rightly' /\ request' \in Request /\ moves' \in Nat /\ moves' # 0
  BY <1>1, <1>4 DEF ReportsInv, Rightly
<1> QED
  BY <1>2, <1>6, <1>7, <1>8 DEF ReportsInv

LEMMA InitReports == cdrs \in [Cdr -> CallRow] /\ request \in Request /\ ReportInit => ReportsInv
BY DEF ReportInit, ReportsInv, Rightly, InRange, ChartsCount, UpToDate, Asked, Together, Charts

LEMMA StepReports == ReportsInv /\ [ReportNext]_<<cdrs, reportVars>> => ReportsInv'
<1> SUFFICES ASSUME ReportsInv, [ReportNext]_<<cdrs, reportVars>> PROVE ReportsInv'
  OBVIOUS
<1>1. ASSUME NEW q \in Together, Ask(q) PROVE ReportsInv'
  BY <1>1, GotInv DEF Ask
<1>2. ASSUME NEW q \in Charts, Draw(q) PROVE ReportsInv'
  BY <1>2, GotInv DEF Draw
<1>3. CASE Group
  <2>1. "groups" \notin DOMAIN got
    BY <1>3 DEF Group, Asked
  <2> QED
    BY <1>3, <2>1, GotInv DEF Group, GroupsNow
<1>4. CASE GroupConverted
  <2>1. "groupsConverted" \notin DOMAIN got
    BY <1>4 DEF GroupConverted, Asked
  <2> QED
    BY <1>4, <2>1, GotInv DEF GroupConverted, GroupsConvertedNow
<1>5. CASE Meanwhile
  BY <1>5, MeanwhileInv
<1>6. CASE UNCHANGED <<cdrs, reportVars>>
  <2>1. UNCHANGED <<cdrs, request, got, moves>>
    BY <1>6 DEF reportVars
  <2>2. Days' = Days /\ \A q : Chart(q)' = Chart(q)
    BY <2>1, SameDays, SameChart
  <2>3. /\ \A q : Answer(q)' = Answer(q)
        /\ GroupsNow' = GroupsNow /\ GroupsConvertedNow' = GroupsConvertedNow
    BY <2>1, SameAnswers
  <2>4. (cdrs \in [Cdr -> CallRow] /\ request \in Request /\ moves \in Nat)' /\ Rightly' /\ InRange'
    BY <2>1 DEF ReportsInv, Rightly, InRange, Asked, Written
  <2>5. ChartsCount'
    BY <2>1, <2>2 DEF ReportsInv, ChartsCount, Asked
  <2>6. moves' = 0 => UpToDate'
    BY <2>1, <2>2, <2>3 DEF ReportsInv, UpToDate, Asked
  <2> QED
    BY <2>4, <2>5, <2>6 DEF ReportsInv
<1> QED
  BY <1>1, <1>2, <1>3, <1>4, <1>5, <1>6 DEF ReportNext

\* By the time the charts are drawn.
LEMMA ChartsDrawn ==
  ASSUME ReportsInv, Asked(Charts)
  PROVE  /\ Asked(Together) /\ Asked({"ids"}) /\ Asked({"first"}) /\ Asked({"totals"})
         /\ Asked({"converted"}) /\ Asked({"daily"}) /\ Asked({"hourly"})
BY DEF ReportsInv, Rightly, Asked, Together, Charts

\* Where the chart by day starts: not after any call of the list.
LEMMA ChartStart ==
  ASSUME ReportsInv, NEW first,
         first = IF got["first"] = {} THEN request.to - ShortSpan ELSE Sets!Min(got["first"])
  PROVE  /\ request.to - request.from <= MaxSpan => ChartFrom = request.from
         /\ ~(request.to - request.from <= MaxSpan) =>
              ChartFrom = IF request.to - first > MaxSpan THEN request.to - MaxSpan ELSE first
<1>1. ChartFrom = CASE request.to - request.from <= MaxSpan -> request.from
        [] request.to - request.from > MaxSpan /\ request.to - first > MaxSpan -> request.to - MaxSpan
        [] OTHER -> first
  BY DEF ChartFrom
<1>2. request.from \in Nat /\ request.to \in Nat /\ MaxSpan \in Nat
  BY ReportsAssumption DEF ReportsInv, Request
<1>3. request.to - request.from > MaxSpan <=> ~(request.to - request.from <= MaxSpan)
  BY <1>2
<1> QED
  BY <1>1, <1>3

LEMMA FirstOfSome ==
  ASSUME ReportsInv, Asked(Charts), NEW c \in got["ids"], ~CutOff
  PROVE  ChartFrom \in Nat /\ ChartFrom <= cdrs[c].at
<1> DEFINE first == got["first"]
<1>1. /\ c \in Cdr /\ request.from <= cdrs[c].at /\ first \subseteq request.from .. request.to
  BY ChartsDrawn DEF ReportsInv, InRange
<1>2. request.from \in Nat /\ request.to \in Nat /\ cdrs[c].at \in Nat
  BY <1>1, RowFields DEF ReportsInv, Request
<1>3. MaxSpan \in Nat
  BY ReportsAssumption
<1>4. CASE request.to - request.from <= MaxSpan
  BY <1>1, <1>2, <1>4, ChartStart
<1>5. CASE ~(request.to - request.from <= MaxSpan)
  <2>1. request.to - request.from > MaxSpan
    BY <1>2, <1>3, <1>5
  <2>2. \A t \in first : t \in Nat /\ ~(request.to - t > MaxSpan)
    BY <1>1, <1>2, <2>1 DEF CutOff
  <2>3. PICK t \in first : ~(cdrs[c].at < t)
    BY <2>1 DEF CutOff
  <2>4. IsFiniteSet(first) /\ first \in SUBSET Int
    <3>1. request.from \in Int /\ request.to \in Int
      BY <1>2
    <3>2. IsFiniteSet(request.from .. request.to)
      BY <3>1, FS_Interval
    <3>3. IsFiniteSet(first)
      BY <1>1, <3>2, FS_Subset
    <3> QED
      BY <2>2, <3>3
  <2>5. \E m \in first : \A x \in first : m <= x
    BY <2>3, <2>4, LeastExists
  <2>6. Sets!Min(first) \in first /\ \A x \in first : Sets!Min(first) <= x
    BY <2>5 DEF Sets!Min
  <2>7. ChartFrom = Sets!Min(first)
    BY <1>5, <2>2, <2>3, <2>6, ChartStart
  <2>8. Sets!Min(first) \in Nat /\ t \in Nat /\ Sets!Min(first) <= t
    BY <2>2, <2>3, <2>6
  <2> QED
    BY <1>2, <2>3, <2>7, <2>8
<1> QED
  BY <1>4, <1>5

\* Every call of the list is of a day and of an hour that is drawn.
LEMMA DaysFinite ==
  ASSUME ReportsInv, Asked(Charts)
  PROVE  IsFiniteSet(Days)
<1> DEFINE T == {u \in ChartFrom .. request.to + Stride : (u - ChartFrom) % Stride = 0}
           f == [t \in T |-> DayOf(Earlier(t, request.to))]
<1>1. request.from \in Nat /\ request.to \in Nat /\ {Stride, MaxSpan, ShortSpan} \subseteq Nat
  BY ReportsAssumption DEF ReportsInv, Request
<1>2. got["first"] \subseteq request.from .. request.to
  BY ChartsDrawn DEF ReportsInv, InRange
<1>3. ChartFrom \in Int
  <2> DEFINE first == IF got["first"] = {} THEN request.to - ShortSpan ELSE Sets!Min(got["first"])
  <2>1. CASE got["first"] = {}
    <3>1. first \in Int
      BY <1>1, <2>1
    <3> HIDE DEF first
    <3> QED
      BY <1>1, <3>1, ChartStart DEF first
  <2>2. CASE got["first"] # {}
    <3>1. request.from \in Int /\ request.to \in Int
      BY <1>1
    <3>2. IsFiniteSet(request.from .. request.to) /\ \A t \in got["first"] : t \in Int
      BY <1>2, <3>1, FS_Interval
    <3>3. IsFiniteSet(got["first"]) /\ got["first"] \in SUBSET Int
      BY <1>2, <3>2, FS_Subset
    <3>4. \E m \in got["first"] : \A x \in got["first"] : m <= x
      BY <2>2, <3>3, LeastExists
    <3>5. Sets!Min(got["first"]) \in got["first"]
      BY <3>4 DEF Sets!Min
    <3>6. first \in Int
      BY <2>2, <3>2, <3>5
    <3> HIDE DEF first
    <3> QED
      BY <1>1, <3>6, ChartStart DEF first
  <2> QED
    BY <2>1, <2>2
<1>4. IsFiniteSet(ChartFrom .. request.to + Stride)
  <2>1. request.to + Stride \in Int
    BY <1>1
  <2> QED
    BY <1>3, <2>1, FS_Interval
<1>5. IsFiniteSet(T)
  BY <1>4, FS_Subset
<1>6. Days = {DayOf(Earlier(t, request.to)) : t \in T}
  BY DEF Days
<1>7. f \in Surjection(T, Days)
  <2> HIDE DEF T
  <2> QED
    BY <1>6 DEF Surjection
<1> HIDE DEF T, f
<1> QED
  BY <1>5, <1>7, FS_Surjection

\* Every call of a report has its day in the chart, and its hour.
LEMMA DayDrawn ==
  ASSUME ReportsInv, Asked(Charts), NEW c \in got["ids"], ~CutOff
  PROVE  DayOf(cdrs[c].at) \in Days
<1>1. c \in Cdr /\ cdrs[c].at <= request.to
  BY ChartsDrawn DEF ReportsInv, InRange
<1>2. cdrs[c].at \in Nat /\ request.to \in Nat
  BY <1>1, RowFields DEF ReportsInv, Request
<1>3. ChartFrom \in Nat /\ ChartFrom <= cdrs[c].at
  BY FirstOfSome
<1>4. \E u \in ChartFrom .. request.to + Stride :
        (u - ChartFrom) % Stride = 0 /\ DayOf(Earlier(u, request.to)) = DayOf(cdrs[c].at)
  BY <1>1, <1>2, <1>3, StridesMeetDays
<1> QED
  BY <1>4 DEF Days

LEMMA HourDrawn ==
  ASSUME ReportsInv, Asked(Charts), NEW c \in got["ids"]
  PROVE  HourOf(cdrs[c].at) \in 0 .. 7
<1> DEFINE t == cdrs[c].at
<1>1. c \in Cdr
  BY ChartsDrawn DEF ReportsInv, InRange
<1>2. t \in Nat
  BY <1>1, RowFields DEF ReportsInv
<1> HIDE DEF t
<1>3. DayOf(t) \in DOMAIN DayStarts /\ DayStarts[DayOf(t)] <= t /\ DayStarts[DayOf(t)] \in Nat
  <2>1. DayOf(t) \in DOMAIN DayStarts /\ DayStarts[DayOf(t)] <= t
    BY <1>2, DayOfTime
  <2>2. \A d \in DOMAIN DayStarts : DayStarts[d] \in Nat
    BY ReportsAssumption
  <2> QED
    BY <2>1, <2>2
<1>4. HourOf(t) \in 0 .. 7
  BY <1>2, <1>3 DEF HourOf
<1> QED
  BY <1>4 DEF t

\* The hours of a day.
LEMMA HoursFinite == IsFiniteSet(0 .. 7)
<1>1. 0 \in Int /\ 7 \in Int
  OBVIOUS
<1> QED
  BY <1>1, FS_Interval

\* A set is counted by its parts.
LEMMA SumOfCounts ==
  ASSUME NEW X, IsFiniteSet(X), NEW D, IsFiniteSet(D), NEW g \in [X -> D]
  PROVE  Sum([d \in D |-> Cardinality({x \in X : g[x] = d})]) = Cardinality(X)
<1> DEFINE n == [d \in D |-> Cardinality({x \in X : g[x] = d})]
<1>1. \A d \in D : n[d] \in Nat
  <2>1. \A d \in D : IsFiniteSet({x \in X : g[x] = d})
    BY FS_Subset
  <2> QED
    BY <2>1, FS_CardinalityType
<1>2. n \in [D -> Nat]
  BY <1>1
<1>3. Cardinality(Coins(n)) = Cardinality(X)
  BY CountedInParts
<1> HIDE DEF n
<1>4. Sum(n) = Cardinality(Coins(n))
  BY <1>2, SumOfGains
<1> QED
  BY <1>3, <1>4 DEF n

\* Whatever happened meanwhile: both charts count the calls of the list.
LEMMA ChartsAgree ==
  ASSUME ReportsInv, Asked(Charts), ~CutOff
  PROVE  Total(got["daily"], "calls") = Total(got["hourly"], "calls")
<1> DEFINE ids == got["ids"]
           day == [c \in ids |-> DayOf(cdrs[c].at)]
           hour == [c \in ids |-> HourOf(cdrs[c].at)]
<1>1. IsFiniteSet(ids)
  BY ChartsDrawn, RowsAssumption, FS_Subset DEF ReportsInv, InRange
<1>2. day \in [ids -> Days] /\ hour \in [ids -> 0 .. 7]
  BY DayDrawn, HourDrawn
<1>3. IsFiniteSet(Days) /\ IsFiniteSet(0 .. 7)
  BY DaysFinite, HoursFinite
<1>4. [d \in DOMAIN got["daily"] |-> got["daily"][d]["calls"]] =
        [d \in Days |-> Cardinality({c \in ids : day[c] = d})]
  <2>1. \A d : {c \in ids : day[c] = d} = {c \in ids : DayOf(cdrs[c].at) = d}
    OBVIOUS
  <2> QED
    BY <2>1, ChartsDrawn DEF ReportsInv, ChartsCount
<1>5. [h \in DOMAIN got["hourly"] |-> got["hourly"][h]["calls"]] =
        [h \in 0 .. 7 |-> Cardinality({c \in ids : hour[c] = h})]
  <2>1. \A h : {c \in ids : hour[c] = h} = {c \in ids : HourOf(cdrs[c].at) = h}
    OBVIOUS
  <2> QED
    BY <2>1, ChartsDrawn DEF ReportsInv, ChartsCount
<1> HIDE DEF ids, day, hour
<1>6. Sum([d \in Days |-> Cardinality({c \in ids : day[c] = d})]) = Cardinality(ids)
  <2>1. day \in [ids -> Days] /\ IsFiniteSet(Days)
    BY <1>2, <1>3
  <2> HIDE DEF Days
  <2> QED
    BY <1>1, <2>1, SumOfCounts
<1>7. Sum([h \in 0 .. 7 |-> Cardinality({c \in ids : hour[c] = h})]) = Cardinality(ids)
  <2> DEFINE H == 0 .. 7
  <2>1. hour \in [ids -> H] /\ IsFiniteSet(H)
    BY <1>2, <1>3
  <2> HIDE DEF H
  <2>2. Sum([h \in H |-> Cardinality({c \in ids : hour[c] = h})]) = Cardinality(ids)
    BY <1>1, <2>1, SumOfCounts
  <2> QED
    BY <2>2 DEF H
<1> QED
  BY <1>4, <1>5, <1>6, <1>7 DEF Total

\* With the filter for those that did not convert, the count is of others.
LEMMA ConvertedFound ==
  ASSUME ReportsInv, request.filter.converted # "false"
  PROVE  FoundConverted = {c \in Found : cdrs[c].result.converted}
<1> DEFINE f == request.filter
           g == [f EXCEPT !.converted = "true"]
<1>1. f \in Filter
  BY DEF ReportsInv, Request
<1>2. /\ f.converted \in {"any", "true"} /\ g.converted = "true"
      /\ g.publisher = f.publisher /\ g.buyer = f.buyer /\ g.target = f.target
  BY <1>1 DEF Filter
<1>3. \A c \in Cdr : cdrs[c].result.converted \in BOOLEAN
  BY RowFields DEF ReportsInv
<1> HIDE DEF g
<1>4. ASSUME NEW c \in Cdr
      PROVE  FilterWhere(request.user, g, cdrs[c]) <=>
               FilterWhere(request.user, f, cdrs[c]) /\ cdrs[c].result.converted
  BY <1>2, <1>3 DEF FilterWhere, Wanted
<1>5. FoundConverted = Listed(request.user, g, request.from, request.to)
  BY DEF FoundConverted, g
<1> HIDE DEF f
<1>6. Found = Listed(request.user, f, request.from, request.to)
  BY DEF Found, f
<1> QED
  BY <1>4, <1>5, <1>6 DEF Listed

\* When no row changed, the totals are of the calls found.
LEMMA TotalsAre ==
  ASSUME ReportsInv, Asked(Charts), moves = 0, request.filter.converted # "false"
  PROVE  Totals = Hide(Role, Bucket(Found))
<1>1. got["totals"] = Bucket(Found) /\ got["converted"] = Cardinality(FoundConverted)
  BY ChartsDrawn DEF ReportsInv, UpToDate, Together, Answer
<1>2. got["converted"] = Bucket(Found).converted
  BY <1>1, ConvertedFound, BucketOf
<1>3. Hide(Role, Bucket(Found))["converted"] = Bucket(Found).converted
  BY DEF Hide
<1>4. Hide(Role, Bucket(Found)) = [k \in DOMAIN Hide(Role, Bucket(Found)) |-> Hide(Role, Bucket(Found))[k]]
  BY DEF Hide
<1> QED
  BY <1>1, <1>2, <1>3, <1>4 DEF Totals

\* What is drawn or broken down of the calls found, each in one part, adds up.
LEMMA PartsShown ==
  ASSUME ReportsInv, Asked(Charts), moves = 0, request.filter.converted # "false",
         NEW D, IsFiniteSet(D), NEW g \in [Found -> D], NEW part,
         part = [d \in D |-> Hide(Role, Bucket({c \in Found : g[c] = d}))]
  PROVE  AddsUp(part)
<1>1. Found \in SUBSET Cdr
  BY DEF Found, Listed
<1>2. \A k \in DOMAIN Hide(Role, Bucket(Found)) :
        Sum([d \in D |-> Hide(Role, Bucket({c \in Found : g[c] = d}))[k]]) = Hide(Role, Bucket(Found))[k]
  BY <1>1, HiddenAddUp DEF ReportsInv
<1>3. \A k : [d \in DOMAIN part |-> part[d][k]] =
               [d \in D |-> Hide(Role, Bucket({c \in Found : g[c] = d}))[k]]
  OBVIOUS
<1> QED
  BY <1>2, <1>3, TotalsAre DEF AddsUp, Total

\* So are the charts and the breakdown.
LEMMA DaysAddUp ==
  ASSUME ReportsInv, Asked(Charts), moves = 0, request.filter.converted # "false", ~CutOff
  PROVE  AddsUp(Drawn("daily"))
<1> DEFINE day == [c \in Found |-> DayOf(cdrs[c].at)]
<1>1. got["ids"] = Found /\ got["daily"] = Chart("daily")
  BY ChartsDrawn DEF ReportsInv, UpToDate, Together, Charts, Answer
<1>2. day \in [Found -> Days]
  BY <1>1, DayDrawn
<1>3. \A d : {c \in Found : day[c] = d} = {c \in Found : DayOf(cdrs[c].at) = d}
  OBVIOUS
<1>4. got["daily"] = [d \in Days |-> Bucket({c \in Found : DayOf(cdrs[c].at) = d})]
  BY <1>1 DEF Chart
<1>5. Drawn("daily") = [d \in Days |-> Hide(Role, Bucket({c \in Found : day[c] = d}))]
  BY <1>3, <1>4 DEF Drawn
<1> HIDE DEF day
<1> QED
  BY <1>2, <1>5, DaysFinite, PartsShown

LEMMA HoursAddUp ==
  ASSUME ReportsInv, Asked(Charts), moves = 0, request.filter.converted # "false"
  PROVE  AddsUp(Drawn("hourly"))
<1> DEFINE hour == [c \in Found |-> HourOf(cdrs[c].at)]
<1>1. got["ids"] = Found /\ got["hourly"] = Chart("hourly")
  BY ChartsDrawn DEF ReportsInv, UpToDate, Together, Charts, Answer
<1>2. hour \in [Found -> 0 .. 7]
  BY <1>1, HourDrawn
<1>3. \A h : {c \in Found : hour[c] = h} = {c \in Found : HourOf(cdrs[c].at) = h}
  OBVIOUS
<1> DEFINE H == 0 .. 7
<1>4. got["hourly"] = [h \in H |-> Bucket({c \in Found : HourOf(cdrs[c].at) = h})]
  BY <1>1 DEF Chart
<1>5. hour \in [Found -> H] /\ IsFiniteSet(H)
  BY <1>2, HoursFinite
<1> HIDE DEF H
<1>6. Drawn("hourly") = [h \in H |-> Hide(Role, Bucket({c \in Found : hour[c] = h}))]
  BY <1>3, <1>4 DEF Drawn
<1> HIDE DEF hour
<1> QED
  BY <1>5, <1>6, PartsShown

LEMMA GroupsAddUp ==
  ASSUME ReportsInv, Asked(Charts), Asked({"groups", "groupsConverted"}), moves = 0,
         request.filter.converted # "false"
  PROVE  AddsUp(Breakdown)
<1> DEFINE D == {GroupOf(c) : c \in Found}
           group == [c \in Found |-> GroupOf(c)]
           part(d) == {c \in Found : GroupOf(c) = d}
<1>1. got["groups"] = GroupsNow /\ got["groupsConverted"] = GroupsConvertedNow
  BY DEF ReportsInv, UpToDate, Asked
<1>2. group \in [Found -> D] /\ group \in Surjection(Found, D)
  BY DEF Surjection
<1>3. IsFiniteSet(Found)
  BY RowsAssumption, FS_Subset DEF Found, Listed
<1>4. IsFiniteSet(D)
  <2> HIDE DEF group, D
  <2> QED
    BY <1>2, <1>3, FS_Surjection
<1>5. \A d : {c \in Found : group[c] = d} = part(d)
  OBVIOUS
<1>6. FoundConverted = {c \in Found : cdrs[c].result.converted}
  BY ConvertedFound
<1>7. ASSUME NEW d \in D PROVE ConvertedIn(d) = Bucket(part(d)).converted
  <2>1. {c \in part(d) : cdrs[c].result.converted} = {c \in FoundConverted : GroupOf(c) = d}
    BY <1>6
  <2>2. Bucket(part(d)).converted = Cardinality({c \in FoundConverted : GroupOf(c) = d})
    BY <2>1, BucketOf
  <2>3. CASE d \in {GroupOf(c) : c \in FoundConverted}
    BY <1>1, <2>2, <2>3 DEF ConvertedIn, GroupsConvertedNow
  <2>4. CASE d \notin {GroupOf(c) : c \in FoundConverted}
    <3>1. {c \in FoundConverted : GroupOf(c) = d} = {}
      BY <2>4
    <3> QED
      BY <1>1, <2>2, <2>4, <3>1, FS_EmptySet DEF ConvertedIn, GroupsConvertedNow
  <2> QED
    BY <2>3, <2>4
<1>8. ASSUME NEW d \in D
      PROVE  [Hide(Role, Bucket(part(d))) EXCEPT !["converted"] = ConvertedIn(d)] = Hide(Role, Bucket(part(d)))
  <2>1. Hide(Role, Bucket(part(d)))["converted"] = ConvertedIn(d)
    BY <1>7 DEF Hide
  <2>2. Hide(Role, Bucket(part(d))) =
          [k \in DOMAIN Hide(Role, Bucket(part(d))) |-> Hide(Role, Bucket(part(d)))[k]]
    BY DEF Hide
  <2> QED
    BY <2>1, <2>2
<1>9. Breakdown = [d \in D |-> Hide(Role, Bucket({c \in Found : group[c] = d}))]
  <2>1. DOMAIN got["groups"] = D /\ \A d \in D : got["groups"][d] = Bucket(part(d))
    BY <1>1 DEF GroupsNow
  <2>2. Breakdown = [d \in D |-> [Hide(Role, Bucket(part(d))) EXCEPT !["converted"] = ConvertedIn(d)]]
    BY <2>1 DEF Breakdown
  <2> HIDE DEF D
  <2> QED
    BY <1>5, <1>8, <2>2
<1> HIDE DEF D, group
<1> QED
  BY <1>2, <1>4, <1>9, PartsShown

\* And the money is that of the list and the export.
LEMMA MoneyShown ==
  ASSUME ReportsInv, Asked(Charts), moves = 0, request.filter.converted # "false"
  PROVE  /\ Totals["calls"] = Cardinality(Found)
         /\ DOMAIN Totals \ {"calls", "converted"} = Presented(Role)
         /\ Presented(Role) = Columns(Role)
         /\ \A k \in Presented(Role) :
              Totals[k] = Sum([c \in Found |-> Present(request.user, cdrs[c]).money[k]])
<1> DEFINE of(k) == [c \in Found |-> cdrs[c].result[k]]
<1>1. Role \in {"TENANT_ADMIN", "MANAGER", "PUBLISHER", "BUYER"}
  BY DEF ReportsInv, Request, Allowed, Staff, Role
<1>2. /\ DOMAIN Hide(Role, Bucket(Found)) \ {"calls", "converted"} = Presented(Role)
      /\ Presented(Role) = Columns(Role) /\ Presented(Role) \subseteq {"revenue", "payout", "cost", "profit"}
  BY <1>1 DEF Hide, Presented, Columns, Staff
<1>3. /\ Hide(Role, Bucket(Found))["calls"] = Bucket(Found).calls
      /\ \A k \in Presented(Role) :
           Hide(Role, Bucket(Found))[k] = IF k = "profit"
                                          THEN Bucket(Found).revenue - Bucket(Found).payout - Bucket(Found).cost
                                          ELSE Bucket(Found)[k]
  BY <1>2 DEF Hide
<1>4. Found \subseteq Cdr /\ IsFiniteSet(Found)
  BY RowsAssumption, FS_Subset DEF Found, Listed
<1>5. ASSUME NEW k \in Presented(Role)
      PROVE  [c \in Found |-> Present(request.user, cdrs[c]).money[k]] = [c \in Found |-> Money(cdrs[c], k)]
  BY <1>5 DEF Present, Role
<1>6. ASSUME NEW k \in Presented(Role)
      PROVE  Hide(Role, Bucket(Found))[k] = Sum([c \in Found |-> Money(cdrs[c], k)])
  <2>1. CASE k = "profit"
    <3>1. of("revenue") \in [Found -> Nat] /\ of("payout") \in [Found -> Nat] /\ of("cost") \in [Found -> Nat]
      BY <1>4, RowFields DEF ReportsInv
    <3>2. [c \in Found |-> Money(cdrs[c], k)] =
            [c \in Found |-> of("revenue")[c] - of("payout")[c] - of("cost")[c]]
      BY <2>1 DEF Money
    <3>3. /\ Bucket(Found).revenue = Sum(of("revenue")) /\ Bucket(Found).payout = Sum(of("payout"))
          /\ Bucket(Found).cost = Sum(of("cost"))
      BY BucketOf
    <3> HIDE DEF of
    <3>4. Sum([c \in Found |-> of("revenue")[c] - of("payout")[c] - of("cost")[c]]) =
            Sum(of("revenue")) - Sum(of("payout")) - Sum(of("cost"))
      BY <1>4, <3>1, SumOfProfits
    <3> QED
      BY <1>3, <2>1, <3>2, <3>3, <3>4
  <2>2. CASE k # "profit"
    <3>1. k \in {"revenue", "payout", "cost"}
      BY <1>2, <2>2
    <3>2. [c \in Found |-> Money(cdrs[c], k)] = of(k)
      BY <2>2 DEF Money
    <3>3. Bucket(Found)[k] = Sum(of(k))
      BY <3>1, BucketOf
    <3> QED
      BY <1>3, <2>2, <3>2, <3>3
  <2> QED
    BY <2>1, <2>2
<1> QED
  BY <1>2, <1>3, <1>5, <1>6, TotalsAre, BucketOf

(* What a report says adds up (reports.controller.ts:41), for any calls,    *)
(* any days and any request, however rows change while it is built: the     *)
(* charts by day and by hour count the same calls, and when no row changes, *)
(* totals, days, hours, breakdown, list and export agree in calls and in    *)
(* money.                                                                   *)
THEOREM ReportsAreRight == ReportsSpec => []ReportsAddUp
<1>1. ReportsInv => ReportsAddUp
  <2>1. SUFFICES ASSUME ReportsInv, Asked({"groupsConverted"}) PROVE ReportsAddUp
    BY DEF ReportsAddUp
  <2>2. Asked(Charts) /\ Asked({"groups", "groupsConverted"})
    BY <2>1 DEF ReportsInv, Rightly, Asked
  <2> QED
    BY <2>1, <2>2, ChartsAgree, DaysAddUp, HoursAddUp, GroupsAddUp, MoneyShown DEF ReportsAddUp
<1>2. ReportsSpec => []ReportsInv
  BY InitReports, StepReports, PTL DEF ReportsSpec
<1> QED
  BY <1>1, <1>2, PTL

\* The calls and requests that Charges starts from are of those that are proved about.
LEMMA CallsGiven ==
  ASSUME SomethingAsked \/ NothingAsked
  PROVE  cdrs \in [Cdr -> CallRow] /\ request \in Request
<1>1. Absent \in CallRow /\ \A p \in {"p1", "p2"} : Fresh(p) \in CallRow
  <2>1. Now \in Nat
    BY RowsAssumption
  <2> QED
    BY <2>1 DEF Absent, Fresh, CallRow, Unfinished
<1>2. ASSUME NEW p \in {"p1", "p2"}, NEW l \in Line \cup {Nobody}, NEW t \in Nat, NEW r \in Outcome
      PROVE  Past(p, l, t, r) \in CallRow
  <2>1. r \in [converted : BOOLEAN, revenue : Nat, payout : Nat, cost : Nat]
    <3>1. \/ r = [converted |-> TRUE, revenue |-> 5, payout |-> 2, cost |-> 1]
          \/ r = [converted |-> TRUE, revenue |-> 5, payout |-> 0, cost |-> 1]
          \/ r = [converted |-> FALSE, revenue |-> 0, payout |-> 0, cost |-> 1]
      BY DEF Outcome
    <3>2. CASE r = [converted |-> TRUE, revenue |-> 5, payout |-> 2, cost |-> 1]
      BY <3>2
    <3>3. CASE r = [converted |-> TRUE, revenue |-> 5, payout |-> 0, cost |-> 1]
      BY <3>3
    <3>4. CASE r = [converted |-> FALSE, revenue |-> 0, payout |-> 0, cost |-> 1]
      BY <3>4
    <3> QED
      BY <3>1, <3>2, <3>3, <3>4
  <2> QED
    BY <2>1 DEF Past, CallRow
<1>3. Bought \in Line \cup {Nobody} /\ ByAgent \in Line \cup {Nobody} /\ Sale \in Outcome
  BY DEF Bought, ByAgent, Line, Sale, Outcome
<1>4. ASSUME NEW S \in SUBSET CallRow, NEW T \in SUBSET CallRow, FirstOf(S, T)
      PROVE  cdrs \in [Cdr -> CallRow]
  BY <1>4 DEF FirstOf
<1>5. ASSUME NEW U \in SUBSET User, NEW F \in SUBSET Filter, NEW S \in SUBSET Nat, NEW E \in SUBSET Nat,
             NEW B \in SUBSET {"publisher", "buyer"}, request \in Asks(U, F, S, E, B)
      PROVE  request \in [user : User, filter : Filter, from : Nat, to : Nat, by : {"publisher", "buyer"}]
  BY <1>5 DEF Asks
<1>6. Manager \in User /\ Readers \in SUBSET User
  BY DEF Manager, Readers, User, Staff
<1>7. AnyCall \in Filter /\ Filters \in SUBSET Filter
  BY DEF AnyCall, Filters, Filter
<1>8. CASE NothingAsked
  <2>1. cdrs \in [Cdr -> CallRow]
    BY <1>1, <1>8 DEF NothingAsked
  <2>2. /\ request \in [user : User, filter : Filter, from : Nat, to : Nat, by : {"publisher", "buyer"}]
        /\ request.from = 0 /\ request.to = 0 /\ request.user = Manager
    <3>1. request \in Asks({Manager}, {AnyCall}, {0}, {0}, {"publisher"})
      BY <1>8 DEF NothingAsked
    <3>2. {Manager} \in SUBSET User /\ {AnyCall} \in SUBSET Filter /\ {0} \in SUBSET Nat
          /\ {"publisher"} \in SUBSET {"publisher", "buyer"}
      BY <1>6, <1>7
    <3>3. request \in [user : User, filter : Filter, from : Nat, to : Nat, by : {"publisher", "buyer"}]
      BY <1>5, <3>1, <3>2
    <3> QED
      BY <3>1, <3>3 DEF Asks
  <2> QED
    BY <2>1, <2>2 DEF Request, Allowed, Manager, Staff
<1>9. CASE SomethingAsked
  <2>1. SUFFICES /\ cdrs \in [Cdr -> CallRow]
                 /\ request \in [user : User, filter : Filter, from : Nat, to : Nat, by : {"publisher", "buyer"}]
    BY <1>9 DEF SomethingAsked, Request
  <2>2. CASE TimesAsked
    <3>1. \A T \in SUBSET Nat : CallsAt(T) \in SUBSET CallRow
      BY <1>2, <1>3 DEF CallsAt
    <3>2. {0, 2, 7, 8, 13, 14, 15, 23, 24} \in SUBSET Nat /\ {0, 7, 13} \in SUBSET Nat
      OBVIOUS
    <3>3. cdrs \in [Cdr -> CallRow]
      BY <1>4, <2>2, <3>1, <3>2 DEF TimesAsked
    <3>4. /\ {Manager} \in SUBSET User /\ {AnyCall} \in SUBSET Filter
          /\ {0, 1, 5, 8, 14} \in SUBSET Nat /\ {6, 15, 20, 25} \in SUBSET Nat
          /\ {"publisher"} \in SUBSET {"publisher", "buyer"}
      BY <1>6, <1>7
    <3>5. request \in Asks({Manager}, {AnyCall}, {0, 1, 5, 8, 14}, {6, 15, 20, 25}, {"publisher"})
      BY <2>2 DEF TimesAsked
    <3> QED
      BY <1>5, <3>3, <3>4, <3>5
  <2>3. CASE MoneyAsked
    <3>1. {Past(p, l, 3, r) : p \in {"p1", "p2"}, l \in {Bought, ByAgent, Nobody}, r \in Outcome}
            \in SUBSET CallRow
      <4>1. \A p \in {"p1", "p2"} : \A l \in {Bought, ByAgent, Nobody} : \A r \in Outcome :
              Past(p, l, 3, r) \in CallRow
        <5>1. {Bought, ByAgent, Nobody} \subseteq Line \cup {Nobody} /\ 3 \in Nat
          BY <1>3
        <5> QED
          BY <1>2, <5>1
      <4> QED
        BY <4>1
    <3>2. {Past("p1", Bought, 3, Sale), Past("p2", ByAgent, 3, Sale)} \in SUBSET CallRow
      BY <1>2, <1>3
    <3>3. cdrs \in [Cdr -> CallRow]
      BY <1>4, <2>3, <3>1, <3>2 DEF MoneyAsked
    <3>4. {0} \in SUBSET Nat /\ {9} \in SUBSET Nat
      OBVIOUS
    <3>5. request \in Asks(Readers, Filters, {0}, {9}, {"publisher", "buyer"})
      BY <2>3 DEF MoneyAsked
    <3> QED
      BY <1>5, <1>6, <1>7, <3>3, <3>4, <3>5
  <2>4. CASE BusyAsked
    <3>1. [Fresh("p2") EXCEPT !.line = Bought, !.status = "IN_PROGRESS"] \in CallRow
      BY <1>1, <1>3 DEF CallRow
    <3>2. {Absent, Past("p1", Bought, 2, Sale), Fresh("p1"),
           [Fresh("p2") EXCEPT !.line = Bought, !.status = "IN_PROGRESS"]} \in SUBSET CallRow
      BY <1>1, <1>2, <1>3, <3>1
    <3>3. cdrs \in [Cdr -> CallRow]
      BY <2>4, <3>2 DEF BusyAsked
    <3>4. {0} \in SUBSET Nat /\ {9} \in SUBSET Nat /\ {AnyCall} \in SUBSET Filter
      BY <1>7
    <3>5. request \in Asks(Readers, {AnyCall}, {0}, {9}, {"publisher", "buyer"})
      BY <2>4 DEF BusyAsked
    <3> QED
      BY <1>5, <1>6, <3>3, <3>4, <3>5
  <2>5. CASE LateAsked
    <3>1. [Fresh("p1") EXCEPT !.at = 2] \in CallRow
      BY <1>1 DEF CallRow
    <3>2. {[Fresh("p1") EXCEPT !.at = 2]} \in SUBSET CallRow
          /\ {Absent, Past("p1", Bought, 8, Sale)} \in SUBSET CallRow
      BY <1>1, <1>2, <1>3, <3>1
    <3>3. cdrs \in [Cdr -> CallRow]
      BY <1>4, <2>5, <3>2 DEF LateAsked
    <3>4. {0} \in SUBSET Nat /\ {20} \in SUBSET Nat /\ {AnyCall} \in SUBSET Filter
          /\ {"buyer"} \in SUBSET {"publisher", "buyer"}
      BY <1>7
    <3>5. request \in Asks(Readers, {AnyCall}, {0}, {20}, {"buyer"})
      BY <2>5 DEF LateAsked
    <3> QED
      BY <1>5, <1>6, <3>3, <3>4, <3>5
  <2> QED
    BY <1>9, <2>2, <2>3, <2>4, <2>5 DEF SomethingAsked
<1> QED
  BY <1>8, <1>9

-----------------------------------------------------------------------------
(***************************************************************************)
(* A publisher is not given up early.                                      *)
(*                                                                         *)
(* Every try that a job loses is an attempt of the row, and others may add *)
(* more.  A job that is carried is active, and only one deliverer took it. *)
(***************************************************************************)
\* The states of a job, and its record.
JobStates == {"none", "waiting", "active", "completed", "failed"}
JobRecord == [state : JobStates, left : Int, stalled : Nat]

\* The values of the row, the jobs and the deliverers.
PostbacksTyped ==
  /\ postback \in [there : BOOLEAN, attempts : Nat, succeeded : BOOLEAN]
  /\ job \in [Job -> JobRecord]
  /\ carries \in [Deliverer -> [at : {"idle", "fetch", "update"}, job : Job, ok : BOOLEAN]]

\* A deliverer with nothing to do.
EmptyHanded(d) == carries[d].at = "idle"

\* One deliverer to a job that is active.
CarriedOnce ==
  /\ \A d \in Deliverer : EmptyHanded(d) => carries[d] = Unladen
  /\ \A d \in Deliverer : ~EmptyHanded(d) => job[carries[d].job].state = "active"
  /\ \A d, e \in Deliverer : ~EmptyHanded(d) /\ ~EmptyHanded(e) /\ carries[d].job = carries[e].job => d = e

\* No try is lost without an attempt, and a job with tries left fails when it has stalled out.
TriesAreAttempts ==
  /\ job[0].state # "none" => postback.attempts + job[0].left >= MaxTries
  /\ job[0].state = "failed" => job[0].left <= 0 \/ StalledOut

\* The invariant.
PostbacksInv == PostbacksTyped /\ CarriedOnce /\ TriesAreAttempts

\* What a step may do to the job of the call.
DoneWhenHeard == job[0].state # "completed" /\ job'[0].state = "completed" => postback'.succeeded

\* The job of the call.
LEMMA CallsJob == 0 \in Job
  BY PostbacksAssumption DEF Job

\* At first there is no job.
LEMMA PostbacksStart == PostbacksInit => PostbacksInv
  BY CallsJob DEF PostbacksInit, PostbacksInv, PostbacksTyped, CarriedOnce, TriesAreAttempts, StalledOut, EmptyHanded,
     JobRecord, JobStates, NoJob, Unladen, StalledOut

\* The row is created.
LEMMA CreateRowKeeps ==
  ASSUME PostbacksInv, CreateRow
  PROVE  PostbacksInv' /\ DoneWhenHeard
<1>1. postback' = [postback EXCEPT !.there = TRUE] /\ UNCHANGED <<job, carries>>
  BY DEF CreateRow
<1>2. /\ postback' \in [there : BOOLEAN, attempts : Nat, succeeded : BOOLEAN]
      /\ postback'.attempts = postback.attempts
  BY <1>1 DEF PostbacksInv, PostbacksTyped
<1> QED
  BY <1>1, <1>2 DEF PostbacksInv, PostbacksTyped, CarriedOnce, TriesAreAttempts, StalledOut, EmptyHanded, DoneWhenHeard

\* A job that waits, or has not been there, gets other values.
LEMMA JobWaits ==
  ASSUME PostbacksInv, NEW j \in Job, job[j].state = "none",
         NEW n \in Nat, j = 0 => n = MaxTries,
         job' = [job EXCEPT ![j] = [state |-> "waiting", left |-> n, stalled |-> 0]],
         UNCHANGED <<postback, carries>>
  PROVE  PostbacksInv' /\ DoneWhenHeard
<1>1. PostbacksTyped'
  BY DEF PostbacksInv, PostbacksTyped, JobRecord, JobStates
<1>2. CarriedOnce'
  BY DEF PostbacksInv, PostbacksTyped, CarriedOnce, EmptyHanded
<1>3. /\ j = 0 => job'[0] = [state |-> "waiting", left |-> MaxTries, stalled |-> 0]
      /\ j # 0 => job'[0] = job[0]
  BY CallsJob DEF PostbacksInv, PostbacksTyped
<1>4. TriesAreAttempts' /\ DoneWhenHeard
  BY <1>3, PostbacksAssumption DEF PostbacksInv, PostbacksTyped, TriesAreAttempts, StalledOut, DoneWhenHeard
<1> QED
  BY <1>1, <1>2, <1>4 DEF PostbacksInv

\* A job is taken up, or found done.
LEMMA TakeJobKeeps ==
  ASSUME PostbacksInv, NEW d \in Deliverer, NEW j \in Job, TakeJob(d, j)
  PROVE  PostbacksInv' /\ DoneWhenHeard
<1>1. EmptyHanded(d) /\ job[j].state = "waiting" /\ UNCHANGED postback
  BY DEF TakeJob, EmptyHanded, Unladen
<1>2. CASE postback.succeeded
  <2>1. job' = [job EXCEPT ![j].state = "completed"] /\ UNCHANGED carries
    BY <1>2 DEF TakeJob
  <2>2. /\ job' \in [Job -> JobRecord]
        /\ \A k \in Job : job'[k].left = job[k].left /\ job'[k].stalled = job[k].stalled
        /\ \A k \in Job : k # j => job'[k] = job[k]
        /\ job'[j].state = "completed"
    BY <2>1 DEF PostbacksInv, PostbacksTyped, JobRecord, JobStates
  <2>3. PostbacksTyped'
    BY <1>1, <2>1, <2>2 DEF PostbacksInv, PostbacksTyped
  <2>4. CarriedOnce'
    BY <1>1, <2>1, <2>2 DEF PostbacksInv, PostbacksTyped, CarriedOnce, EmptyHanded
  <2>5. TriesAreAttempts' /\ DoneWhenHeard
    BY <1>1, <1>2, <2>2, CallsJob DEF PostbacksInv, PostbacksTyped, TriesAreAttempts, StalledOut, DoneWhenHeard
  <2> QED
    BY <2>3, <2>4, <2>5 DEF PostbacksInv
<1>3. CASE ~postback.succeeded
  <2>1. /\ job' = [job EXCEPT ![j].state = "active"]
        /\ carries' = [carries EXCEPT ![d] = [at |-> "fetch", job |-> j, ok |-> FALSE]]
    BY <1>3 DEF TakeJob
  <2>2. /\ job' \in [Job -> JobRecord]
        /\ \A k \in Job : job'[k].left = job[k].left /\ job'[k].stalled = job[k].stalled
        /\ \A k \in Job : k # j => job'[k] = job[k]
        /\ job'[j].state = "active"
    BY <2>1 DEF PostbacksInv, PostbacksTyped, JobRecord, JobStates
  <2>3. /\ carries' \in [Deliverer -> [at : {"idle", "fetch", "update"}, job : Job, ok : BOOLEAN]]
        /\ carries'[d].job = j /\ carries'[d].at = "fetch"
        /\ \A e \in Deliverer : e # d => carries'[e] = carries[e]
    BY <2>1 DEF PostbacksInv, PostbacksTyped
  <2>4. PostbacksTyped'
    BY <1>1, <2>2, <2>3 DEF PostbacksInv, PostbacksTyped
  <2>5. \A e \in Deliverer : e # d /\ ~EmptyHanded(e) => carries[e].job # j /\ carries[e].job \in Job
    BY <1>1 DEF PostbacksInv, PostbacksTyped, CarriedOnce
  <2>6. CarriedOnce'
    <3>1. \A e \in Deliverer : e # d => (EmptyHanded(e)' <=> EmptyHanded(e))
      BY <2>3 DEF EmptyHanded
    <3>2. ~EmptyHanded(d)'
      BY <2>3 DEF EmptyHanded
    <3>3. \A e \in Deliverer : EmptyHanded(e)' => carries'[e] = Unladen
      BY <2>3, <3>1, <3>2 DEF PostbacksInv, CarriedOnce
    <3>4. \A e \in Deliverer : ~EmptyHanded(e)' => job'[carries'[e].job].state = "active"
      BY <2>2, <2>3, <2>5, <3>1 DEF PostbacksInv, CarriedOnce
    <3>5. \A e, f \in Deliverer : ~EmptyHanded(e)' /\ ~EmptyHanded(f)' /\ carries'[e].job = carries'[f].job => e = f
      BY <2>3, <2>5, <3>1 DEF PostbacksInv, CarriedOnce
    <3> QED
      BY <3>3, <3>4, <3>5 DEF CarriedOnce
  <2>7. TriesAreAttempts' /\ DoneWhenHeard
    BY <1>1, <2>2, CallsJob DEF PostbacksInv, PostbacksTyped, TriesAreAttempts, StalledOut, DoneWhenHeard
  <2> QED
    BY <2>4, <2>6, <2>7 DEF PostbacksInv
<1> QED
  BY <1>2, <1>3

\* The publisher is called.
LEMMA CallPublisherKeeps ==
  ASSUME PostbacksInv, NEW d \in Deliverer, CallPublisher(d)
  PROVE  PostbacksInv' /\ DoneWhenHeard
<1>1. PICK ok \in BOOLEAN :
        carries' = [carries EXCEPT ![d] = [at |-> "update", job |-> carries[d].job, ok |-> ok]]
  BY DEF CallPublisher
<1>2. carries[d].at = "fetch" /\ UNCHANGED <<postback, job>>
  BY DEF CallPublisher
<1>3. /\ carries' \in [Deliverer -> [at : {"idle", "fetch", "update"}, job : Job, ok : BOOLEAN]]
      /\ carries'[d].job = carries[d].job /\ carries'[d].at = "update"
      /\ \A e \in Deliverer : e # d => carries'[e] = carries[e]
  BY <1>1 DEF PostbacksInv, PostbacksTyped
<1>4. CarriedOnce'
  <2>1. \A e \in Deliverer : carries'[e].job = carries[e].job /\ (EmptyHanded(e)' <=> EmptyHanded(e))
    BY <1>2, <1>3 DEF EmptyHanded
  <2>2. \A e \in Deliverer : EmptyHanded(e)' => carries'[e] = Unladen
    BY <1>3, <2>1 DEF PostbacksInv, CarriedOnce, EmptyHanded
  <2> QED
    BY <1>2, <2>1, <2>2 DEF PostbacksInv, CarriedOnce
<1> QED
  BY <1>2, <1>3, <1>4 DEF PostbacksInv, PostbacksTyped, TriesAreAttempts, StalledOut, DoneWhenHeard

\* A deliverer lays a job down.
LEMMA LaidDown ==
  ASSUME PostbacksInv, NEW d \in Deliverer, ~EmptyHanded(d), CarriedOnce,
         \A k \in Job : k # carries[d].job => job'[k] = job[k],
         carries'[d] = Unladen,
         \A e \in Deliverer : e # d => carries'[e] = carries[e]
  PROVE  CarriedOnce'
<1>1. \A e \in Deliverer : carries[e].job \in Job
  BY DEF PostbacksInv, PostbacksTyped
<1>2. \A e \in Deliverer : EmptyHanded(e)' => carries'[e] = Unladen
  BY DEF EmptyHanded, CarriedOnce
<1>3. \A e \in Deliverer : ~EmptyHanded(e)' => e # d /\ ~EmptyHanded(e) /\ carries'[e] = carries[e]
  BY DEF EmptyHanded, Unladen
<1>4. \A e \in Deliverer : ~EmptyHanded(e)' => job'[carries'[e].job].state = "active"
  <2> SUFFICES ASSUME NEW e \in Deliverer, ~EmptyHanded(e)'  PROVE job'[carries'[e].job].state = "active"
    OBVIOUS
  <2>1. e # d /\ ~EmptyHanded(e) /\ carries'[e] = carries[e]
    BY <1>3
  <2>2. carries[e].job # carries[d].job /\ job[carries[e].job].state = "active"
    BY <2>1 DEF CarriedOnce
  <2>3. job'[carries[e].job] = job[carries[e].job]
    BY <1>1, <2>2
  <2> QED
    BY <2>1, <2>2, <2>3
<1>5. \A e, f \in Deliverer : ~EmptyHanded(e)' /\ ~EmptyHanded(f)' /\ carries'[e].job = carries'[f].job => e = f
  BY <1>3 DEF CarriedOnce
<1> QED
  BY <1>2, <1>4, <1>5 DEF CarriedOnce

\* The row and the job are updated.
LEMMA UpdateKeeps ==
  ASSUME PostbacksInv, NEW d \in Deliverer, Update(d)
  PROVE  PostbacksInv' /\ DoneWhenHeard
<1> DEFINE j == carries[d].job
           was == job[j]
           ok == carries[d].ok
           state == CASE ok -> "completed" [] ~ok /\ was.left > 1 -> "waiting" [] OTHER -> "failed"
<1>1. j \in Job /\ ok \in BOOLEAN /\ ~EmptyHanded(d) /\ was.left \in Int /\ was.stalled \in Nat
  BY DEF PostbacksInv, PostbacksTyped, JobRecord, Update, EmptyHanded
<1>2. /\ postback' = [postback EXCEPT !.attempts = @ + 1, !.succeeded = ok]
      /\ job' = [job EXCEPT ![j] = [state |-> state, left |-> was.left - 1, stalled |-> was.stalled]]
      /\ carries' = [carries EXCEPT ![d] = Unladen]
  BY DEF Update, Recorded
<1>3. /\ state \in {"completed", "waiting", "failed"}
      /\ state = "completed" => ok
      /\ state = "failed" => was.left - 1 <= 0
  BY <1>1
<1> HIDE DEF j, was, ok, state
<1>4. /\ postback' \in [there : BOOLEAN, attempts : Nat, succeeded : BOOLEAN]
      /\ postback'.attempts = postback.attempts + 1
      /\ ok => postback'.succeeded
  <2>1. postback \in [there : BOOLEAN, attempts : Nat, succeeded : BOOLEAN]
    BY DEF PostbacksInv, PostbacksTyped
  <2>2. postback' = [there |-> postback.there, attempts |-> postback.attempts + 1, succeeded |-> ok]
    BY <1>2, <2>1
  <2>3. postback.there \in BOOLEAN /\ postback.attempts + 1 \in Nat /\ ok \in BOOLEAN
    BY <1>1, <2>1
  <2> QED
    BY <2>2, <2>3
<1>5. /\ job' \in [Job -> JobRecord]
      /\ job'[j] = [state |-> state, left |-> was.left - 1, stalled |-> was.stalled]
      /\ \A k \in Job : k # j => job'[k] = job[k]
  BY <1>1, <1>2, <1>3 DEF PostbacksInv, PostbacksTyped, JobRecord, JobStates
<1>6. /\ carries' \in [Deliverer -> [at : {"idle", "fetch", "update"}, job : Job, ok : BOOLEAN]]
      /\ carries'[d] = Unladen
      /\ \A e \in Deliverer : e # d => carries'[e] = carries[e]
  BY <1>2, CallsJob DEF PostbacksInv, PostbacksTyped, Unladen
<1>7. PostbacksTyped'
  BY <1>4, <1>5, <1>6 DEF PostbacksTyped
<1>8. CarriedOnce'
  BY <1>1, <1>5, <1>6, LaidDown DEF PostbacksInv, j
<1>9. TriesAreAttempts' /\ DoneWhenHeard
  <2>1. CASE j = 0
    <3>1. job[0].state = "active" /\ was = job[0]
      BY <1>1, <2>1 DEF PostbacksInv, CarriedOnce, j, was
    <3>2. job'[0] = [state |-> state, left |-> was.left - 1, stalled |-> was.stalled]
      BY <1>5, <2>1
    <3>3. postback.attempts + was.left >= MaxTries /\ postback.attempts \in Nat
      BY <3>1 DEF PostbacksInv, PostbacksTyped, TriesAreAttempts, StalledOut
    <3> QED
      BY <1>1, <1>3, <1>4, <3>1, <3>2, <3>3, PostbacksAssumption DEF TriesAreAttempts, StalledOut, DoneWhenHeard
  <2>2. CASE j # 0
    <3>1. job'[0] = job[0] /\ job[0].left \in Int /\ postback.attempts \in Nat
      BY <1>5, <2>2, CallsJob DEF PostbacksInv, PostbacksTyped, JobRecord
    <3> QED
      BY <1>4, <3>1, PostbacksAssumption DEF PostbacksInv, TriesAreAttempts, StalledOut, DoneWhenHeard
  <2> QED
    BY <2>1, <2>2
<1> QED
  BY <1>7, <1>8, <1>9 DEF PostbacksInv

\* A server stops.
LEMMA DelivererStopsKeeps ==
  ASSUME PostbacksInv, NEW d \in Deliverer, DelivererStops(d)
  PROVE  PostbacksInv' /\ DoneWhenHeard
<1> DEFINE j == carries[d].job
           was == job[j]
           state == IF was.stalled < MaxStalled THEN "waiting" ELSE "failed"
<1>1. j \in Job /\ ~EmptyHanded(d) /\ UNCHANGED postback /\ was \in JobRecord
  BY DEF PostbacksInv, PostbacksTyped, CarriedOnce, DelivererStops
<1>2. /\ job' = [job EXCEPT ![j] = [state |-> state, left |-> was.left, stalled |-> was.stalled + 1]]
      /\ carries' = [carries EXCEPT ![d] = Unladen]
  BY DEF DelivererStops
<1>3. state \in {"waiting", "failed"} /\ (state = "failed" => was.stalled + 1 > MaxStalled)
  BY <1>1, PostbacksAssumption DEF JobRecord
<1> HIDE DEF j, was, state
<1>4. [state |-> state, left |-> was.left, stalled |-> was.stalled + 1] \in JobRecord
  BY <1>1, <1>3 DEF JobRecord, JobStates
<1>5. /\ job' \in [Job -> JobRecord]
      /\ job'[j] = [state |-> state, left |-> was.left, stalled |-> was.stalled + 1]
      /\ \A k \in Job : k # j => job'[k] = job[k]
  BY <1>1, <1>2, <1>4 DEF PostbacksInv, PostbacksTyped
<1>6. /\ carries' \in [Deliverer -> [at : {"idle", "fetch", "update"}, job : Job, ok : BOOLEAN]]
      /\ carries'[d] = Unladen
      /\ \A e \in Deliverer : e # d => carries'[e] = carries[e]
  BY <1>2, CallsJob DEF PostbacksInv, PostbacksTyped, Unladen
<1>7. PostbacksTyped'
  BY <1>1, <1>5, <1>6 DEF PostbacksInv, PostbacksTyped
<1>8. CarriedOnce'
  BY <1>1, <1>5, <1>6, LaidDown DEF PostbacksInv, j
<1>9. TriesAreAttempts' /\ DoneWhenHeard
  <2>1. CASE j = 0
    <3>1. job[0].state = "active" /\ was = job[0]
      BY <1>1, <2>1 DEF PostbacksInv, CarriedOnce, j, was
    <3> QED
      BY <1>1, <1>3, <1>5, <2>1, <3>1 DEF PostbacksInv, TriesAreAttempts, StalledOut, DoneWhenHeard
  <2>2. CASE j # 0
    <3>1. job'[0] = job[0]
      BY <1>5, <2>2, CallsJob
    <3> QED
      BY <1>1, <3>1 DEF PostbacksInv, TriesAreAttempts, StalledOut, DoneWhenHeard
  <2> QED
    BY <2>1, <2>2
<1> QED
  BY <1>7, <1>8, <1>9 DEF PostbacksInv

\* Any step.
LEMMA PostbacksStep ==
  ASSUME PostbacksInv, [PostbacksNext]_postbackVars
  PROVE  PostbacksInv' /\ [DoneWhenHeard]_postbackVars
<1>1. CASE UNCHANGED postbackVars
  BY <1>1 DEF postbackVars, PostbacksInv, PostbacksTyped, CarriedOnce, TriesAreAttempts, StalledOut, EmptyHanded
<1>2. CASE AddJob
  <2>1. job[0].state = "none" /\ MaxTries \in Nat
    BY <1>2, PostbacksAssumption DEF AddJob, NoJob
  <2> QED
    BY <1>2, <2>1, CallsJob, JobWaits DEF AddJob
<1>3. ASSUME NEW j \in Job, RetryByHand(j)  PROVE PostbacksInv' /\ DoneWhenHeard
  <2>1. job[j].state = "none" /\ j # 0
    BY <1>3 DEF RetryByHand, NoJob
  <2> QED
    BY <1>3, <2>1, JobWaits DEF RetryByHand
<1> QED
  BY <1>1, <1>2, <1>3, CreateRowKeeps, TakeJobKeeps, CallPublisherKeeps, UpdateKeeps, DelivererStopsKeeps
     DEF PostbacksNext, Delivers

\* However many servers deliver and however often staff press "retry": a notification is
\* done with when the publisher has heard, or after as many attempts as it has tries, or when
\* more of its servers have stopped than the queue puts up with (maxStalledCount); and no
\* two servers send the same one at once.
THEOREM PostbacksPersist == PostbacksSpec => NotGivenUpEarly
<1>1. PostbacksInv =>
        \A d, e \in Deliverer :
          carries[d] # Unladen /\ carries[e] # Unladen /\ carries[d].job = carries[e].job => d = e
  BY DEF PostbacksInv, CarriedOnce
<1>2. PostbacksInv => (job[0].state = "failed" => postback.attempts >= MaxTries \/ StalledOut)
  <2> SUFFICES ASSUME PostbacksInv, job[0].state = "failed", ~StalledOut  PROVE postback.attempts >= MaxTries
    OBVIOUS
  <2>1. postback.attempts \in Nat /\ job[0].left \in Int
    BY CallsJob DEF PostbacksInv, PostbacksTyped, JobRecord
  <2> QED
    BY <2>1, PostbacksAssumption DEF PostbacksInv, TriesAreAttempts, StalledOut
<1>3. PostbacksInv /\ [PostbacksNext]_postbackVars => PostbacksInv'
  BY PostbacksStep
<1>4. PostbacksInv /\ [PostbacksNext]_postbackVars
        => [job[0].state # "completed" /\ job'[0].state = "completed" => postback'.succeeded]_postbackVars
  BY PostbacksStep DEF DoneWhenHeard
<1> QED
  BY <1>1, <1>2, <1>3, <1>4, PostbacksStart, PTL DEF PostbacksSpec, NotGivenUpEarly

-----------------------------------------------------------------------------
(***************************************************************************)
(* The calls of one caller: however they overlap, the publisher is paid    *)
(* once; and calls that follow one another are sold to a buyer once.       *)
(*                                                                         *)
(* Behind the first is that of two calls the one that asks for the others  *)
(* later finds the row of the other.  Behind the second is that a call     *)
(* that was sold before this one came in has its buyer among those this    *)
(* one remembers, until it ends.                                           *)
(***************************************************************************)
RowType ==
  [made : BOOLEAN, at : Nat, rejected : BOOLEAN, duplicate : BOOLEAN, owner : 0 .. NOwners,
   short : BOOLEAN, converted : BOOLEAN, paid : BOOLEAN]

Unasked == {"new", "blocklist", "screen", "history", "rejected"}
Live == {"dialing", "talking"}
Ended == {"counting", "over"}

CallersTypeOK ==
  /\ today \in Nat
  /\ row \in [Call -> RowType]
  /\ step \in [Call -> Unasked \cup Live \cup Ended]
  /\ seen \in [Call -> SUBSET Owner]
  /\ before \in [Call -> SUBSET Call]

\* What the row of a call says while it goes on.
RowFollows(c) ==
  /\ step[c] # "new" => row[c].made
  /\ row[c].converted => step[c] \in Ended /\ row[c].owner # None
  /\ step[c] = "talking" => row[c].owner # None
  /\ row[c].paid => row[c].converted /\ ~row[c].duplicate

\* Of two calls that are no duplicates, none is in the other's window.
Apart(c, d) ==
  /\ c # d /\ DupWindow > 0
  /\ step[c] \in Live \cup Ended /\ step[d] \in Live \cup Ended
  /\ ~row[c].duplicate /\ ~row[d].duplicate
  => ~Near(c, d, DupWindow)

\* A call remembers the buyers of those that were sold before, and is not sold to them.
Remembers(c, d) ==
  /\ row[c].converted /\ c # d
  /\ DupWindow > 0 /\ row[c].at >= row[d].at - DupWindow =>
       /\ step[d] \in Live => row[c].owner \in seen[d]
       /\ row[d].converted => row[c].owner # row[d].owner

CallersInv ==
  /\ CallersTypeOK
  /\ \A c \in Call : RowFollows(c)
  /\ \A c, d \in Call : Apart(c, d)
  /\ \A d \in Call : \A c \in before[d] : Remembers(c, d)

USE CallersAssumption

\* What the handlers write to a row leaves it a row.
LEMMA RowMade ==
  ASSUME NEW r \in RowType, NEW t \in Nat PROVE [r EXCEPT !.made = TRUE, !.at = t] \in RowType
BY DEF RowType

LEMMA RowJudged ==
  ASSUME NEW r \in RowType, NEW b \in BOOLEAN PROVE [r EXCEPT !.duplicate = b] \in RowType
BY DEF RowType

LEMMA RowOver ==
  ASSUME NEW r \in RowType, NEW b \in BOOLEAN, NEW e \in BOOLEAN, NEW p \in BOOLEAN
  PROVE  [r EXCEPT !.short = b, !.converted = e, !.paid = p] \in RowType
BY DEF RowType

LEMMA CallersInitInv == CallersInit => CallersInv
<1>. SUFFICES ASSUME CallersInit PROVE CallersInv
  OBVIOUS
<1>. USE DEF CallersInit, NoRow, None, Unasked, Live, Ended
<1>1. NoRow \in RowType
  BY DEF RowType
<1>2. CallersTypeOK
  BY <1>1 DEF CallersTypeOK
<1>3. \A c \in Call : RowFollows(c)
  BY DEF RowFollows
<1>4. \A c, d \in Call : Apart(c, d)
  BY DEF Apart
<1>5. \A d \in Call : before[d] = {}
  OBVIOUS
<1>. QED  BY <1>2, <1>3, <1>4, <1>5 DEF CallersInv

LEMMA InboundInv ==
  ASSUME CallersInv, NEW c \in Call, Inbound(c) PROVE CallersInv'
<1>. USE DEF CallersInv, Unasked, Live, Ended
<1>1. PICK at \in Nat : row' = [row EXCEPT ![c].made = TRUE, ![c].at = at]
  BY DEF Inbound
<1>2. /\ step[c] = "new" /\ step' = [step EXCEPT ![c] = "blocklist"]
      /\ before' = [before EXCEPT ![c] = {d \in Call : row[d].converted}]
      /\ UNCHANGED <<today, seen>>
  BY DEF Inbound, Goto
<1>3. CallersTypeOK'
  <2>1. [row[c] EXCEPT !.made = TRUE, !.at = at] \in RowType
    BY RowMade DEF CallersTypeOK
  <2>2. row' \in [Call -> RowType]
    BY <1>1, <2>1 DEF CallersTypeOK
  <2>3. before' \in [Call -> SUBSET Call] /\ step' \in [Call -> Unasked \cup Live \cup Ended]
    BY <1>2 DEF CallersTypeOK
  <2>. QED  BY <1>2, <2>2, <2>3 DEF CallersTypeOK
<1>4. ASSUME NEW d \in Call PROVE RowFollows(d)'
  BY <1>1, <1>2 DEF CallersTypeOK, RowType, RowFollows
<1>5. ASSUME NEW d \in Call, NEW e \in Call PROVE Apart(d, e)'
  BY <1>1, <1>2 DEF CallersTypeOK, RowType, Apart, Near
<1>6. ASSUME NEW e \in Call, NEW d \in before'[e] PROVE Remembers(d, e)'
  BY <1>1, <1>2 DEF CallersTypeOK, RowType, RowFollows, Remembers
<1>. QED  BY <1>3, <1>4, <1>5, <1>6

LEMMA RejectInv ==
  ASSUME CallersInv, NEW c \in Call, Reject(c) PROVE CallersInv'
<1>. USE DEF CallersInv, Unasked, Live, Ended
<1>1. /\ step[c] \in {"blocklist", "screen", "history"}
      /\ row' = [row EXCEPT ![c].rejected = TRUE] /\ step' = [step EXCEPT ![c] = "rejected"]
      /\ before' = [before EXCEPT ![c] = {}] /\ UNCHANGED <<today, seen>>
  BY DEF Reject, Goto
<1>2. CallersTypeOK'
  BY <1>1 DEF CallersTypeOK, RowType
<1>3. ASSUME NEW d \in Call PROVE RowFollows(d)'
  BY <1>1 DEF CallersTypeOK, RowType, RowFollows
<1>4. ASSUME NEW d \in Call, NEW e \in Call PROVE Apart(d, e)'
  BY <1>1 DEF CallersTypeOK, RowType, Apart, Near
<1>5. ASSUME NEW e \in Call, NEW d \in before'[e] PROVE Remembers(d, e)'
  BY <1>1 DEF CallersTypeOK, RowType, RowFollows, Remembers
<1>. QED  BY <1>2, <1>3, <1>4, <1>5

\* PassBlocklist and Screen only go on.
LEMMA GoesOnInv ==
  ASSUME CallersInv, NEW c \in Call, PassBlocklist(c) \/ Screen(c) PROVE CallersInv'
<1>. USE DEF CallersInv, Unasked, Live, Ended
<1>1. /\ step[c] \in {"blocklist", "screen"}
      /\ step' = [step EXCEPT ![c] = IF step[c] = "blocklist" THEN "screen" ELSE "history"]
      /\ UNCHANGED <<today, row, seen, before>>
  BY DEF PassBlocklist, Screen, Goto
<1>2. CallersTypeOK'
  BY <1>1 DEF CallersTypeOK
<1>3. ASSUME NEW d \in Call PROVE RowFollows(d)'
  BY <1>1 DEF CallersTypeOK, RowFollows
<1>4. ASSUME NEW d \in Call, NEW e \in Call PROVE Apart(d, e)'
  BY <1>1 DEF CallersTypeOK, Apart, Near
<1>5. ASSUME NEW e \in Call, NEW d \in before'[e] PROVE Remembers(d, e)'
  BY <1>1 DEF CallersTypeOK, Remembers
<1>. QED  BY <1>2, <1>3, <1>4, <1>5

\* A call that asks for the others finds those that have asked, and those that were sold.
LEMMA HistoryInv ==
  ASSUME CallersInv, NEW c \in Call, History(c) PROVE CallersInv'
<1>. USE DEF CallersInv, Unasked, Live, Ended
<1>. DEFINE past == IF DupWindow > 0 THEN RowsSince(c, row[c].at - DupWindow) ELSE {}
<1>1. /\ step[c] = "history" /\ step' = [step EXCEPT ![c] = "dialing"]
      /\ seen' = [seen EXCEPT ![c] = {row[d].owner : d \in past} \ {None}]
      /\ row' = [row EXCEPT ![c].duplicate = past # {}]
      /\ UNCHANGED <<today, before>>
  BY DEF History, Goto
<1>2. \A d \in past : d \in Call /\ row[d].owner \in {None} \cup Owner
  BY DEF CallersTypeOK, RowType, RowsSince, None, Owner
<1>3. CallersTypeOK'
  <2>1. seen' \in [Call -> SUBSET Owner]
    BY <1>1, <1>2 DEF CallersTypeOK
  <2>2. row' \in [Call -> RowType]
    <3>1. (past # {}) \in BOOLEAN
      OBVIOUS
    <3>2. [row[c] EXCEPT !.duplicate = past # {}] \in RowType
      BY <3>1, RowJudged DEF CallersTypeOK
    <3>. QED  BY <1>1, <3>2 DEF CallersTypeOK
  <2>. QED  BY <1>1, <2>1, <2>2 DEF CallersTypeOK
<1>4. ASSUME NEW d \in Call PROVE RowFollows(d)'
  BY <1>1 DEF CallersTypeOK, RowType, RowFollows
<1>5. ASSUME NEW d \in Call, d # c, DupWindow > 0, step[d] \in Live \cup Ended, past = {}
      PROVE  row[d].at < row[c].at - DupWindow
  BY <1>5 DEF CallersTypeOK, RowType, RowFollows, RowsSince
<1>6. ASSUME NEW d \in Call, NEW e \in Call PROVE Apart(d, e)'
  <2>1. /\ row'[d].at = row[d].at /\ row'[e].at = row[e].at
        /\ row[d].at \in Nat /\ row[e].at \in Nat
    BY <1>1 DEF CallersTypeOK, RowType
  <2>2. row'[c].duplicate = (past # {})
    BY <1>1 DEF CallersTypeOK, RowType
  <2>3. \A f \in Call \ {c} : step'[f] = step[f] /\ row'[f] = row[f]
    BY <1>1 DEF CallersTypeOK
  <2>4. CASE d # c /\ e # c
    BY <2>1, <2>3, <2>4 DEF Apart, Near
  <2>5. CASE d = c /\ e # c
    <3>1. row[e].at < row[c].at - DupWindow => ~Near(d, e, DupWindow)'
      BY <2>1, <2>5 DEF Near
    <3>. QED  BY <1>5, <2>2, <2>3, <2>5, <3>1 DEF Apart
  <2>6. CASE d # c /\ e = c
    <3>1. row[d].at < row[c].at - DupWindow => ~Near(d, e, DupWindow)'
      BY <2>1, <2>6 DEF Near
    <3>. QED  BY <1>5, <2>2, <2>3, <2>6, <3>1 DEF Apart
  <2>. QED  BY <2>4, <2>5, <2>6 DEF Apart
<1>7. ASSUME NEW e \in Call, NEW d \in before'[e] PROVE Remembers(d, e)'
  <2>1. d \in Call /\ Remembers(d, e)
    BY <1>1 DEF CallersTypeOK
  <2>2. d # c /\ step[d] \in Ended /\ row[d].owner # None /\ row[d].made
    BY <1>1, <2>1 DEF Remembers, RowFollows
  <2>3. CASE e # c
    BY <1>1, <2>1, <2>2, <2>3 DEF CallersTypeOK, RowType, Remembers
  <2>4. CASE e = c
    <3>1. ASSUME DupWindow > 0, row[d].at >= row[c].at - DupWindow PROVE row[d].owner \in seen'[c]
      BY <1>1, <2>1, <2>2, <3>1 DEF CallersTypeOK, RowsSince
    <3>2. ~row[c].converted
      BY <1>1 DEF RowFollows
    <3>. QED  BY <1>1, <2>1, <2>2, <2>4, <3>1, <3>2 DEF CallersTypeOK, RowType, Remembers
  <2>. QED  BY <2>3, <2>4
<1>. QED  BY <1>3, <1>4, <1>6, <1>7

LEMMA ConnectInv ==
  ASSUME CallersInv, NEW c \in Call, NEW o \in Owner, Connect(c, o) PROVE CallersInv'
<1>. USE DEF CallersInv, Unasked, Live, Ended
<1>1. /\ step[c] = "dialing" /\ step' = [step EXCEPT ![c] = "talking"]
      /\ row' = [row EXCEPT ![c].owner = o] /\ UNCHANGED <<today, seen, before>>
  BY DEF Connect, Goto
<1>2. CallersTypeOK' /\ o # None
  BY <1>1 DEF CallersTypeOK, RowType, Owner, None
<1>3. ASSUME NEW d \in Call PROVE RowFollows(d)'
  BY <1>1, <1>2 DEF CallersTypeOK, RowType, RowFollows
<1>4. ASSUME NEW d \in Call, NEW e \in Call PROVE Apart(d, e)'
  BY <1>1 DEF CallersTypeOK, RowType, Apart, Near
<1>5. ASSUME NEW e \in Call, NEW d \in before'[e] PROVE Remembers(d, e)'
  <2>1. d \in Call /\ Remembers(d, e) /\ d # c
    BY <1>1 DEF CallersTypeOK, Remembers, RowFollows
  <2>2. ~row[c].converted
    BY <1>1 DEF RowFollows
  <2>. QED  BY <1>1, <2>1, <2>2 DEF CallersTypeOK, RowType, Remembers
<1>. QED  BY <1>2, <1>3, <1>4, <1>5

LEMMA FinalizeInv ==
  ASSUME CallersInv, NEW c \in Call, NEW brief \in BOOLEAN, NEW enough \in BOOLEAN,
         Finalize(c, brief, enough)
  PROVE  CallersInv'
<1>. USE DEF CallersInv, Unasked, Live, Ended
<1>. DEFINE sold == enough /\ row[c].owner \notin seen[c]
<1>1. /\ step[c] \in Live /\ (sold => step[c] = "talking")
      /\ row' = [row EXCEPT ![c].short = brief, ![c].converted = sold,
                            ![c].paid = sold /\ ~row[c].duplicate]
      /\ seen' = [seen EXCEPT ![c] = {}]
      /\ before' = [before EXCEPT ![c] = IF sold THEN @ ELSE {}]
      /\ UNCHANGED today
  BY DEF Finalize
<1>2. PICK s \in Ended : step' = [step EXCEPT ![c] = s]
  BY DEF Finalize, Goto, Afterwards
<1>3. sold \in BOOLEAN /\ (sold /\ ~row[c].duplicate) \in BOOLEAN
  OBVIOUS
<1>4. CallersTypeOK'
  <2>1. row' \in [Call -> RowType]
    <3>1. [row[c] EXCEPT !.short = brief, !.converted = sold,
                         !.paid = sold /\ ~row[c].duplicate] \in RowType
      BY <1>3, RowOver DEF CallersTypeOK
    <3>. QED  BY <1>1, <3>1 DEF CallersTypeOK
  <2>2. seen' \in [Call -> SUBSET Owner] /\ before' \in [Call -> SUBSET Call]
    BY <1>1 DEF CallersTypeOK
  <2>. QED  BY <1>1, <1>2, <2>1, <2>2 DEF CallersTypeOK
<1>5. ASSUME NEW d \in Call PROVE RowFollows(d)'
  BY <1>1, <1>2 DEF CallersTypeOK, RowType, RowFollows
<1>6. ASSUME NEW d \in Call, NEW e \in Call PROVE Apart(d, e)'
  BY <1>1, <1>2 DEF CallersTypeOK, RowType, Apart, Near
<1>7. ASSUME NEW e \in Call, NEW d \in before'[e] PROVE Remembers(d, e)'
  <2>1. d \in Call /\ d \in before[e] /\ Remembers(d, e) /\ d # c
    BY <1>1 DEF CallersTypeOK, Remembers, RowFollows
  <2>2. CASE e # c
    BY <1>1, <1>2, <2>1, <2>2 DEF CallersTypeOK, RowType, Remembers
  <2>3. CASE e = c
    BY <1>1, <1>2, <2>1, <2>3 DEF CallersTypeOK, RowType, Remembers
  <2>. QED  BY <2>2, <2>3
<1>. QED  BY <1>4, <1>5, <1>6, <1>7

\* The count of short calls, and time, touch no call.
LEMMA OthersInv ==
  ASSUME CallersInv, CallersTick \/ \E c \in Call : AfterCall(c) PROVE CallersInv'
<1>. USE DEF CallersInv, Unasked, Live, Ended
<1>1. UNCHANGED <<row, seen, before>> /\ today' \in Nat
  BY DEF CallersTick, AfterCall, CallersTypeOK
<1>2. /\ step' \in [Call -> Unasked \cup Live \cup Ended]
      /\ \A d \in Call : step'[d] = step[d] \/ (step[d] \in Ended /\ step'[d] \in Ended)
  BY DEF CallersTick, AfterCall, Goto, CallersTypeOK
<1>3. CallersTypeOK'
  BY <1>1, <1>2 DEF CallersTypeOK
<1>4. ASSUME NEW d \in Call PROVE RowFollows(d)'
  BY <1>1, <1>2 DEF RowFollows
<1>5. ASSUME NEW d \in Call, NEW e \in Call PROVE Apart(d, e)'
  BY <1>1, <1>2 DEF Apart, Near
<1>6. ASSUME NEW e \in Call, NEW d \in before'[e] PROVE Remembers(d, e)'
  BY <1>1, <1>2 DEF Remembers
<1>. QED  BY <1>3, <1>4, <1>5, <1>6

-----------------------------------------------------------------------------
LEMMA CallersStepInv == CallersInv /\ [CallersNext]_callersVars => CallersInv'
<1>. SUFFICES ASSUME CallersInv, [CallersNext]_callersVars PROVE CallersInv'
  OBVIOUS
<1>1. CASE CallersTick
  BY <1>1, OthersInv
<1>2. ASSUME NEW c \in Call, CallStep(c) PROVE CallersInv'
  BY <1>2, InboundInv, RejectInv, GoesOnInv, HistoryInv, ConnectInv, FinalizeInv, OthersInv
  DEF CallStep
<1>3. CASE UNCHANGED callersVars
  BY <1>3 DEF callersVars, CallersInv, CallersTypeOK, RowFollows, Apart, Near, Remembers
<1>. QED  BY <1>1, <1>2, <1>3 DEF CallersNext

LEMMA CallersAlways == CallersSpec => []CallersInv
<1>. QED  BY CallersInitInv, CallersStepInv, PTL DEF CallersSpec

(* "The publisher is paid once per caller, whoever takes the repeat call"   *)
(* (call-engine.service.ts:623), however the caller's calls overlap and     *)
(* however late their events come.                                          *)
THEOREM PublisherIsPaidOnce == CallersSpec => []PublisherPaidOnce
<1>1. CallersInv => PublisherPaidOnce
  BY DEF CallersInv, RowFollows, Apart, PublisherPaidOnce
<1>. QED  BY <1>1, CallersAlways, PTL

(* A call that came in after another was sold and over is not sold to the   *)
(* same buyer again within the window (call-engine.service.ts:625).         *)
THEOREM SequentialCallsAreSoldOnce == CallersSpec => []SequentialCallsSellOnce
<1>1. ASSUME CallersInv PROVE SequentialCallsSellOnce
  <2>. SUFFICES ASSUME DupWindow > 0, NEW d \in Call, NEW c \in before[d],
                       row[d].converted, row[c].owner = row[d].owner
                PROVE  row[c].at < row[d].at - DupWindow
    BY DEF SequentialCallsSellOnce
  <2>1. c \in Call /\ Remembers(c, d)
    BY <1>1 DEF CallersInv, CallersTypeOK
  <2>2. row[c].at \in Nat /\ row[d].at \in Nat
    BY <1>1, <2>1 DEF CallersInv, CallersTypeOK, RowType
  <2>. QED  BY <2>1, <2>2 DEF Remembers
<1>. QED  BY <1>1, CallersAlways, PTL

-----------------------------------------------------------------------------
(***************************************************************************)
(* Limits of one caller.  Who passes the screen last of the calls of a     *)
(* window finds the rows of all the others in it; who counts last of the   *)
(* short calls that sold nothing counts all of them.                       *)
(***************************************************************************)

\* The calls that got through within the window that ends at t.
ThroughIn(t) == {c \in Call : Through(c) /\ row[c].at \in t - RateWindow .. t}

Quiet == {c \in Call : step[c] = "over" /\ row[c].short /\ ~row[c].converted}

LimitsInv ==
  /\ WithinCallerRate
  /\ ShortMax > 0 /\ ~barred => Cardinality(Quiet) < ShortMax
  /\ \A c \in Call : /\ row[c].rejected => step[c] = "rejected"
                     /\ step[c] = "counting" => row[c].short

LEMMA CallsFinite ==
  ASSUME NEW S \in SUBSET Call
  PROVE  IsFiniteSet(S) /\ Cardinality(S) \in Nat
<1>1. 1 \in Int /\ NCalls \in Int
  BY CallersAssumption
<1>2. IsFiniteSet(Call)
  BY <1>1, FS_Interval DEF Call
<1> QED
  BY <1>2, FS_Subset, FS_CardinalityType

LEMMA FewerCalls ==
  ASSUME NEW S \in SUBSET Call, NEW T \in SUBSET S
  PROVE  Cardinality(T) <= Cardinality(S)
BY CallsFinite, FS_Subset

LEMMA InitLimits == CallersInit => LimitsInv
<1> SUFFICES ASSUME CallersInit PROVE LimitsInv
  OBVIOUS
<1>1. Quiet = {} /\ \A t : ThroughIn(t) = {}
  BY DEF CallersInit, Quiet, ThroughIn, Through
<1>2. WithinCallerRate
  BY <1>1, FS_EmptySet DEF WithinCallerRate, ThroughIn
<1> QED
  BY <1>1, <1>2, FS_EmptySet DEF LimitsInv, CallersInit, NoRow

\* As long as nobody gets through.
LEMMA RateKept ==
  ASSUME WithinCallerRate,
         \A c \in Call : Through(c)' => Through(c) /\ row'[c].at = row[c].at
  PROVE  WithinCallerRate'
<1>1. SUFFICES ASSUME RateLimit > 0, NEW t \in 0 .. MaxTime
               PROVE  Cardinality(ThroughIn(t)') <= RateLimit
  BY DEF WithinCallerRate, ThroughIn
<1>2. ThroughIn(t)' \subseteq ThroughIn(t)
  BY DEF ThroughIn
<1>3. ThroughIn(t) \in SUBSET Call /\ Cardinality(ThroughIn(t)) <= RateLimit
  BY <1>1 DEF WithinCallerRate, ThroughIn
<1>4. Cardinality(ThroughIn(t)) \in Nat /\ Cardinality(ThroughIn(t)') \in Nat
  BY <1>2, <1>3, CallsFinite
<1> QED
  BY <1>2, <1>3, <1>4, FewerCalls

\* As long as no short call that sold nothing is over with.
LEMMA QuietKept ==
  ASSUME LimitsInv, barred' = barred, Quiet' \subseteq Quiet
  PROVE  ShortMax > 0 /\ ~barred' => Cardinality(Quiet') < ShortMax
<1>1. Quiet \in SUBSET Call
  BY DEF Quiet
<1>2. Cardinality(Quiet') <= Cardinality(Quiet) /\ Cardinality(Quiet) \in Nat /\ Cardinality(Quiet') \in Nat
  BY <1>1, FewerCalls, CallsFinite
<1> QED
  BY <1>2 DEF LimitsInv

\* The screen counts who got through before, whatever window they and this call are in.
LEMMA ScreenLimits ==
  ASSUME CallersInv, LimitsInv, NEW c \in Call, Screen(c) PROVE LimitsInv'
<1>1. /\ step[c] = "screen" /\ step' = [step EXCEPT ![c] = "history"] /\ row' = row /\ barred' = barred
      /\ RateLimit > 0 => ~(Cardinality(RowsSince(c, row[c].at - RateWindow)) >= RateLimit)
  BY DEF Screen, Goto, TooMany
<1>2. /\ row \in [Call -> RowType] /\ step \in [Call -> Unasked \cup Live \cup Ended]
      /\ \A d \in Call : row[d].at \in Nat /\ (step[d] # "new" => row[d].made)
  BY DEF CallersInv, CallersTypeOK, RowFollows, RowType
<1>3. WithinCallerRate'
  <2>1. SUFFICES ASSUME RateLimit > 0, NEW t \in 0 .. MaxTime
                 PROVE  Cardinality(ThroughIn(t)') <= RateLimit
    BY DEF WithinCallerRate, ThroughIn
  <2> DEFINE S == RowsSince(c, row[c].at - RateWindow)
  <2>2. S \in SUBSET Call /\ Cardinality(S) \in Nat /\ Cardinality(S) < RateLimit
    <3>1. S \in SUBSET Call
      BY DEF RowsSince
    <3> QED
      BY <1>1, <2>1, <3>1, CallsFinite
  <2>3. ThroughIn(t) \in SUBSET Call /\ Cardinality(ThroughIn(t)) \in Nat /\ Cardinality(ThroughIn(t)) <= RateLimit
    <3>1. ThroughIn(t) \in SUBSET Call
      BY DEF ThroughIn
    <3> QED
      BY <2>1, <3>1, CallsFinite DEF LimitsInv, WithinCallerRate, ThroughIn
  <2>4. \A d \in Call \ {c} : d \in ThroughIn(t)' <=> d \in ThroughIn(t)
    BY <1>1, <1>2 DEF ThroughIn, Through
  <2>5. c \notin ThroughIn(t)
    BY <1>1 DEF ThroughIn, Through
  <2>6. CASE c \notin ThroughIn(t)'
    <3>1. ThroughIn(t)' = ThroughIn(t)
      BY <2>4, <2>5, <2>6 DEF ThroughIn
    <3> QED
      BY <2>3, <3>1
  <2>7. CASE c \in ThroughIn(t)'
    <3>1. ThroughIn(t)' = ThroughIn(t) \cup {c}
      BY <2>4, <2>5, <2>7 DEF ThroughIn
    <3>2. row[c].at <= t
      BY <1>1, <1>2, <2>7 DEF ThroughIn
    <3>3. ThroughIn(t) \subseteq S
      <4>1. SUFFICES ASSUME NEW d \in ThroughIn(t) PROVE d \in S
        OBVIOUS
      <4>2. d \in Call \ {c} /\ row[d].at >= t - RateWindow /\ step[d] # "new"
        BY <1>2, <2>5, <4>1 DEF ThroughIn, Through
      <4> QED
        BY <1>2, <3>2, <4>2 DEF RowsSince
    <3>4. Cardinality(ThroughIn(t)) <= Cardinality(S)
      BY <2>2, <3>3, FewerCalls
    <3>5. Cardinality(ThroughIn(t) \cup {c}) = Cardinality(ThroughIn(t)) + 1
      BY <2>3, <2>5, CallsFinite, FS_AddElement
    <3> QED
      BY <2>2, <2>3, <3>1, <3>4, <3>5
  <2> QED
    BY <2>6, <2>7
<1>4. Quiet' \subseteq Quiet
  BY <1>1, <1>2 DEF Quiet
<1>5. \A d \in Call : (row[d].rejected => step[d] = "rejected")' /\ (step[d] = "counting" => row[d].short)'
  BY <1>1, <1>2 DEF LimitsInv
<1> QED
  BY <1>1, <1>3, <1>4, <1>5, QuietKept DEF LimitsInv

\* Who counts finds the rows of those that have counted, and its own.
LEMMA AfterCallLimits ==
  ASSUME CallersInv, LimitsInv, NEW c \in Call, AfterCall(c) PROVE LimitsInv'
<1>1. /\ step[c] = "counting" /\ step' = [step EXCEPT ![c] = "over"] /\ row' = row
      /\ barred' = (barred \/ Cardinality(ShortRows) >= ShortMax)
  BY DEF AfterCall, Goto, Blocks
<1>2. /\ step \in [Call -> Unasked \cup Live \cup Ended]
      /\ \A d \in Call : step[d] # "new" => row[d].made
  BY DEF CallersInv, CallersTypeOK, RowFollows
<1>3. WithinCallerRate'
  BY <1>1, <1>2, RateKept DEF LimitsInv, Through
<1>4. ASSUME ShortMax > 0, ~barred' PROVE Cardinality(Quiet') < ShortMax
  <2>1. Quiet' \subseteq ShortRows
    BY <1>1, <1>2 DEF Quiet, ShortRows, LimitsInv
  <2>2. ShortRows \in SUBSET Call
    BY DEF ShortRows
  <2>3. Cardinality(Quiet') <= Cardinality(ShortRows) /\ Cardinality(Quiet') \in Nat /\ Cardinality(ShortRows) \in Nat
    BY <2>1, <2>2, FewerCalls, CallsFinite
  <2>4. ~(Cardinality(ShortRows) >= ShortMax)
    BY <1>1, <1>4, Zenon
  <2> QED
    BY <2>3, <2>4
<1>5. \A d \in Call : (row[d].rejected => step[d] = "rejected")' /\ (step[d] = "counting" => row[d].short)'
  BY <1>1, <1>2 DEF LimitsInv
<1> QED
  BY <1>3, <1>4, <1>5 DEF LimitsInv

LEMMA StepLimits ==
  ASSUME CallersInv, LimitsInv, NEW c \in Call, CallStep(c) PROVE LimitsInv'
<1>0. /\ step \in [Call -> Unasked \cup Live \cup Ended] /\ row \in [Call -> RowType]
      /\ \A d \in Call : row[d].short \in BOOLEAN
  BY DEF CallersInv, CallersTypeOK, RowType
<1>1. ASSUME barred' = barred, NEW s, step' = [step EXCEPT ![c] = s],
             \A d \in Call \ {c} : row'[d] = row[d],
             s \in {"blocklist", "screen", "rejected"}
               \/ (Through(c) /\ s \in Live \cup Ended /\ row'[c].at = row[c].at),
             row'[c].rejected => s = "rejected",
             s = "counting" => row'[c].short,
             s = "over" /\ ShortMax > 0 => ~row'[c].short \/ row'[c].converted
      PROVE  LimitsInv'
  <2>1. \A d \in Call : step'[d] = IF d = c THEN s ELSE step[d]
    BY <1>0, <1>1
  <2>2. WithinCallerRate'
    BY <1>1, <2>1, RateKept DEF LimitsInv, Through
  <2>3. ShortMax > 0 => Quiet' \subseteq Quiet
    BY <1>1, <2>1 DEF Quiet
  <2>4. \A d \in Call : (row[d].rejected => step[d] = "rejected")' /\ (step[d] = "counting" => row[d].short)'
    BY <1>1, <2>1 DEF LimitsInv
  <2> QED
    BY <1>1, <2>2, <2>3, <2>4, QuietKept DEF LimitsInv
<1>2. CASE Inbound(c)
  <2>1. PICK at : row' = [row EXCEPT ![c].made = TRUE, ![c].at = at]
    BY <1>2 DEF Inbound
  <2>2. row'[c] = [row[c] EXCEPT !.made = TRUE, !.at = at] /\ \A d \in Call \ {c} : row'[d] = row[d]
    BY <1>0, <2>1
  <2>3. ~row'[c].rejected
    BY <1>0, <1>2, <2>2 DEF LimitsInv, RowType, Inbound
  <2> QED
    BY <1>1, <1>2, <2>2, <2>3 DEF Inbound, Goto
<1>3. CASE Reject(c)
  <2>1. \A d \in Call \ {c} : row'[d] = row[d]
    BY <1>0, <1>3 DEF Reject
  <2> QED
    BY <1>1, <1>3, <2>1 DEF Reject, Goto
<1>4. CASE PassBlocklist(c)
  <2>1. ~row[c].rejected
    BY <1>4 DEF LimitsInv, PassBlocklist
  <2> QED
    BY <1>1, <1>4, <2>1 DEF PassBlocklist, Goto
<1>5. CASE History(c)
  <2>1. PICK b \in BOOLEAN : row' = [row EXCEPT ![c].duplicate = b]
    BY <1>5 DEF History
  <2>2. row'[c] = [row[c] EXCEPT !.duplicate = b] /\ \A d \in Call \ {c} : row'[d] = row[d]
    BY <1>0, <2>1
  <2>3. ~row'[c].rejected /\ row'[c].at = row[c].at
    BY <1>0, <1>5, <2>2 DEF LimitsInv, RowType, History
  <2> QED
    BY <1>1, <1>5, <2>2, <2>3 DEF History, Goto, Through, Live
<1>6. ASSUME NEW o \in Owner, Connect(c, o) PROVE LimitsInv'
  <2>1. row'[c] = [row[c] EXCEPT !.owner = o] /\ \A d \in Call \ {c} : row'[d] = row[d]
    BY <1>0, <1>6 DEF Connect
  <2>2. ~row'[c].rejected /\ row'[c].at = row[c].at
    BY <1>0, <1>6, <2>1 DEF LimitsInv, RowType, Connect
  <2> QED
    BY <1>1, <1>6, <2>1, <2>2 DEF Connect, Goto, Through, Live
<1>7. ASSUME NEW brief \in BOOLEAN, NEW enough \in BOOLEAN, Finalize(c, brief, enough) PROVE LimitsInv'
  <2> DEFINE sold == enough /\ row[c].owner \notin seen[c]
             p == sold /\ ~row[c].duplicate
             s == IF ShortMax > 0 /\ brief /\ ~sold THEN "counting" ELSE "over"
  <2>0. sold \in BOOLEAN
    OBVIOUS
  <2>1. /\ step[c] \in Live /\ barred' = barred
        /\ row' = [row EXCEPT ![c].short = brief, ![c].converted = sold, ![c].paid = p]
        /\ step' = [step EXCEPT ![c] = s]
    BY <1>7 DEF Finalize, Goto, Afterwards, Live
  <2> HIDE DEF sold, p
  <2>2. row'[c] = [row[c] EXCEPT !.short = brief, !.converted = sold, !.paid = p]
        /\ \A d \in Call \ {c} : row'[d] = row[d]
    BY <1>0, <2>1
  <2>3. /\ ~row'[c].rejected /\ row'[c].at = row[c].at
        /\ row'[c].short = brief /\ row'[c].converted = sold
    BY <1>0, <2>1, <2>2 DEF LimitsInv, RowType, Live
  <2>4. s \in Ended /\ (s = "counting" => brief) /\ (s = "over" /\ ShortMax > 0 => ~brief \/ sold)
    BY <2>0 DEF Ended
  <2>5. Through(c)
    BY <2>1 DEF Through, Live
  <2> HIDE DEF s
  <2> QED
    BY <1>1, <2>1, <2>2, <2>3, <2>4, <2>5
<1> QED
  BY <1>2, <1>3, <1>4, <1>5, <1>6, <1>7, ScreenLimits, AfterCallLimits DEF CallStep

LEMMA LimitsAlways == CallersSpec => []LimitsInv
<1>1. CallersInv /\ LimitsInv /\ [CallersNext]_callersVars => LimitsInv'
  <2>1. SUFFICES ASSUME CallersInv, LimitsInv, CallersTick \/ UNCHANGED callersVars PROVE LimitsInv'
    BY StepLimits DEF CallersNext
  <2>2. row' = row /\ step' = step /\ barred' = barred
    BY <2>1 DEF CallersTick, callersVars
  <2> QED
    BY <2>1, <2>2 DEF LimitsInv, WithinCallerRate, Through, Quiet
<1> QED
  BY <1>1, InitLimits, CallersInitInv, CallersStepInv, PTL DEF CallersSpec

(* However the caller's calls come in at once or late, no more than         *)
(* callerRateLimit of them pass the screen in any window: each call writes  *)
(* its row before it counts the others (call-engine.service.ts:159, :190).  *)
THEOREM RateIsKept == CallersSpec => []WithinCallerRate
<1>1. LimitsInv => WithinCallerRate
  BY DEF LimitsInv
<1> QED
  BY <1>1, LimitsAlways, PTL

(* Once the calls are over, a caller with autoBlockShortCalls short calls   *)
(* that sold nothing is on the blocklist, however the ends of the calls and *)
(* their counts interleaved (afterCall).                                    *)
THEOREM ShortCallersAreBlocked == CallersSpec => []ShortCallersBlocked
<1>1. LimitsInv => ShortCallersBlocked
  <2>1. SUFFICES ASSUME LimitsInv, ShortMax > 0, Cardinality(Quiet) >= ShortMax PROVE barred
    BY DEF ShortCallersBlocked, Quiet
  <2>2. Cardinality(Quiet) \in Nat
    BY CallsFinite DEF Quiet
  <2> QED
    BY <2>1, <2>2 DEF LimitsInv
<1> QED
  BY <1>1, LimitsAlways, PTL

-----------------------------------------------------------------------------
(***************************************************************************)
(* Billing.  Whoever renews goes through a list of rows read before:       *)
(* Todo(p) are those p may still charge or suspend, each account once.     *)
(* Until the lock expires under a run (overran), only the server that has  *)
(* the lock has such a list (Mutex), and as long as no administrator has   *)
(* touched an account, the account is due while it is on the list of a     *)
(* server, and is not while a payment renews it: so neither spoils the     *)
(* list of the other.  The next run that begins when all those lists are   *)
(* done finds it so again, there being none.                               *)
(***************************************************************************)

Requests == Servers \cup Clients
Acting == {"renew", "suspend"}
Listing == {"renew", "suspend", "balance", "alert"}

Todo(p) ==
  (IF run[p].step \in Acting THEN {run[p].cur} ELSE {})
    \cup (IF run[p].step \in Listing THEN run[p].rest ELSE {})

OneEach(p) ==
  /\ \A e, f \in Todo(p) : e.tenant = f.tenant => e = f
  /\ run[p].step \in Acting => run[p].cur \notin run[p].rest

\* What a list says was so when it was read: the dates in it have passed, this month.
ListsSay(p) == \A e \in Todo(p) : e.row.status = "SUSPENDED" \/ DueRow(e.row)

\* Servers renew who is due; a payment renews its own account, which was suspended.
Works(p) ==
  /\ p \in Servers => run[p].step # "recheck"
  /\ p \in Clients =>
       /\ run[p].step \notin {"list", "unlock", "suspend"}
       /\ run[p].step \in Listing => run[p].rest = {}
       /\ run[p].step = "renew" => run[p].cur.row.status = "SUSPENDED"

Mutex == \A s \in Servers : ~At(s, "idle") => lock = s

DueOnLists ==
  \A p \in Requests : \A e \in Todo(p) :
    changes[e.tenant] = 0 => (DueRow(acc[e.tenant]) <=> p \in Servers)

OnLists == run \in [Requests -> RequestType] /\ \A p \in Requests : OneEach(p) /\ ListsSay(p) /\ Works(p)

RowsTyped ==
  /\ acc \in [Tenants -> Row]
  /\ now \in 0..Months
  /\ changes \in [Tenants -> 0..MaxChanges]
  /\ lock \in Servers \cup {Free} /\ overran \in BOOLEAN

ListsInv == RowsTyped /\ OnLists /\ (~overran => Mutex /\ DueOnLists)

USE BillingAssumption DEF Requests

LEMMA EntryFields == \A e \in Entry : e.tenant \in Tenants /\ e.row \in Row
BY DEF Entry

LEMMA ActingFields ==
  ASSUME NEW q \in RequestType, q.step \in Listing
  PROVE  /\ q \in [step : Listing, cur : Entry, rest : SUBSET Entry]
         /\ q.cur \in Entry /\ q.rest \in SUBSET Entry
BY DEF RequestType, Listing

LEMMA RecheckFields ==
  ASSUME NEW q \in RequestType, q.step = "recheck"
  PROVE  q.tenant \in Tenants
BY DEF RequestType

LEMMA TodoTyped ==
  ASSUME OnLists, NEW p \in Requests, NEW e \in Todo(p)
  PROVE  e \in Entry
BY ActingFields DEF OnLists, Todo, Acting, Listing

\* A request that takes a step leaves the others and their lists alone.
LEMMA OtherLists ==
  ASSUME NEW p, NEW q, run'[q] = run[q], now' = now
  PROVE  Todo(q)' = Todo(q) /\ (OneEach(q) /\ ListsSay(q) /\ Works(q) => (OneEach(q) /\ ListsSay(q) /\ Works(q))')
BY DEF Todo, OneEach, ListsSay, Works, DueRow, Passed

\* Renews(p, entries) takes one of the entries up, or ends.
LEMMA RenewsLists ==
  ASSUME OnLists, now' = now, NEW p \in Requests, NEW entries \in SUBSET Entry, Renews(p, entries),
         \A e, f \in entries : e.tenant = f.tenant => e = f,
         \A e \in entries : e.row.status = "SUSPENDED" \/ DueRow(e.row),
         p \in Clients => \A e, f \in entries : e = f /\ e.row.status = "SUSPENDED"
  PROVE  /\ OnLists' /\ Todo(p)' = entries
         /\ \A q \in Requests \ {p} : run'[q] = run[q]
         /\ p \in Servers => ~At(p, "idle")'
<1>1. CASE entries = {}
  <2>1. PICK q \in {[step |-> "unlock"], Idle} : run' = [run EXCEPT ![p] = q] /\ (p \in Servers => q.step # "idle")
    BY <1>1 DEF Renews, Go, Idle
  <2>2. q \in RequestType /\ q.step \in {"idle", "unlock"} /\ (p \in Clients => q.step # "unlock")
    BY <1>1, <2>1 DEF RequestType, Idle, Renews, Go, OnLists
  <2>3. run' \in [Requests -> RequestType] /\ run'[p] = q /\ \A r \in Requests \ {p} : run'[r] = run[r]
    BY <2>1, <2>2 DEF OnLists
  <2>4. Todo(p)' = {} /\ (OneEach(p) /\ ListsSay(p) /\ Works(p))'
    BY <2>2, <2>3 DEF Todo, OneEach, ListsSay, Works, Acting, Listing
  <2> QED
    BY <1>1, <2>1, <2>3, <2>4, OtherLists DEF OnLists, At
<1>2. CASE entries # {}
  <2>1. PICK e \in entries : run' = [run EXCEPT ![p] = [step |-> "renew", cur |-> e, rest |-> entries \ {e}]]
    BY <1>2 DEF Renews, Go
  <2>2. [step |-> "renew", cur |-> e, rest |-> entries \ {e}] \in RequestType
    BY DEF RequestType
  <2>3. /\ run' \in [Requests -> RequestType] /\ \A r \in Requests \ {p} : run'[r] = run[r]
        /\ run'[p].step = "renew" /\ run'[p].cur = e /\ run'[p].rest = entries \ {e}
    BY <2>1, <2>2 DEF OnLists
  <2>4. Todo(p)' = entries
    BY <2>3 DEF Todo, Acting, Listing
  <2>5. OneEach(p)' /\ ListsSay(p)' /\ Works(p)'
    <3>1. OneEach(p)'
      BY <2>3, <2>4 DEF OneEach
    <3>2. ListsSay(p)'
      BY <2>4 DEF ListsSay, DueRow, Passed
    <3>3. Works(p)'
      BY <2>3 DEF Works
    <3> QED
      BY <3>1, <3>2, <3>3
  <2> QED
    BY <2>3, <2>4, <2>5, OtherLists DEF OnLists, At
<1> QED
  BY <1>1, <1>2

\* A step to a later place in the same list.
LEMMA StepLists ==
  ASSUME OnLists, now' = now, NEW p \in Requests, run[p].step \in Listing, NEW to \in Listing,
         Go(p, [run[p] EXCEPT !.step = to]),
         to \in Acting => run[p].step \in Acting,
         p \in Clients => to \notin Acting
  PROVE  /\ OnLists' /\ Todo(p)' \subseteq Todo(p)
         /\ to \in {"balance", "alert"} => Todo(p)' = run[p].rest
         /\ \A q \in Requests \ {p} : run'[q] = run[q]
         /\ ~At(p, "idle")'
<1>1. /\ run'[p] = [run[p] EXCEPT !.step = to] /\ \A r \in Requests \ {p} : run'[r] = run[r]
      /\ run' = [run EXCEPT ![p] = [run[p] EXCEPT !.step = to]]
  BY DEF Go, OnLists
<1>2. /\ [run[p] EXCEPT !.step = to] \in RequestType
      /\ run'[p].step = to /\ run'[p].cur = run[p].cur /\ run'[p].rest = run[p].rest
  <2>1. run[p] \in [step : Listing, cur : Entry, rest : SUBSET Entry]
    BY ActingFields DEF OnLists
  <2> QED
    BY <1>1, <2>1 DEF RequestType, Listing
<1>3. run' \in [Requests -> RequestType]
  BY <1>1, <1>2 DEF OnLists
<1>4. Todo(p)' \subseteq Todo(p) /\ (to \in {"balance", "alert"} => Todo(p)' = run[p].rest)
  BY <1>2 DEF Todo, Acting, Listing
<1>5. OneEach(p)' /\ ListsSay(p)' /\ Works(p)'
  <2>1. OneEach(p)'
    BY <1>2, <1>4 DEF OneEach, OnLists
  <2>2. ListsSay(p)'
    BY <1>4 DEF ListsSay, DueRow, Passed, OnLists
  <2>3. Works(p)'
    BY <1>2 DEF Works, OnLists, Acting, Listing
  <2> QED
    BY <2>1, <2>2, <2>3
<1> QED
  BY <1>1, <1>2, <1>3, <1>4, <1>5, OtherLists DEF OnLists, At, Listing
\* Who only goes on in a list, while no row changes.
LEMMA DueKept ==
  ASSUME DueOnLists, acc' = acc, changes' = changes, now' = now, NEW p,
         Todo(p)' \subseteq Todo(p), \A q \in Requests \ {p} : run'[q] = run[q]
  PROVE  DueOnLists'
<1>1. \A q \in Requests \ {p} : Todo(q)' = Todo(q)
  BY OtherLists
<1> QED
  BY <1>1 DEF DueOnLists, DueRow, Passed

\* Who changes the row of the account it works on: no server has that account on its list
\* besides, and for a payment the account is not due after it.
LEMMA DueActed ==
  ASSUME ListsInv, ~overran, NEW p \in Requests, run[p].step \in Acting, NEW r,
         changes' = changes, now' = now,
         acc' = [acc EXCEPT ![run[p].cur.tenant] = r],
         p \in Clients => ~DueRow(r),
         Todo(p)' \subseteq run[p].rest, \A q \in Requests \ {p} : run'[q] = run[q]
  PROVE  DueOnLists'
<1> DEFINE t == run[p].cur.tenant
<1>1. run[p].cur \in Entry /\ t \in Tenants /\ acc \in [Tenants -> Row]
  BY ActingFields, EntryFields DEF ListsInv, OnLists, Acting, Listing, RowsTyped
<1>2. SUFFICES ASSUME NEW q \in Requests, NEW e \in Todo(q)', changes[e.tenant] = 0
               PROVE  DueRow(acc'[e.tenant]) <=> q \in Servers
  BY DEF DueOnLists, DueRow, Passed
<1>3. e \in Todo(q) /\ (q = p => e \in run[p].rest)
  BY <1>2, OtherLists DEF Todo, Acting, Listing
<1>4. e.tenant \in Tenants
  BY <1>3, TodoTyped, EntryFields DEF ListsInv
<1>5. run[p].cur \in Todo(p)
  BY DEF Todo
<1>6. CASE e.tenant # t
  BY <1>1, <1>2, <1>3, <1>4, <1>6 DEF ListsInv, DueOnLists
<1>7. CASE e.tenant = t
  <2>1. q # p
    <3>1. SUFFICES ASSUME q = p PROVE FALSE
      OBVIOUS
    <3>2. e = run[p].cur
      BY <1>3, <1>5, <1>7, <3>1 DEF ListsInv, OnLists, OneEach
    <3> QED
      BY <1>3, <3>1, <3>2 DEF ListsInv, OnLists, OneEach
  <2>2. (q \in Servers <=> DueRow(acc[t])) /\ (p \in Servers <=> DueRow(acc[t]))
    BY <1>2, <1>3, <1>5, <1>7 DEF ListsInv, DueOnLists
  <2>3. ~(p \in Servers /\ q \in Servers)
    <3>1. ~At(p, "idle") /\ ~At(q, "idle")
      BY <1>3 DEF At, Todo, Acting, Listing
    <3> QED
      BY <2>1, <3>1 DEF ListsInv, Mutex
  <2>4. acc'[t] = r
    BY <1>1
  <2> QED
    BY <1>7, <2>2, <2>3, <2>4
<1> QED
  BY <1>6, <1>7

\* The lock stays with a server that does not end its run.
LEMMA MutexKept ==
  ASSUME ListsInv, ~overran, NEW p \in Requests, ~At(p, "idle"), UNCHANGED <<lock, overran>>,
         \A q \in Requests \ {p} : run'[q] = run[q]
  PROVE  Mutex'
BY DEF ListsInv, Mutex, At

LEMMA RowsKept ==
  ASSUME RowsTyped, acc' = acc, now' = now, changes' = changes, UNCHANGED <<lock, overran>>
  PROVE  RowsTyped'
BY DEF RowsTyped

LEMMA RowSet ==
  ASSUME RowsTyped, now' = now, changes' = changes, UNCHANGED <<lock, overran>>, NEW t \in Tenants, NEW r \in Row,
         acc' = [acc EXCEPT ![t] = r]
  PROVE  RowsTyped'
BY DEF RowsTyped

LEMMA RenewedLists ==
  ASSUME ListsInv, NEW p \in Requests, Renewed(p) PROVE ListsInv'
<1> DEFINE t == run[p].cur.tenant
           d == NextDate(run[p].cur.row)
           r == [acc[t] EXCEPT !.status = "ACTIVE", !.renewsAt = d]
<1>1. /\ run[p].step = "renew" /\ Go(p, [run[p] EXCEPT !.step = "balance"])
      /\ acc' = [acc EXCEPT ![t].status = "ACTIVE", ![t].renewsAt = d]
      /\ UNCHANGED <<lock, overran>> /\ now' = now /\ changes' = changes
  BY DEF Renewed, At
<1>2. run[p].cur \in Entry /\ run[p].cur \in Todo(p) /\ t \in Tenants /\ run[p].cur.row \in Row
  <2>1. run[p].cur \in Entry
    BY <1>1, ActingFields DEF ListsInv, OnLists, Listing
  <2> QED
    BY <1>1, <2>1, EntryFields DEF Todo, Acting
<1>3. d \in 1..(now + 1) /\ (p \in Clients => d = now + 1)
  <2>1. now \in 0..Months /\ Never = -1
    BY DEF ListsInv, RowsTyped, Never
  <2>2. run[p].cur.row.status = "SUSPENDED" \/ DueRow(run[p].cur.row)
    BY <1>2 DEF ListsInv, OnLists, ListsSay
  <2>3. p \in Clients => run[p].cur.row.status = "SUSPENDED"
    BY <1>1 DEF ListsInv, OnLists, Works
  <2>4. run[p].cur.row.renewsAt \in Dates
    BY <1>2 DEF Row
  <2> QED
    BY <2>1, <2>2, <2>3, <2>4 DEF NextDate, DueRow, Passed, Dates
<1>4. acc[t] \in Row /\ acc' = [acc EXCEPT ![t] = r]
  BY <1>1, <1>2 DEF ListsInv, RowsTyped
<1>5. r \in Row /\ r.status = "ACTIVE" /\ r.renewsAt = d /\ r.trialEndsAt = acc[t].trialEndsAt
  <2>1. d \in Dates
    BY <1>3 DEF Dates, ListsInv, RowsTyped
  <2> QED
    BY <1>4, <2>1 DEF Row
<1>6. RowsTyped'
  <2> HIDE DEF d, r, t
  <2> QED
    BY <1>1, <1>2, <1>4, <1>5, RowSet DEF ListsInv
<1>7. /\ OnLists' /\ Todo(p)' = run[p].rest /\ \A q \in Requests \ {p} : run'[q] = run[q]
  BY <1>1, StepLists DEF ListsInv, Listing, Acting
<1>8. p \in Clients => ~DueRow(r)
  BY <1>3, <1>5 DEF DueRow, Passed, ListsInv, RowsTyped
<1>9. ASSUME ~overran PROVE DueOnLists'
  <2> HIDE DEF r
  <2> QED
    BY <1>1, <1>4, <1>7, <1>8, <1>9, DueActed DEF Acting
<1>10. ASSUME ~overran PROVE Mutex'
  BY <1>1, <1>7, <1>10, MutexKept DEF At
<1> QED
  BY <1>1, <1>6, <1>7, <1>9, <1>10 DEF ListsInv

\* What is left of a list may be gone on with.
LEMMA RestFine ==
  ASSUME ListsInv, NEW p \in Requests, run[p].step \in Listing
  PROVE  /\ run[p].rest \in SUBSET Entry /\ run[p].rest \subseteq Todo(p)
         /\ \A e, f \in run[p].rest : e.tenant = f.tenant => e = f
         /\ \A e \in run[p].rest : e.row.status = "SUSPENDED" \/ DueRow(e.row)
         /\ p \in Clients => run[p].rest = {}
<1>1. run[p].rest \in SUBSET Entry /\ run[p].rest \subseteq Todo(p)
  BY ActingFields DEF ListsInv, OnLists, Todo
<1> QED
  BY <1>1 DEF ListsInv, OnLists, OneEach, ListsSay, Works

LEMMA GoOnLists ==
  ASSUME ListsInv, NEW p \in Requests, run[p].step \in Listing, Renews(p, run[p].rest),
         acc' = acc, UNCHANGED <<lock, overran>>, now' = now, changes' = changes
  PROVE  ListsInv'
<1>1. /\ OnLists' /\ Todo(p)' = run[p].rest /\ \A q \in Requests \ {p} : run'[q] = run[q]
  BY RestFine, RenewsLists DEF ListsInv
<1>2. ASSUME ~overran PROVE DueOnLists'
  BY <1>2, <1>1, RestFine, DueKept DEF ListsInv
<1>3. ASSUME ~overran PROVE Mutex'
  BY <1>3, <1>1, MutexKept DEF At, Listing
<1> QED
  BY <1>1, <1>2, <1>3, RowsKept DEF ListsInv

LEMMA StepOnLists ==
  ASSUME ListsInv, NEW p \in Requests, run[p].step \in Listing, NEW to \in Listing,
         Go(p, [run[p] EXCEPT !.step = to]),
         to \in Acting => run[p].step \in Acting,
         p \in Clients => to \notin Acting,
         acc' = acc, UNCHANGED <<lock, overran>>, now' = now, changes' = changes
  PROVE  ListsInv'
<1>1. /\ OnLists' /\ Todo(p)' \subseteq Todo(p) /\ \A q \in Requests \ {p} : run'[q] = run[q]
  BY StepLists DEF ListsInv
<1>2. ASSUME ~overran PROVE DueOnLists'
  BY <1>2, <1>1, DueKept DEF ListsInv
<1>3. ASSUME ~overran PROVE Mutex'
  BY <1>3, <1>1, MutexKept DEF At, Listing
<1> QED
  BY <1>1, <1>2, <1>3, RowsKept DEF ListsInv

LEMMA CannotPayLists ==
  ASSUME ListsInv, NEW p \in Requests, CannotPay(p) PROVE ListsInv'
<1>1. run[p].step = "renew" /\ acc' = acc /\ UNCHANGED <<lock, overran>> /\ now' = now /\ changes' = changes
  BY DEF CannotPay, At
<1>2. CASE run[p].cur.row.status = "SUSPENDED"
  BY <1>1, <1>2, GoOnLists DEF CannotPay, Listing
<1>3. CASE run[p].cur.row.status # "SUSPENDED"
  <2>1. p \notin Clients
    BY <1>1, <1>3 DEF ListsInv, OnLists, Works
  <2> QED
    BY <1>1, <1>3, <2>1, StepOnLists DEF CannotPay, Listing, Acting
<1> QED
  BY <1>2, <1>3

LEMMA SuspendLists ==
  ASSUME ListsInv, NEW p \in Requests, Suspend(p) PROVE ListsInv'
<1> DEFINE t == run[p].cur.tenant
           d == IF run[p].cur.row.renewsAt = Never THEN now ELSE run[p].cur.row.renewsAt
           r == [acc[t] EXCEPT !.status = "SUSPENDED", !.renewsAt = d]
<1>1. /\ run[p].step = "suspend" /\ Renews(p, run[p].rest)
      /\ acc' = [acc EXCEPT ![t].status = "SUSPENDED", ![t].renewsAt = d]
      /\ UNCHANGED <<lock, overran>> /\ now' = now /\ changes' = changes
  BY DEF Suspend, At
<1>2. run[p].cur \in Entry /\ t \in Tenants /\ run[p].cur.row \in Row
  BY <1>1, ActingFields, EntryFields DEF ListsInv, OnLists, Listing
<1>3. acc[t] \in Row /\ acc' = [acc EXCEPT ![t] = r]
  BY <1>1, <1>2 DEF ListsInv, RowsTyped
<1>4. d \in Dates
  BY <1>2 DEF Row, Dates, ListsInv, RowsTyped
<1>5. r \in Row /\ r.status = "SUSPENDED"
  BY <1>3, <1>4 DEF Row
<1>6. RowsTyped'
  <2> HIDE DEF r, t
  <2> QED
    BY <1>1, <1>2, <1>3, <1>5, RowSet DEF ListsInv
<1>7. /\ OnLists' /\ Todo(p)' = run[p].rest /\ \A q \in Requests \ {p} : run'[q] = run[q]
  BY <1>1, RestFine, RenewsLists DEF ListsInv, Listing
<1>8. ~DueRow(r)
  BY <1>5 DEF DueRow
<1>9. ASSUME ~overran PROVE DueOnLists'
  <2> HIDE DEF r
  <2> QED
    BY <1>1, <1>3, <1>7, <1>8, <1>9, DueActed DEF Acting
<1>10. ASSUME ~overran PROVE Mutex'
  BY <1>1, <1>7, <1>10, MutexKept DEF At
<1> QED
  BY <1>1, <1>6, <1>7, <1>9, <1>10 DEF ListsInv

LEMMA ReadBalanceLists ==
  ASSUME ListsInv, NEW p \in Requests, ReadBalance(p) PROVE ListsInv'
<1>1. run[p].step = "balance" /\ acc' = acc /\ UNCHANGED <<lock, overran>> /\ now' = now /\ changes' = changes
  BY DEF ReadBalance, At
<1>2. Renews(p, run[p].rest) \/ Go(p, [run[p] EXCEPT !.step = "alert"])
  BY DEF ReadBalance
<1> QED
  BY <1>1, <1>2, GoOnLists, StepOnLists DEF Listing, Acting

LEMMA AlertLists ==
  ASSUME ListsInv, NEW p \in Requests, Alert(p) PROVE ListsInv'
BY GoOnLists DEF Alert, At, Listing

\* A request that had no list yet takes up one whose accounts are as it wants them.
LEMMA NewList ==
  ASSUME ListsInv, NEW p \in Requests, ~At(p, "idle"), NEW entries \in SUBSET Entry, Renews(p, entries),
         \A e, f \in entries : e.tenant = f.tenant => e = f,
         \A e \in entries : e.row.status = "SUSPENDED" \/ DueRow(e.row),
         p \in Clients => \A e, f \in entries : e = f /\ e.row.status = "SUSPENDED",
         now' = now, changes' = changes, UNCHANGED <<lock, overran>>, acc' \in [Tenants -> Row],
         \A t \in Tenants : DueRow(acc'[t]) <=> DueRow(acc[t]),
         \A e \in entries : DueRow(acc[e.tenant]) <=> p \in Servers
  PROVE  ListsInv'
<1>1. OnLists' /\ Todo(p)' = entries /\ \A q \in Requests \ {p} : run'[q] = run[q]
  BY RenewsLists DEF ListsInv
<1>2. ASSUME ~overran PROVE DueOnLists'
  <2>1. SUFFICES ASSUME NEW q \in Requests, NEW e \in Todo(q)', changes[e.tenant] = 0
                 PROVE  DueRow(acc'[e.tenant]) <=> q \in Servers
    BY DEF DueOnLists, DueRow, Passed
  <2>2. CASE q = p
    BY <1>1, <2>1, <2>2, EntryFields
  <2>3. CASE q # p
    <3>1. e \in Todo(q)
      BY <1>1, <2>1, <2>3, OtherLists
    <3>2. e.tenant \in Tenants
      BY <3>1, TodoTyped, EntryFields DEF ListsInv
    <3> QED
      BY <1>2, <2>1, <3>1, <3>2 DEF ListsInv, DueOnLists
  <2> QED
    BY <2>2, <2>3
<1>3. ASSUME ~overran PROVE Mutex'
  BY <1>3, <1>1, MutexKept
<1>4. RowsTyped'
  BY DEF ListsInv, RowsTyped
<1> QED
  BY <1>1, <1>2, <1>3, <1>4 DEF ListsInv

\* A date that was not set is set to the next month: it has not passed.
LEMMA BackfilledRow ==
  ASSUME NEW r \in Row, now \in 0..Months
  PROVE  Backfilled(r) \in Row /\ (DueRow(Backfilled(r)) <=> DueRow(r))
<1> DEFINE d == IF r.status = "TRIAL" /\ r.trialEndsAt = Never THEN now + 1 ELSE r.trialEndsAt
           e == IF r.status = "ACTIVE" /\ r.renewsAt = Never THEN now + 1 ELSE r.renewsAt
<1>1. Backfilled(r) = [r EXCEPT !.trialEndsAt = d, !.renewsAt = e]
  BY DEF Backfilled, Row
<1>2. d \in Dates /\ e \in Dates
  BY DEF Dates, Row
<1>3. /\ Backfilled(r) \in Row /\ Backfilled(r).status = r.status
      /\ Backfilled(r).trialEndsAt = d /\ Backfilled(r).renewsAt = e
  <2> HIDE DEF d, e
  <2> QED
    BY <1>1, <1>2 DEF Row
<1>4. (Passed(d) /\ r.status = "TRIAL" <=> Passed(r.trialEndsAt) /\ r.status = "TRIAL")
      /\ (Passed(e) /\ r.status = "ACTIVE" <=> Passed(r.renewsAt) /\ r.status = "ACTIVE")
  BY DEF Passed, Never
<1> QED
  <2> HIDE DEF d, e
  <2> QED
    BY <1>3, <1>4 DEF DueRow

LEMMA ListLists ==
  ASSUME ListsInv, NEW s \in Servers, List(s) PROVE ListsInv'
<1> DEFINE entries == {Reads(t) : t \in {u \in Tenants : DueRow(acc[u])}}
<1>1. /\ run[s].step = "list" /\ Renews(s, entries)
      /\ acc' = [t \in Tenants |-> Backfilled(acc[t])]
      /\ UNCHANGED <<lock, overran>> /\ now' = now /\ changes' = changes
  BY DEF List, At
<1>2. acc \in [Tenants -> Row] /\ now \in 0..Months
  BY DEF ListsInv, RowsTyped
<1>3. acc' \in [Tenants -> Row] /\ \A t \in Tenants : DueRow(acc'[t]) <=> DueRow(acc[t])
  BY <1>1, <1>2, BackfilledRow
<1>4. /\ entries \in SUBSET Entry
      /\ \A e \in entries : e.tenant \in Tenants /\ e.row = acc[e.tenant] /\ DueRow(acc[e.tenant])
      /\ \A e, f \in entries : e.tenant = f.tenant => e = f
  BY <1>2 DEF Reads, Entry
<1>5. s \notin Clients /\ s \in Requests
  OBVIOUS
<1> HIDE DEF entries
<1> QED
  BY <1>1, <1>3, <1>4, <1>5, NewList DEF At

LEMMA RecheckLists ==
  ASSUME ListsInv, NEW p \in Requests, Recheck(p) PROVE ListsInv'
<1> DEFINE t == run[p].tenant
           entries == IF Reactivates(acc[t]) THEN {Reads(t)} ELSE {}
<1>1. /\ run[p].step = "recheck" /\ Renews(p, entries)
      /\ acc' = acc /\ UNCHANGED <<lock, overran>> /\ now' = now /\ changes' = changes
  BY DEF Recheck, At
<1>2. p \notin Servers /\ t \in Tenants
  BY <1>1, RecheckFields DEF ListsInv, OnLists, Works
<1>3. acc \in [Tenants -> Row]
  BY DEF ListsInv, RowsTyped
<1>4. /\ entries \in SUBSET Entry
      /\ \A e \in entries : e = Reads(t) /\ e.tenant = t /\ e.row = acc[t] /\ acc[t].status = "SUSPENDED"
  BY <1>2, <1>3 DEF Reads, Entry, Reactivates
<1>5. \A e \in entries : ~DueRow(acc[e.tenant])
  BY <1>4 DEF DueRow
<1> HIDE DEF entries
<1> QED
  BY <1>1, <1>2, <1>3, <1>4, <1>5, NewList DEF At
\* A request without a list: it comes, goes or stops.
LEMMA EmptyList ==
  ASSUME ListsInv, NEW p \in Requests, NEW q \in RequestType, run' = [run EXCEPT ![p] = q],
         q.step \in {"idle", "list", "recheck"} \/ (q.step = "balance" /\ q.rest = {}),
         p \in Servers => q.step # "recheck",
         p \in Clients => q.step # "list",
         now' = now, changes' = changes, acc' = acc
  PROVE  OnLists' /\ (~overran => DueOnLists') /\ \A r \in Requests \ {p} : run'[r] = run[r]
<1>1. run' \in [Requests -> RequestType] /\ run'[p] = q /\ \A r \in Requests \ {p} : run'[r] = run[r]
  BY DEF ListsInv, OnLists
<1>2. Todo(p)' = {}
  BY <1>1 DEF Todo, Acting, Listing
<1>3. OneEach(p)' /\ ListsSay(p)' /\ Works(p)'
  BY <1>1, <1>2 DEF OneEach, ListsSay, Works, Acting, Listing
<1>4. ASSUME ~overran PROVE DueOnLists'
  BY <1>4, <1>1, <1>2, DueKept DEF ListsInv
<1> QED
  BY <1>1, <1>3, <1>4, OtherLists DEF ListsInv, OnLists

LEMMA RunRenewalsLists ==
  ASSUME ListsInv, NEW s \in Servers, RunRenewals(s) PROVE ListsInv'
<1>1. /\ lock = Free /\ lock' = s /\ run' = [run EXCEPT ![s] = [step |-> "list"]]
      /\ overran' = (overran /\ StillRenewing)
      /\ acc' = acc /\ now' = now /\ changes' = changes
  BY DEF RunRenewals, LockIsFree, Go
<1>2. [step |-> "list"] \in RequestType /\ s \in Requests /\ s \notin Clients
  BY DEF RequestType
<1>3. OnLists' /\ (~overran => DueOnLists') /\ \A r \in Requests \ {s} : run'[r] = run[r]
  BY <1>1, <1>2, EmptyList
<1>4. ASSUME \A r \in Servers : At(r, "idle") PROVE Mutex'
  BY <1>1, <1>3, <1>4 DEF Mutex, At
<1>5. ASSUME ~overran PROVE Mutex' /\ DueOnLists'
  <2>1. \A r \in Servers : At(r, "idle")
    BY <1>1, <1>5, FreeAssumption DEF ListsInv, Mutex
  <2> QED
    BY <1>3, <1>4, <1>5, <2>1
<1>6. ASSUME ~StillRenewing PROVE Mutex' /\ DueOnLists'
  <2>1. DOMAIN run = Requests
    BY DEF ListsInv, OnLists
  <2>2. \A r \in Servers : At(r, "idle")
    BY <1>6, <2>1 DEF StillRenewing
  <2>3. \A q \in Clients : ~At(q, "renew")
    BY <1>6, <2>1 DEF StillRenewing, At
  <2>4. \A q \in Requests \ {s} : Todo(q) = {}
    <3>1. SUFFICES ASSUME NEW q \in Requests \ {s} PROVE Todo(q) = {}
      OBVIOUS
    <3>2. CASE q \in Servers
      BY <2>2, <3>2 DEF Todo, At, Acting, Listing
    <3>3. CASE q \in Clients
      BY <2>3, <3>3 DEF ListsInv, OnLists, Works, Todo, At, Acting, Listing
    <3> QED
      BY <3>2, <3>3
  <2>5. Todo(s)' = {}
    <3>1. run'[s].step = "list"
      BY <1>1, <1>2 DEF ListsInv, OnLists
    <3> QED
      BY <3>1 DEF Todo, Acting, Listing
  <2>6. \A q \in Requests \ {s} : Todo(q)' = {}
    BY <1>1, <1>3, <2>4, OtherLists
  <2>7. \A q \in Requests : Todo(q)' = {}
    BY <2>5, <2>6
  <2>8. DueOnLists'
    BY <2>7 DEF DueOnLists
  <2> QED
    BY <1>4, <2>2, <2>8
<1>7. RowsTyped'
  BY <1>1 DEF ListsInv, RowsTyped
<1> QED
  BY <1>1, <1>3, <1>5, <1>6, <1>7 DEF ListsInv

LEMMA UnlockLists ==
  ASSUME ListsInv, NEW p \in Requests, Unlock(p) PROVE ListsInv'
<1>1. /\ run[p].step = "unlock" /\ lock' = Free /\ overran' = overran /\ run' = [run EXCEPT ![p] = Idle]
      /\ acc' = acc /\ now' = now /\ changes' = changes
  BY DEF Unlock, Go, At
<1>2. p \in Servers /\ Idle \in RequestType /\ Idle.step = "idle"
  BY <1>1 DEF ListsInv, OnLists, Works, RequestType, Idle
<1>3. OnLists' /\ (~overran => DueOnLists') /\ \A r \in Requests \ {p} : run'[r] = run[r]
  BY <1>1, <1>2, EmptyList
<1>4. ASSUME ~overran PROVE Mutex'
  <2>1. SUFFICES ASSUME NEW r \in Servers PROVE At(r, "idle")'
    BY DEF Mutex
  <2>2. CASE r = p
    BY <1>1, <1>2, <2>2 DEF At, ListsInv, OnLists
  <2>3. CASE r # p
    BY <1>1, <1>2, <1>3, <1>4, <2>3 DEF At, ListsInv, Mutex
  <2> QED
    BY <2>2, <2>3
<1>5. RowsTyped'
  BY <1>1 DEF ListsInv, RowsTyped
<1> QED
  BY <1>1, <1>3, <1>4, <1>5 DEF ListsInv

LEMMA LockExpiresLists == ASSUME ListsInv, LockExpires PROVE ListsInv'
<1>1. /\ lock # Free /\ overran' = (overran \/ ~At(lock, "idle")) /\ lock' = Free /\ run' = run
      /\ acc' = acc /\ now' = now /\ changes' = changes
  BY DEF LockExpires, Expired
<1>2. ASSUME ~overran, At(lock, "idle") PROVE Mutex'
  BY <1>1, <1>2 DEF ListsInv, Mutex, At
<1>3. OnLists' /\ (~overran => DueOnLists')
  <2>1. \A p : Todo(p)' = Todo(p) /\ (OneEach(p) /\ ListsSay(p) /\ Works(p) => (OneEach(p) /\ ListsSay(p) /\ Works(p))')
    BY <1>1, OtherLists
  <2> QED
    BY <1>1, <2>1 DEF ListsInv, OnLists, DueOnLists, DueRow, Passed
<1>4. RowsTyped'
  BY <1>1 DEF ListsInv, RowsTyped
<1> QED
  BY <1>1, <1>2, <1>3, <1>4 DEF ListsInv

LEMMA CrashLists == ASSUME ListsInv, NEW p \in Requests, Crash(p) PROVE ListsInv'
<1>1. /\ run' = [run EXCEPT ![p] = Idle] /\ UNCHANGED <<lock, overran>> /\ acc' = acc /\ now' = now /\ changes' = changes
  BY DEF Crash, Go
<1>2. Idle \in RequestType /\ Idle.step = "idle"
  BY DEF RequestType, Idle
<1>3. OnLists' /\ (~overran => DueOnLists') /\ \A r \in Requests \ {p} : run'[r] = run[r]
  BY <1>1, <1>2, EmptyList
<1>4. ASSUME ~overran PROVE Mutex'
  BY <1>4, <1>1, <1>2 DEF ListsInv, OnLists, Mutex, At
<1> QED
  BY <1>1, <1>3, <1>4, RowsKept DEF ListsInv

LEMMA PayLists ==
  ASSUME ListsInv, NEW p \in Clients, NEW t \in Tenants, NEW i, Pay(p, t, i) PROVE ListsInv'
<1>1. /\ run' = [run EXCEPT ![p] = [step |-> "recheck", tenant |-> t]]
      /\ UNCHANGED <<lock, overran>> /\ acc' = acc /\ now' = now /\ changes' = changes
  BY DEF Pay, Go
<1>2. [step |-> "recheck", tenant |-> t] \in RequestType /\ p \in Requests /\ p \notin Servers
  BY DEF RequestType
<1>3. OnLists' /\ (~overran => DueOnLists') /\ \A r \in Requests \ {p} : run'[r] = run[r]
  BY <1>1, <1>2, EmptyList
<1>4. ASSUME ~overran PROVE Mutex'
  BY <1>4, <1>1, <1>2, <1>3 DEF ListsInv, Mutex, At
<1> QED
  BY <1>1, <1>3, <1>4, RowsKept DEF ListsInv

LEMMA CallEndsLists ==
  ASSUME ListsInv, NEW p \in Clients, NEW t \in Tenants, CallEnds(p, t) PROVE ListsInv'
<1> DEFINE q == [step |-> "balance", cur |-> Reads(t), rest |-> {}]
<1>1. /\ run' = [run EXCEPT ![p] = q] /\ UNCHANGED <<lock, overran>> /\ acc' = acc /\ now' = now /\ changes' = changes
  BY DEF CallEnds, Go
<1>2. q \in RequestType /\ q.step = "balance" /\ q.rest = {} /\ p \in Requests /\ p \notin Servers
  <2>1. Reads(t) \in Entry
    BY DEF Reads, Entry, ListsInv, RowsTyped
  <2> QED
    BY <2>1 DEF RequestType
<1>3. OnLists' /\ (~overran => DueOnLists') /\ \A r \in Requests \ {p} : run'[r] = run[r]
  <2> HIDE DEF q
  <2> QED
    BY <1>1, <1>2, EmptyList
<1>4. ASSUME ~overran PROVE Mutex'
  BY <1>4, <1>1, <1>2, <1>3 DEF ListsInv, Mutex, At
<1> QED
  BY <1>1, <1>3, <1>4, RowsKept DEF ListsInv

\* What the administrator does to an account is no promise of ChargedWhenDue any more.
LEMMA ChangesLists ==
  ASSUME ListsInv, NEW t \in Tenants, NEW r \in Row, Changes(t, r) PROVE ListsInv'
<1>1. /\ changes[t] < MaxChanges /\ changes' = [changes EXCEPT ![t] = @ + 1]
      /\ acc' = [acc EXCEPT ![t] = r] /\ run' = run /\ UNCHANGED <<lock, overran>> /\ now' = now
  BY DEF Changes
<1>2. RowsTyped'
  BY <1>1 DEF ListsInv, RowsTyped
<1>3. \A p : Todo(p)' = Todo(p) /\ (OneEach(p) /\ ListsSay(p) /\ Works(p) => (OneEach(p) /\ ListsSay(p) /\ Works(p))')
  BY <1>1, OtherLists
<1>4. OnLists'
  BY <1>1, <1>3 DEF ListsInv, OnLists
<1>5. ASSUME ~overran PROVE DueOnLists'
  <2>1. SUFFICES ASSUME NEW p \in Requests, NEW e \in Todo(p), changes'[e.tenant] = 0
                 PROVE  DueRow(acc'[e.tenant]) <=> p \in Servers
    BY <1>1, <1>3 DEF DueOnLists, DueRow, Passed
  <2>2. e.tenant \in Tenants
    BY TodoTyped, EntryFields DEF ListsInv
  <2>3. e.tenant # t
    BY <1>1, <2>1 DEF ListsInv, RowsTyped
  <2> QED
    BY <1>1, <1>5, <2>1, <2>2, <2>3 DEF ListsInv, RowsTyped, DueOnLists
<1>6. ASSUME ~overran PROVE Mutex'
  BY <1>6, <1>1 DEF ListsInv, Mutex, At
<1> QED
  BY <1>1, <1>2, <1>4, <1>5, <1>6 DEF ListsInv

LEMMA AdministratorLists ==
  ASSUME ListsInv, NEW t \in Tenants,
         AdminSuspends(t) \/ AdminActivates(t) \/ AdminGrantsTrial(t) \/ Close(t)
  PROVE  ListsInv'
<1>1. acc[t] \in Row /\ now + 1 \in Dates /\ Never \in Dates
  BY DEF ListsInv, RowsTyped, Dates
<1>2. \A d \in Dates, b \in BOOLEAN :
        /\ [acc[t] EXCEPT !.status = "SUSPENDED", !.reason = b] \in Row
        /\ [acc[t] EXCEPT !.status = "ACTIVE", !.reason = b, !.renewsAt = d] \in Row
        /\ [acc[t] EXCEPT !.status = "TRIAL", !.reason = b, !.trialEndsAt = d] \in Row
        /\ [acc[t] EXCEPT !.status = "CLOSED", !.reason = b, !.renewsAt = d] \in Row
  BY <1>1 DEF Row
<1>3. acc[t].renewsAt \in Dates /\ acc[t].trialEndsAt \in Dates
  BY <1>1 DEF Row
<1>4. CASE AdminSuspends(t)
  BY <1>1, <1>2, <1>4, ChangesLists DEF AdminSuspends
<1>5. CASE AdminActivates(t)
  <2>1. PICK d \in Dates : Changes(t, [acc[t] EXCEPT !.status = "ACTIVE", !.reason = FALSE, !.renewsAt = d])
    BY <1>1, <1>3, <1>5 DEF AdminActivates, Row
  <2> QED
    BY <1>2, <2>1, ChangesLists
<1>6. CASE AdminGrantsTrial(t)
  <2>1. PICK d \in Dates : Changes(t, [acc[t] EXCEPT !.status = "TRIAL", !.reason = FALSE, !.trialEndsAt = d])
    BY <1>1, <1>3, <1>6 DEF AdminGrantsTrial, Row
  <2> QED
    BY <1>2, <2>1, ChangesLists
<1>7. CASE Close(t)
  BY <1>1, <1>2, <1>7, ChangesLists DEF Close
<1> QED
  BY <1>4, <1>5, <1>6, <1>7

LEMMA TickLists == ASSUME ListsInv, Tick PROVE ListsInv'
<1>1. /\ now < Months /\ now' = now + 1 /\ \A p \in Requests : At(p, "idle")
      /\ run' = run /\ UNCHANGED <<lock, overran>> /\ acc' = acc /\ changes' = changes
  BY DEF Tick, ListsInv, OnLists
<1>2. \A p \in Requests : Todo(p)' = {}
  BY <1>1 DEF Todo, At, Acting, Listing
<1>3. OnLists'
  BY <1>1, <1>2 DEF ListsInv, OnLists, OneEach, ListsSay, Works, At, Acting
<1>4. RowsTyped' /\ DueOnLists' /\ Mutex'
  BY <1>1, <1>2 DEF ListsInv, RowsTyped, DueOnLists, Mutex, At
<1> QED
  BY <1>3, <1>4 DEF ListsInv

LEMMA InitLists == Init => ListsInv
<1> SUFFICES ASSUME Init PROVE ListsInv
  OBVIOUS
<1>1. Idle \in RequestType /\ Idle.step = "idle"
  BY DEF Idle, RequestType
<1>2. /\ run \in [Requests -> RequestType]
      /\ \A p \in Requests : run[p].step = "idle" /\ Todo(p) = {}
  <2>1. run = [p \in Requests |-> Idle]
    BY DEF Init
  <2>2. \A p \in Requests : run[p] = Idle
    BY <2>1
  <2> QED
    BY <1>1, <2>1, <2>2 DEF Todo, Acting, Listing
<1>3. OnLists /\ Mutex /\ DueOnLists
  <2>1. \A p \in Requests : OneEach(p) /\ ListsSay(p) /\ Works(p)
    BY <1>2 DEF OneEach, ListsSay, Works, Acting, Listing
  <2>2. Mutex /\ DueOnLists
    BY <1>2 DEF Mutex, DueOnLists, At
  <2> QED
    BY <1>2, <2>1, <2>2 DEF OnLists
<1>4. acc \in [Tenants -> Row]
  <2>1. 1 \in Dates /\ Never \in Dates
    BY DEF Dates
  <2>2. /\ [status |-> "TRIAL", reason |-> FALSE, trialEndsAt |-> 1, renewsAt |-> Never] \in Row
        /\ [status |-> "ACTIVE", reason |-> FALSE, trialEndsAt |-> Never, renewsAt |-> Never] \in Row
    BY <2>1 DEF Row
  <2> QED
    BY <2>2 DEF Init
<1>5. RowsTyped
  <2>1. overran \in BOOLEAN
    BY Zenon DEF Init
  <2>2. now \in 0..Months /\ changes \in [Tenants -> 0..MaxChanges] /\ lock \in Servers \cup {Free}
    BY DEF Init
  <2> QED
    BY <1>4, <2>1, <2>2 DEF RowsTyped
<1> QED
  BY <1>3, <1>5 DEF ListsInv

LEMMA NextLists == ListsInv /\ [Next]_vars => ListsInv'
<1> SUFFICES ASSUME ListsInv, [Next]_vars PROVE ListsInv'
  OBVIOUS
<1>1. CASE \E s \in Servers : RunRenewals(s)
  BY <1>1, RunRenewalsLists
<1>2. ASSUME NEW p \in Requests, Running(p) \/ Crash(p) PROVE ListsInv'
  <2>1. List(p) => p \in Servers
    BY DEF List, At, ListsInv, OnLists, Works
  <2> QED
    BY <1>2, <2>1, RenewedLists, CannotPayLists, SuspendLists, ReadBalanceLists, AlertLists,
       ListLists, UnlockLists, RecheckLists, CrashLists DEF Running
<1>3. CASE \E p \in Clients, t \in Tenants : CallEnds(p, t) \/ \E i \in 1..MaxTopUps : Pay(p, t, i)
  BY <1>3, CallEndsLists, PayLists
<1>4. CASE \E t \in Tenants : AdminSuspends(t) \/ AdminActivates(t) \/ AdminGrantsTrial(t) \/ Close(t)
  BY <1>4, AdministratorLists
<1>5. CASE LockExpires \/ Tick
  BY <1>5, LockExpiresLists, TickLists
<1>6. CASE UNCHANGED vars
  <2>1. run' = run /\ UNCHANGED <<lock, overran>> /\ acc' = acc /\ changes' = changes /\ now' = now
    BY <1>6 DEF vars
  <2>2. \A p : Todo(p)' = Todo(p) /\ (OneEach(p) /\ ListsSay(p) /\ Works(p) => (OneEach(p) /\ ListsSay(p) /\ Works(p))')
    BY <2>1, OtherLists
  <2> QED
    BY <2>1, <2>2 DEF ListsInv, OnLists, Mutex, DueOnLists, RowsTyped, At, DueRow, Passed
<1> QED
  BY <1>1, <1>2, <1>3, <1>4, <1>5, <1>6 DEF Next

LEMMA ListsAlways == Spec => []ListsInv
<1> QED
  BY InitLists, NextLists, PTL DEF Spec

\* As long as no run outlasts the lock, servers that renew, a server that stops while it does
\* and payments that renew too never make the timer charge an account before its date, unless
\* the administrator has changed its status; and it is so again from the first run that begins
\* when what overlapped is done (runRenewals' lock, creditTopup's conditions).
THEOREM TimerIsRight == Spec => []ChargedWhenDue
<1>1. ListsInv => ChargedWhenDue
  BY DEF ListsInv, DueOnLists, ChargedWhenDue, Todo, At, Acting
<1> QED
  BY <1>1, ListsAlways, PTL
-----------------------------------------------------------------------------
(***************************************************************************)
(* The wallet.  The ledger explains the balance: only a renewal, a call    *)
(* and a payment that was not credited before touch either, each both.  An *)
(* alert is counted exactly while the tenant is marked as notified.        *)
(***************************************************************************)

PaidIn(t) == {k \in credited : k[1] = t}

AlertsFollow == \A t \in Tenants : alerts[t] = IF notified[t] THEN 1 ELSE 0

WalletTyped ==
  /\ credited \subseteq Payments
  /\ paid \in [Tenants -> Nat] /\ called \in [Tenants -> 0..MaxCalls]
  /\ alerts \in [Tenants -> Nat] /\ notified \in [Tenants -> BOOLEAN]
  /\ balance \in [Tenants -> Int]
  /\ crashes \in 0..MaxCrashes
  /\ \A t \in Tenants : balance[t] >= -(CallCost * called[t])

WalletInv == WalletTyped /\ MoneyAccounted /\ AlertsFollow

LEMMA PaidInFinite ==
  ASSUME WalletTyped, NEW t \in Tenants
  PROVE  IsFiniteSet(PaidIn(t)) /\ Cardinality(PaidIn(t)) \in Nat
<1>1. IsFiniteSet({t} \X (1..MaxTopUps))
  <2>1. IsFiniteSet({t})
    BY FS_Singleton, Zenon
  <2>2. IsFiniteSet(1..MaxTopUps)
    BY FS_Interval
  <2> QED
    BY <2>1, <2>2, FS_Product
<1>2. PaidIn(t) \subseteq {t} \X (1..MaxTopUps)
  BY DEF WalletTyped, PaidIn, Payments
<1> QED
  BY <1>1, <1>2, FS_Subset, FS_CardinalityType

LEMMA InitWallet == Init => WalletInv
<1> SUFFICES ASSUME Init PROVE WalletInv
  OBVIOUS
<1>1. WalletTyped /\ AlertsFollow
  BY DEF Init, WalletTyped, AlertsFollow
<1>2. \A t \in Tenants : {k \in credited : k[1] = t} = {}
  BY DEF Init
<1>3. MoneyAccounted
  <2> SUFFICES ASSUME NEW t \in Tenants
               PROVE  balance[t] = Start + TopUp * Cardinality({k \in credited : k[1] = t})
                                   - Fee * paid[t] - CallCost * called[t]
    BY DEF MoneyAccounted
  <2>1. Cardinality({k \in credited : k[1] = t}) = 0
    BY <1>2, FS_EmptySet
  <2>2. balance[t] = Start /\ paid[t] = 0 /\ called[t] = 0
    BY DEF Init
  <2> QED
    BY <2>1, <2>2, BillingAssumption
<1> QED
  BY <1>1, <1>3 DEF WalletInv

LEMMA RenewedWallet ==
  ASSUME WalletInv, ListsInv, NEW p \in Requests, Renewed(p) PROVE WalletInv'
<1> DEFINE t == run[p].cur.tenant
<1>1. t \in Tenants
  BY ActingFields, EntryFields DEF Renewed, At, ListsInv, OnLists, Listing
<1>2. /\ balance[t] >= Fee /\ balance' = [balance EXCEPT ![t] = @ - Fee]
      /\ paid' = [paid EXCEPT ![t] = @ + 1]
      /\ called' = called /\ credited' = credited /\ alerts' = alerts /\ notified' = notified
      /\ crashes' = crashes
  BY DEF Renewed, Debit, Funded
<1> HIDE DEF t
<1>3. \A u \in Tenants : CallCost * called[u] \in Nat
  BY DEF WalletInv, WalletTyped
<1>4. WalletTyped'
  BY <1>1, <1>2, <1>3 DEF WalletInv, WalletTyped
<1>5. Fee * (paid[t] + 1) = Fee * paid[t] + Fee
  BY <1>1 DEF WalletInv, WalletTyped
<1>6. MoneyAccounted'
  <2>1. SUFFICES ASSUME NEW u \in Tenants
                 PROVE  balance'[u] = Start + TopUp * Cardinality(PaidIn(u)) - Fee * paid'[u] - CallCost * called[u]
    BY <1>2 DEF MoneyAccounted, PaidIn
  <2>2. balance[u] = Start + TopUp * Cardinality(PaidIn(u)) - Fee * paid[u] - CallCost * called[u]
    BY DEF WalletInv, MoneyAccounted, PaidIn
  <2>3. Cardinality(PaidIn(u)) \in Nat /\ TopUp * Cardinality(PaidIn(u)) \in Nat
    BY PaidInFinite DEF WalletInv
  <2>4. balance[u] \in Int /\ paid[u] \in Nat /\ Fee * paid[u] \in Nat /\ CallCost * called[u] \in Nat
    BY <1>3 DEF WalletInv, WalletTyped
  <2>5. CASE u = t
    BY <1>1, <1>2, <1>5, <2>2, <2>3, <2>4, <2>5 DEF WalletInv, WalletTyped
  <2>6. CASE u # t
    BY <1>2, <2>2, <2>6 DEF WalletInv, WalletTyped
  <2> QED
    BY <2>5, <2>6
<1>7. AlertsFollow'
  BY <1>2 DEF WalletInv, AlertsFollow
<1> QED
  BY <1>4, <1>6, <1>7 DEF WalletInv

LEMMA CallEndsWallet ==
  ASSUME WalletInv, NEW p \in Clients, NEW t \in Tenants, CallEnds(p, t) PROVE WalletInv'
<1>2. /\ called[t] < MaxCalls /\ balance' = [balance EXCEPT ![t] = @ - CallCost]
      /\ called' = [called EXCEPT ![t] = @ + 1]
      /\ paid' = paid /\ credited' = credited /\ alerts' = alerts /\ notified' = notified
      /\ crashes' = crashes
  BY DEF CallEnds, Charge
<1>3. /\ \A u \in Tenants : CallCost * called[u] \in Nat
      /\ CallCost * (called[t] + 1) = CallCost * called[t] + CallCost
  BY DEF WalletInv, WalletTyped
<1>4. WalletTyped'
  BY <1>2, <1>3 DEF WalletInv, WalletTyped
<1>6. MoneyAccounted'
  <2>1. SUFFICES ASSUME NEW u \in Tenants
                 PROVE  balance'[u] = Start + TopUp * Cardinality(PaidIn(u)) - Fee * paid[u] - CallCost * called'[u]
    BY <1>2 DEF MoneyAccounted, PaidIn
  <2>2. balance[u] = Start + TopUp * Cardinality(PaidIn(u)) - Fee * paid[u] - CallCost * called[u]
    BY DEF WalletInv, MoneyAccounted, PaidIn
  <2>3. Cardinality(PaidIn(u)) \in Nat /\ TopUp * Cardinality(PaidIn(u)) \in Nat
    BY PaidInFinite DEF WalletInv
  <2>4. balance[u] \in Int /\ paid[u] \in Nat /\ Fee * paid[u] \in Nat /\ CallCost * called[u] \in Nat
    BY <1>3 DEF WalletInv, WalletTyped
  <2>5. CASE u = t
    BY <1>2, <1>3, <2>2, <2>3, <2>4, <2>5 DEF WalletInv, WalletTyped
  <2>6. CASE u # t
    BY <1>2, <2>2, <2>6 DEF WalletInv, WalletTyped
  <2> QED
    BY <2>5, <2>6
<1>7. AlertsFollow'
  BY <1>2 DEF WalletInv, AlertsFollow
<1> QED
  BY <1>4, <1>6, <1>7 DEF WalletInv

LEMMA PayWallet ==
  ASSUME WalletInv, NEW p \in Clients, NEW t \in Tenants, NEW i \in 1..MaxTopUps, Pay(p, t, i)
  PROVE  WalletInv'
<1>2. /\ <<t, i>> \notin credited /\ credited' = credited \cup {<<t, i>>}
      /\ balance' = [balance EXCEPT ![t] = @ + TopUp]
      /\ notified' = [notified EXCEPT ![t] = @ /\ balance[t] + TopUp < Threshold]
      /\ alerts' = [alerts EXCEPT ![t] = IF notified'[t] THEN @ ELSE 0]
      /\ paid' = paid /\ called' = called /\ crashes' = crashes
  BY DEF Pay, Credit, IsCredited
<1>3. \A u \in Tenants : CallCost * called[u] \in Nat
  BY DEF WalletInv, WalletTyped
<1>4. WalletTyped'
  <2>1. credited' \subseteq Payments
    BY <1>2 DEF WalletInv, WalletTyped, Payments
  <2>2. notified' \in [Tenants -> BOOLEAN] /\ alerts' \in [Tenants -> Nat]
    BY <1>2 DEF WalletInv, WalletTyped
  <2>3. balance' \in [Tenants -> Int] /\ \A u \in Tenants : balance'[u] >= balance[u]
    BY <1>2 DEF WalletInv, WalletTyped
  <2> QED
    BY <1>2, <1>3, <2>1, <2>2, <2>3 DEF WalletInv, WalletTyped
<1>6. MoneyAccounted'
  <2>1. SUFFICES ASSUME NEW u \in Tenants
                 PROVE  balance'[u] = Start + TopUp * Cardinality(PaidIn(u)') - Fee * paid[u] - CallCost * called[u]
    BY <1>2 DEF MoneyAccounted, PaidIn
  <2>2. balance[u] = Start + TopUp * Cardinality(PaidIn(u)) - Fee * paid[u] - CallCost * called[u]
    BY DEF WalletInv, MoneyAccounted, PaidIn
  <2>3. /\ IsFiniteSet(PaidIn(u)) /\ Cardinality(PaidIn(u)) \in Nat
        /\ TopUp * Cardinality(PaidIn(u)) \in Nat
        /\ TopUp * (Cardinality(PaidIn(u)) + 1) = TopUp * Cardinality(PaidIn(u)) + TopUp
    BY PaidInFinite DEF WalletInv
  <2>4. balance[u] \in Int /\ paid[u] \in Nat /\ Fee * paid[u] \in Nat /\ CallCost * called[u] \in Nat
    BY <1>3 DEF WalletInv, WalletTyped
  <2>5. CASE u = t
    <3>1. PaidIn(u)' = PaidIn(u) \cup {<<t, i>>} /\ <<t, i>> \notin PaidIn(u)
      BY <1>2, <2>5 DEF PaidIn
    <3>2. Cardinality(PaidIn(u)') = Cardinality(PaidIn(u)) + 1
      BY <2>3, <3>1, FS_AddElement
    <3>3. balance'[u] = balance[u] + TopUp
      BY <1>2, <2>5 DEF WalletInv, WalletTyped
    <3> QED
      BY <2>2, <2>3, <2>4, <3>2, <3>3
  <2>6. CASE u # t
    <3>1. PaidIn(u)' = PaidIn(u)
      BY <1>2, <2>6 DEF PaidIn
    <3>2. balance'[u] = balance[u]
      BY <1>2, <2>6 DEF WalletInv, WalletTyped
    <3> QED
      BY <2>2, <3>1, <3>2
  <2> QED
    BY <2>5, <2>6
<1>7. AlertsFollow'
  BY <1>2 DEF WalletInv, WalletTyped, AlertsFollow
<1> QED
  BY <1>4, <1>6, <1>7 DEF WalletInv

LEMMA AlertWallet ==
  ASSUME WalletInv, ListsInv, NEW p \in Requests, Alert(p) PROVE WalletInv'
<1> DEFINE t == run[p].cur.tenant
<1>0. t \in Tenants
  BY ActingFields, EntryFields DEF Alert, At, ListsInv, OnLists, Listing
<1>1. /\ \/ ~notified[t] /\ notified' = [notified EXCEPT ![t] = TRUE] /\ alerts' = [alerts EXCEPT ![t] = @ + 1]
         \/ UNCHANGED <<notified, alerts>>
      /\ paid' = paid /\ called' = called /\ crashes' = crashes /\ credited' = credited /\ balance' = balance
  BY DEF Alert, Unclaimed
<1> HIDE DEF t
<1>2. WalletTyped'
  <2>1. alerts' \in [Tenants -> Nat]
    BY <1>0, <1>1 DEF WalletInv, WalletTyped
  <2>2. notified' \in [Tenants -> BOOLEAN]
    BY <1>0, <1>1 DEF WalletInv, WalletTyped
  <2> QED
    BY <1>1, <2>1, <2>2 DEF WalletInv, WalletTyped
<1>4. AlertsFollow'
  BY <1>0, <1>1 DEF WalletInv, WalletTyped, AlertsFollow
<1>3. MoneyAccounted'
  BY <1>1 DEF WalletInv, MoneyAccounted
<1> QED
  BY <1>2, <1>3, <1>4 DEF WalletInv

LEMMA SameWallet ==
  ASSUME WalletInv, paid' = paid, called' = called, credited' = credited, wallet' = wallet,
         alerts' = alerts, crashes' \in 0..MaxCrashes
  PROVE  WalletInv'
BY DEF WalletInv, WalletTyped, MoneyAccounted, AlertsFollow, wallet

LEMMA NextWallet == WalletInv /\ ListsInv /\ [Next]_vars => WalletInv'
<1> SUFFICES ASSUME WalletInv, ListsInv, [Next]_vars PROVE WalletInv'
  OBVIOUS
<1>0. crashes \in 0..MaxCrashes
  BY DEF WalletInv, WalletTyped
<1>1. CASE UNCHANGED <<paid, called, credited, wallet, alerts, crashes>>
  BY <1>0, <1>1, SameWallet
<1>2. ASSUME NEW p \in Requests, Running(p) \/ Crash(p) PROVE WalletInv'
  <2>1. CASE CannotPay(p) \/ Suspend(p) \/ ReadBalance(p) \/ List(p) \/ Unlock(p) \/ Recheck(p)
    BY <1>1, <2>1 DEF CannotPay, Suspend, ReadBalance, List, Unlock, Recheck
  <2>2. CASE Crash(p)
    BY <1>0, <2>2, SameWallet DEF Crash
  <2> QED
    BY <1>2, <2>1, <2>2, RenewedWallet, AlertWallet DEF Running
<1>3. CASE \E p \in Clients, t \in Tenants : CallEnds(p, t) \/ \E i \in 1..MaxTopUps : Pay(p, t, i)
  BY <1>3, CallEndsWallet, PayWallet
<1>4. CASE \E t \in Tenants : AdminSuspends(t) \/ AdminActivates(t) \/ AdminGrantsTrial(t) \/ Close(t)
  BY <1>1, <1>4 DEF AdminSuspends, AdminActivates, AdminGrantsTrial, Close, Changes
<1>5. CASE LockExpires \/ Tick \/ UNCHANGED vars \/ \E s \in Servers : RunRenewals(s)
  BY <1>1, <1>5 DEF LockExpires, Tick, vars, RunRenewals
<1> QED
  BY <1>2, <1>3, <1>4, <1>5 DEF Next

LEMMA WalletAlways == Spec => [](ListsInv /\ WalletInv)
<1> QED
  BY InitLists, NextLists, InitWallet, NextWallet, PTL DEF Spec

\* Every variable stays in its type; only calls take a wallet below zero (debit), however
\* many renewals run at once.
THEOREM BillingTyped == Spec => []TypeOK
<1>1. ListsInv /\ WalletInv => TypeOK
  BY DEF ListsInv, RowsTyped, OnLists, WalletInv, WalletTyped, TypeOK
<1> QED
  BY <1>1, WalletAlways, PTL

\* The ledger explains the balance, whatever requests stop half-way and however often a
\* payment is reported (the transactions of debit, charge and credit).
THEOREM LedgerExplains == Spec => []MoneyAccounted
<1>1. WalletInv => MoneyAccounted
  BY DEF WalletInv
<1> QED
  BY <1>1, WalletAlways, PTL

\* "Sends the low-balance alert once each time the wallet drops under the threshold",
\* though calls and renewals check at once (checkLowBalance).
THEOREM AlertIsOnce == Spec => []AlertedOnce
<1>1. WalletInv => AlertedOnce
  <2> SUFFICES ASSUME WalletInv, NEW t \in Tenants PROVE alerts[t] <= 1
    BY DEF AlertedOnce
  <2>1. alerts[t] = 0 \/ alerts[t] = 1
    BY DEF WalletInv, AlertsFollow
  <2> QED
    BY <2>1
<1> QED
  BY <1>1, WalletAlways, PTL
-----------------------------------------------------------------------------
(***************************************************************************)
(* Partners.  A row names who was rung, and the one rung last by all that  *)
(* is still there of him: routes and buyers that are gone do not come      *)
(* back, a route keeps its target, and what the database removes with a    *)
(* target are the routes to it.                                            *)
(***************************************************************************)

Cand == [route : Route, buyer : Buyer \cup {NoBuyer}, target : Target \cup {NoTarget}]
RingType ==
  [at : {"new", "ringing", "fallback", "talking"}, left : SUBSET Cand, line : Cand \cup {NoCandidate}]

PartnersTyped ==
  /\ buyers \subseteq Buyer
  /\ owner \in [Target -> Buyer \cup {NoBuyer, Gone}]
  /\ routes \in [Route -> [buyer : Buyer \cup {NoBuyer, Gone}, target : Target \cup {NoTarget, Gone}]]
  /\ edits \subseteq [does : {"follow", "add"}, target : Target, buyer : Buyer \cup {NoBuyer}]
  /\ ring \in [PhoneCall -> RingType]
  /\ sent \in [PhoneCall -> SUBSET (Buyer \cup Target)]
  /\ rows \in [PhoneCall -> [buyer : Buyer \cup {NoBuyer}, target : Target \cup {NoTarget}]]

\* A route that stands leads to what is there.
Standing == \A r \in Route : Stands(r) => routes[r].target # Gone /\ There(routes[r].target)

\* The route of a candidate has had its target all along.
Follows(c) == routes[c.route] # NoRoute /\ (Stands(c.route) => routes[c.route].target = c.target)
Rung(k) == ring[k].left \cup ({ring[k].line} \ {NoCandidate})

Named(k) ==
  LET c == ring[k].line IN
  c # NoCandidate /\ Nameable(c) => rows[k] = [buyer |-> c.buyer, target |-> c.target]

RowsSent(k) ==
  rows[k].buyer \in sent[k] \cup {NoBuyer} /\ rows[k].target \in sent[k] \cup {NoTarget}

Progress(k) == ring[k].at = "talking" => ring[k].line # NoCandidate

PartnersInv ==
  /\ PartnersTyped
  /\ Standing
  /\ \A k \in PhoneCall : Named(k) /\ RowsSent(k) /\ Progress(k) /\ \A c \in Rung(k) : Follows(c)

LEMMA WordsApart == NoBuyer # Gone /\ NoTarget # Gone /\ NoBuyer # NoTarget
BY DEF NoBuyer, NoTarget, Gone

USE PartnersAssumption, IdsAssumption, WordsApart

LEMMA NoCandidateApart == NoCandidate \notin Cand
BY DEF Cand, NoCandidate, Route

LEMMA RungTyped ==
  ASSUME PartnersTyped, NEW k \in PhoneCall
  PROVE  /\ Rung(k) \subseteq Cand /\ ring[k].left \subseteq Cand
         /\ ring[k].line # NoCandidate => ring[k].line \in Rung(k)
BY DEF PartnersTyped, RingType, Rung

LEMMA CandFields ==
  ASSUME NEW c \in Cand
  PROVE  c.route \in Route /\ c.buyer \in Buyer \cup {NoBuyer} /\ c.target \in Target \cup {NoTarget}
BY DEF Cand

LEMMA InitPartners == PartnersInit => PartnersInv
<1> SUFFICES ASSUME PartnersInit PROVE PartnersInv
  OBVIOUS
<1>1. PartnersTyped
  <2>1. NoRoute \in [buyer : Buyer \cup {NoBuyer, Gone}, target : Target \cup {NoTarget, Gone}]
        /\ NoLine \in [buyer : Buyer \cup {NoBuyer}, target : Target \cup {NoTarget}]
    BY DEF NoRoute, NoLine
  <2>2. [at |-> "new", left |-> {}, line |-> NoCandidate] \in RingType
    BY DEF RingType
  <2> QED
    BY <2>1, <2>2 DEF PartnersInit, PartnersTyped
<1>3. Standing
  BY DEF PartnersInit, Standing, Stands, NoRoute
<1>2. \A k \in PhoneCall : ring[k].left = {} /\ ring[k].line = NoCandidate /\ ring[k].at = "new" /\ rows[k] = NoLine
  BY DEF PartnersInit
<1> QED
  BY <1>1, <1>2, <1>3 DEF PartnersInv, Named, RowsSent, Progress, Rung, NoLine

\* What the staff does to the catalogue: no candidate can be named that could not be
\* before, no route of a candidate is another.
LEMMA CataloguePartners ==
  ASSUME PartnersInv, PartnersTyped', Standing', ring' = ring, sent' = sent,
         \A r \in Route : routes[r] # NoRoute =>
           /\ routes'[r] # NoRoute
           /\ Stands(r)' => Stands(r) /\ routes'[r].target = routes[r].target,
         \A k \in PhoneCall : rows'[k].buyer \in {rows[k].buyer, NoBuyer}
                              /\ rows'[k].target \in {rows[k].target, NoTarget},
         buyers' \subseteq buyers,
         \A k \in PhoneCall, c \in Cand :
           Nameable(c)' /\ routes[c.route].target = c.target
             /\ rows[k] = [buyer |-> c.buyer, target |-> c.target] => rows'[k] = rows[k]
  PROVE  PartnersInv'
<1>1. SUFFICES ASSUME NEW k \in PhoneCall
               PROVE  (Named(k) /\ RowsSent(k) /\ Progress(k) /\ \A c \in Rung(k) : Follows(c))'
  BY DEF PartnersInv
<1>2. Rung(k)' = Rung(k) /\ Progress(k)'
  BY DEF Rung, Progress, PartnersInv
<1>3. ASSUME NEW c \in Rung(k)
      PROVE  Follows(c)' /\ (Nameable(c)' => Nameable(c) /\ routes[c.route].target = c.target)
  <2>1. c.route \in Route
    BY RungTyped, CandFields DEF PartnersInv
  <2>2. Follows(c)
    BY DEF PartnersInv
  <2> QED
    BY <2>1, <2>2 DEF Follows, Nameable, Known
<1>4. Named(k)'
  <2>1. SUFFICES ASSUME ring[k].line # NoCandidate, Nameable(ring[k].line)'
                 PROVE  rows'[k] = [buyer |-> ring[k].line.buyer, target |-> ring[k].line.target]
    BY DEF Named, Nameable, Stands, Known
  <2>2. ring[k].line \in Rung(k) /\ ring[k].line \in Cand
    BY <2>1, RungTyped DEF PartnersInv
  <2>3. Nameable(ring[k].line) /\ routes[ring[k].line.route].target = ring[k].line.target
    BY <1>3, <2>1, <2>2
  <2>4. rows[k] = [buyer |-> ring[k].line.buyer, target |-> ring[k].line.target]
    BY <2>1, <2>3 DEF PartnersInv, Named
  <2> QED
    BY <2>1, <2>2, <2>3, <2>4
<1>5. RowsSent(k)'
  BY DEF PartnersInv, RowsSent
<1> QED
  BY <1>2, <1>3, <1>4, <1>5

LEMMA NewRoutePartners ==
  ASSUME PartnersInv, NEW b \in buyers \cup {NoBuyer}, NEW t \in Target \cup {NoTarget}, There(t),
         NewRoute(b, t), edits' \subseteq edits, UNCHANGED <<buyers, owner, calls>>
  PROVE  PartnersInv'
<1>1. PICK r \in Route : routes[r] = NoRoute /\ routes' = [routes EXCEPT ![r] = [buyer |-> b, target |-> t]]
  BY DEF NewRoute
<1>2. buyers' = buyers /\ owner' = owner /\ ring' = ring /\ rows' = rows /\ sent' = sent
  BY DEF calls
<1>3. PartnersTyped'
  BY <1>1, <1>2 DEF PartnersInv, PartnersTyped
<1>4. Standing'
  BY <1>1, <1>2 DEF PartnersInv, PartnersTyped, Standing, Stands, There
<1> QED
  BY <1>1, <1>2, <1>3, <1>4, CataloguePartners DEF PartnersInv, PartnersTyped, Stands

LEMMA CascadePartners ==
  ASSUME PartnersInv, NEW bs \in SUBSET Buyer, NEW ts \in SUBSET Target, Cascade(bs, ts),
         buyers' = buyers \ bs, UNCHANGED <<edits, ring, sent>>
  PROVE  PartnersInv'
<1>1. /\ \A t \in Target : owner'[t] = IF t \in ts THEN Gone ELSE owner[t]
      /\ \A r \in Route : routes'[r] =
           IF Stands(r) /\ (routes[r].buyer \in bs \/ routes[r].target \in ts) THEN OldRoute ELSE routes[r]
      /\ \A k \in PhoneCall : rows'[k] =
           [buyer |-> IF rows[k].buyer \in bs THEN NoBuyer ELSE rows[k].buyer,
            target |-> IF rows[k].target \in ts THEN NoTarget ELSE rows[k].target]
  BY DEF Cascade
<1>2. PartnersTyped'
  <2>1. owner' \in [Target -> Buyer \cup {NoBuyer, Gone}]
    BY DEF Cascade, PartnersInv, PartnersTyped
  <2>2. routes' \in [Route -> [buyer : Buyer \cup {NoBuyer, Gone}, target : Target \cup {NoTarget, Gone}]]
    BY DEF Cascade, PartnersInv, PartnersTyped, OldRoute
  <2>3. rows' \in [PhoneCall -> [buyer : Buyer \cup {NoBuyer}, target : Target \cup {NoTarget}]]
    BY DEF Cascade, PartnersInv, PartnersTyped
  <2> QED
    BY <2>1, <2>2, <2>3 DEF PartnersInv, PartnersTyped
<1>3. \A r \in Route : routes[r] # NoRoute =>
        /\ routes'[r] # NoRoute
        /\ Stands(r)' => Stands(r) /\ routes'[r].target = routes[r].target /\ routes[r].target \notin ts
  BY <1>1 DEF Stands, OldRoute, NoRoute
<1>4. Standing'
  <2>1. SUFFICES ASSUME NEW r \in Route, Stands(r)' PROVE (routes[r].target # Gone /\ There(routes[r].target))'
    BY DEF Standing
  <2>2. routes'[r] = routes[r] /\ Stands(r) /\ routes[r].target \notin ts
    BY <1>1, <2>1 DEF Stands, OldRoute
  <2>3. routes[r].target \in Target \cup {NoTarget} /\ There(routes[r].target)
    BY <2>2 DEF PartnersInv, PartnersTyped, Standing
  <2> QED
    BY <1>1, <2>2, <2>3 DEF There
<1>5. ASSUME NEW k \in PhoneCall, NEW c \in Cand, Nameable(c)', routes[c.route].target = c.target,
             rows[k] = [buyer |-> c.buyer, target |-> c.target]
      PROVE  rows'[k] = rows[k]
  <2>1. c.route \in Route /\ c.buyer \notin bs
    BY <1>5, CandFields DEF Nameable, Known, PartnersInv, PartnersTyped
  <2>2. c.target \notin ts
    BY <1>1, <1>5, <2>1 DEF Nameable, Stands, OldRoute
  <2> QED
    BY <1>1, <1>5, <2>1, <2>2
<1>6. \A k \in PhoneCall : rows'[k].buyer \in {rows[k].buyer, NoBuyer} /\ rows'[k].target \in {rows[k].target, NoTarget}
  <2>1. SUFFICES ASSUME NEW k \in PhoneCall
                 PROVE  rows'[k].buyer \in {rows[k].buyer, NoBuyer} /\ rows'[k].target \in {rows[k].target, NoTarget}
    OBVIOUS
  <2> DEFINE b == IF rows[k].buyer \in bs THEN NoBuyer ELSE rows[k].buyer
             t == IF rows[k].target \in ts THEN NoTarget ELSE rows[k].target
  <2>2. rows'[k] = [buyer |-> b, target |-> t]
    BY <1>1
  <2>3. b \in {rows[k].buyer, NoBuyer} /\ t \in {rows[k].target, NoTarget}
    OBVIOUS
  <2> HIDE DEF b, t
  <2> QED
    BY <2>2, <2>3
<1>7. \A r \in Route : routes[r] # NoRoute =>
        /\ routes'[r] # NoRoute
        /\ Stands(r)' => Stands(r) /\ routes'[r].target = routes[r].target
  BY <1>3
<1>8. ring' = ring /\ sent' = sent /\ buyers' \subseteq buyers
  OBVIOUS
<1> QED
  BY <1>2, <1>4, <1>5, <1>6, <1>7, <1>8, CataloguePartners
LEMMA StaffPartners ==
  ASSUME PartnersInv, NEW e \in edits, MoveRoutes(e) \/ CreateRoute(e) PROVE PartnersInv'
<1>0. e.target \in Target /\ e.buyer \in Buyer \cup {NoBuyer} /\ edits \ {e} \subseteq edits
  BY DEF PartnersInv, PartnersTyped
<1>1. CASE MoveRoutes(e)
  <2>1. /\ \A r \in Route : routes'[r] =
             IF Stands(r) /\ routes[r].target = e.target /\ Known(e.buyer)
             THEN [routes[r] EXCEPT !.buyer = e.buyer] ELSE routes[r]
        /\ DOMAIN routes' = Route
        /\ edits' = edits \ {e} /\ buyers' = buyers /\ owner' = owner /\ ring' = ring /\ rows' = rows /\ sent' = sent
    BY <1>1 DEF MoveRoutes, Ends, calls
  <2>2. routes' \in [Route -> [buyer : Buyer \cup {NoBuyer, Gone}, target : Target \cup {NoTarget, Gone}]]
    <3>1. \A r \in Route : routes'[r] \in [buyer : Buyer \cup {NoBuyer, Gone}, target : Target \cup {NoTarget, Gone}]
      BY <1>0, <2>1 DEF PartnersInv, PartnersTyped
    <3> QED
      BY <1>1, <3>1 DEF MoveRoutes
  <2>3. PartnersTyped'
    BY <2>1, <2>2 DEF PartnersInv, PartnersTyped
  <2>4. ASSUME NEW r \in Route
        PROVE  routes'[r].target = routes[r].target /\ (Stands(r)' <=> Stands(r))
    <3>1. routes[r] \in [buyer : Buyer \cup {NoBuyer, Gone}, target : Target \cup {NoTarget, Gone}]
      BY DEF PartnersInv, PartnersTyped
    <3> QED
      BY <1>0, <2>1, <3>1 DEF Stands
  <2>5. Standing'
    BY <2>1, <2>4 DEF PartnersInv, Standing, There
  <2>6. \A r \in Route : routes[r] # NoRoute => routes'[r] # NoRoute
    BY <2>1, <2>4 DEF Stands, NoRoute
  <2> QED
    BY <2>1, <2>3, <2>4, <2>5, <2>6, CataloguePartners
<1>2. CASE CreateRoute(e)
  <2>1. /\ edits' \subseteq edits /\ UNCHANGED <<buyers, owner, calls>>
        /\ \/ There(e.target) /\ Known(e.buyer) /\ NewRoute(e.buyer, e.target)
           \/ routes' = routes
    BY <1>2 DEF CreateRoute, Ends
  <2>2. CASE There(e.target) /\ Known(e.buyer) /\ NewRoute(e.buyer, e.target)
    BY <1>0, <2>1, <2>2, NewRoutePartners DEF Known
  <2>3. CASE routes' = routes
    <3>1. buyers' = buyers /\ owner' = owner /\ ring' = ring /\ rows' = rows /\ sent' = sent
      BY <2>1 DEF calls
    <3>2. PartnersTyped' /\ Standing'
      BY <2>1, <2>3, <3>1 DEF PartnersInv, PartnersTyped, Standing, Stands, There
    <3> QED
      BY <2>3, <3>1, <3>2, CataloguePartners DEF Stands
  <2> QED
    BY <2>1, <2>2, <2>3
<1> QED
  BY <1>1, <1>2

LEMMA RequestPartners ==
  ASSUME PartnersInv,
         \/ \E t \in Target : AskRoute(t) \/ \E b \in Buyer \cup {NoBuyer} : MoveTarget(t, b)
         \/ \E r \in Route : RemoveRoute(r)
         \/ \E t \in Target : DeleteTarget(t)
         \/ \E b \in Buyer : AddMainLine(b) \/ DeleteBuyer(b)
  PROVE  PartnersInv'
<1>1. ASSUME NEW t \in Target, AskRoute(t) PROVE PartnersInv'
  <2>1. /\ UNCHANGED <<buyers, owner, routes, ring, rows, sent>> /\ owner[t] # Gone
        /\ edits' = edits \cup {[does |-> "add", target |-> t, buyer |-> owner[t]]}
    BY <1>1 DEF AskRoute, Begins, There, catalogue, calls
  <2>2. PartnersTyped' /\ Standing'
    BY <2>1 DEF PartnersInv, PartnersTyped, Standing, Stands, There
  <2> QED
    BY <2>1, <2>2, CataloguePartners DEF Stands
<1>2. ASSUME NEW t \in Target, NEW b \in Buyer \cup {NoBuyer}, MoveTarget(t, b) PROVE PartnersInv'
  <2>1. /\ UNCHANGED <<buyers, routes, ring, rows, sent>> /\ owner' = [owner EXCEPT ![t] = b]
        /\ edits' = edits \cup {[does |-> "follow", target |-> t, buyer |-> b]}
    BY <1>2 DEF MoveTarget, Begins, calls
  <2>2. PartnersTyped'
    BY <2>1 DEF PartnersInv, PartnersTyped
  <2>3. Standing'
    BY <2>1 DEF PartnersInv, PartnersTyped, Standing, Stands, There
  <2> QED
    BY <2>1, <2>2, <2>3, CataloguePartners DEF Stands
<1>3. ASSUME NEW r \in Route, RemoveRoute(r) PROVE PartnersInv'
  <2>1. /\ UNCHANGED <<buyers, owner, edits, ring, rows, sent>> /\ routes' = [routes EXCEPT ![r] = OldRoute]
    BY <1>3 DEF RemoveRoute, calls
  <2>2. PartnersTyped'
    BY <2>1 DEF PartnersInv, PartnersTyped, OldRoute
  <2>3. \A q \in Route : /\ routes'[q] = IF q = r THEN OldRoute ELSE routes[q]
                         /\ Stands(q)' <=> q # r /\ Stands(q)
    BY <2>1 DEF PartnersInv, PartnersTyped, Stands, OldRoute
  <2>4. Standing'
    BY <2>1, <2>3 DEF PartnersInv, Standing, There
  <2>5. OldRoute # NoRoute
    BY DEF OldRoute, NoRoute
  <2> QED
    BY <2>1, <2>2, <2>3, <2>4, <2>5, CataloguePartners
<1>4. ASSUME NEW t \in Target, DeleteTarget(t) PROVE PartnersInv'
  BY <1>4, CascadePartners DEF DeleteTarget
<1>5. ASSUME NEW b \in Buyer, DeleteBuyer(b) PROVE PartnersInv'
  BY <1>5, CascadePartners DEF DeleteBuyer
<1>6. ASSUME NEW b \in Buyer, AddMainLine(b) PROVE PartnersInv'
  BY <1>6, NewRoutePartners DEF AddMainLine, There
<1> QED
  BY <1>1, <1>2, <1>3, <1>4, <1>5, <1>6

\* What a call does: the catalogue stays, and the other calls.
LEMMA CallPartners ==
  ASSUME PartnersInv, NEW k \in PhoneCall, UNCHANGED <<buyers, owner, routes, edits>>,
         PartnersTyped', RowsSent(k)', Named(k)', Progress(k)', \A c \in Rung(k)' : Follows(c),
         \A j \in PhoneCall \ {k} : ring'[j] = ring[j] /\ rows'[j] = rows[j] /\ sent'[j] = sent[j]
  PROVE  PartnersInv'
<1>1. Standing'
  BY DEF PartnersInv, Standing, Stands, There
<1>2. \A c : Follows(c)' = Follows(c)
  BY DEF Follows, Stands
<1>3. ASSUME NEW j \in PhoneCall
      PROVE  (Named(j) /\ RowsSent(j) /\ Progress(j) /\ \A c \in Rung(j) : Follows(c))'
  <2>1. CASE j = k
    BY <1>2, <2>1
  <2>2. CASE j # k
    BY <1>2, <2>2 DEF PartnersInv, Named, RowsSent, Progress, Rung, Nameable, Known, Stands
  <2> QED
    BY <2>1, <2>2
<1> QED
  BY <1>1, <1>3 DEF PartnersInv

LEMMA RingPartners ==
  ASSUME PartnersInv, NEW k \in PhoneCall,
         \/ CallArrives(k) \/ DialFallback(k) \/ LineAnswers(k)
         \/ \E c \in ring[k].left : DialLine(k, c)
  PROVE  PartnersInv'
<1>0. /\ ring[k] \in RingType /\ ring[k].left \in SUBSET Cand
      /\ rows[k] \in [buyer : Buyer \cup {NoBuyer}, target : Target \cup {NoTarget}]
      /\ \A c \in Rung(k) : Follows(c)
  BY DEF PartnersInv, PartnersTyped, RingType
<1>. USE DEF RingType
<1>9. ASSUME ring'[k] \in RingType, \A j \in PhoneCall \ {k} : ring'[j] = ring[j],
             NEW r, ring' = [ring EXCEPT ![k] = r]
      PROVE  ring' \in [PhoneCall -> RingType]
  BY <1>9 DEF PartnersInv, PartnersTyped
<1>1. CASE CallArrives(k)
  <2> DEFINE new == {CandidateOf(r) : r \in {q \in Route : Stands(q)}}
  <2>1. /\ ring' = [ring EXCEPT ![k] = [ring[k] EXCEPT !.at = "ringing", !.left = new]]
        /\ UNCHANGED <<buyers, owner, routes, edits, rows, sent>>
    BY <1>1 DEF CallArrives, catalogue
  <2>2. \A c \in new : c \in Cand /\ Follows(c)
    <3>1. SUFFICES ASSUME NEW r \in Route, Stands(r) PROVE CandidateOf(r) \in Cand /\ Follows(CandidateOf(r))
      OBVIOUS
    <3>2. /\ routes[r].target \in Target \cup {NoTarget} /\ There(routes[r].target)
          /\ routes[r].buyer \in Buyer \cup {NoBuyer}
      BY <3>1 DEF PartnersInv, PartnersTyped, Standing, Stands
    <3>3. CandidateOf(r).buyer \in Buyer \cup {NoBuyer}
      BY <3>2 DEF PartnersInv, PartnersTyped, CandidateOf, There
    <3>4. CandidateOf(r).route = r /\ CandidateOf(r).target = routes[r].target
      BY DEF CandidateOf
    <3>5. CandidateOf(r) \in Cand
      BY <3>2, <3>3, <3>4 DEF Cand, CandidateOf
    <3> QED
      BY <3>1, <3>4, <3>5 DEF Follows, Stands, NoRoute
  <2> HIDE DEF new
  <2>3. /\ ring'[k] = [ring[k] EXCEPT !.at = "ringing", !.left = new]
        /\ \A j \in PhoneCall \ {k} : ring'[j] = ring[j]
    BY <2>1 DEF PartnersInv, PartnersTyped
  <2>4. ring'[k].at = "ringing" /\ ring'[k].left = new /\ ring'[k].line = ring[k].line
    BY <1>0, <2>3
  <2>5. PartnersTyped'
    <3>1. ring'[k] \in RingType
      BY <1>0, <2>3, <2>2
    <3>2. ring' \in [PhoneCall -> RingType]
      BY <1>9, <2>1, <2>3, <3>1
    <3> QED
      BY <2>1, <3>2 DEF PartnersInv, PartnersTyped
  <2>6. \A c \in Rung(k)' : Follows(c)
    BY <1>0, <2>2, <2>4 DEF Rung
  <2>7. RowsSent(k)' /\ Named(k)' /\ Progress(k)'
    BY <2>1, <2>4 DEF PartnersInv, RowsSent, Named, Progress, Nameable, Known, Stands
  <2> QED
    BY <2>1, <2>3, <2>5, <2>6, <2>7, CallPartners
<1>2. CASE DialFallback(k)
  <2>1. /\ ring' = [ring EXCEPT ![k] = [ring[k] EXCEPT !.at = "fallback", !.line = NoCandidate]]
        /\ rows' = [rows EXCEPT ![k] = NoLine]
        /\ UNCHANGED <<buyers, owner, routes, edits, sent>>
    BY <1>2 DEF DialFallback, catalogue
  <2>3. /\ ring'[k] = [ring[k] EXCEPT !.at = "fallback", !.line = NoCandidate] /\ rows'[k] = NoLine
        /\ \A j \in PhoneCall \ {k} : ring'[j] = ring[j] /\ rows'[j] = rows[j]
    BY <2>1 DEF PartnersInv, PartnersTyped
  <2>4. ring'[k].at = "fallback" /\ ring'[k].left = ring[k].left /\ ring'[k].line = NoCandidate
    BY <1>0, <2>3
  <2>5. PartnersTyped'
    <3>1. ring'[k] \in RingType
      BY <1>0, <2>3
    <3>2. ring' \in [PhoneCall -> RingType]
      BY <1>9, <2>1, <2>3, <3>1
    <3> QED
      BY <2>1, <3>2 DEF PartnersInv, PartnersTyped, NoLine
  <2>6. \A c \in Rung(k)' : Follows(c)
    BY <1>0, <2>4 DEF Rung
  <2>7. RowsSent(k)' /\ Named(k)' /\ Progress(k)'
    BY <2>3, <2>4 DEF RowsSent, Named, Progress, NoLine
  <2> QED
    BY <2>1, <2>3, <2>5, <2>6, <2>7, CallPartners
<1>3. CASE LineAnswers(k)
  <2>1. /\ ring[k].line # NoCandidate
        /\ ring' = [ring EXCEPT ![k] = [ring[k] EXCEPT !.at = "talking", !.left = {}]]
        /\ UNCHANGED <<buyers, owner, routes, edits, rows, sent>>
    BY <1>3 DEF LineAnswers, catalogue
  <2>3. /\ ring'[k] = [ring[k] EXCEPT !.at = "talking", !.left = {}]
        /\ \A j \in PhoneCall \ {k} : ring'[j] = ring[j]
    BY <2>1 DEF PartnersInv, PartnersTyped
  <2>4. ring'[k].at = "talking" /\ ring'[k].left = {} /\ ring'[k].line = ring[k].line
    BY <1>0, <2>3
  <2>5. PartnersTyped'
    <3>1. ring'[k] \in RingType
      BY <1>0, <2>3
    <3>2. ring' \in [PhoneCall -> RingType]
      BY <1>9, <2>1, <2>3, <3>1
    <3> QED
      BY <2>1, <3>2 DEF PartnersInv, PartnersTyped
  <2>6. \A c \in Rung(k)' : Follows(c)
    BY <1>0, <2>4 DEF Rung
  <2>7. RowsSent(k)' /\ Named(k)' /\ Progress(k)'
    BY <2>1, <2>4 DEF PartnersInv, RowsSent, Named, Progress, Nameable, Known, Stands
  <2> QED
    BY <2>1, <2>3, <2>5, <2>6, <2>7, CallPartners
<1>4. ASSUME NEW c \in ring[k].left, DialLine(k, c) PROVE PartnersInv'
  <2>0. c \in Cand /\ c \in Rung(k) /\ c.buyer \in Buyer \cup {NoBuyer} /\ c.target \in Target \cup {NoTarget}
    BY <1>0, CandFields DEF Rung
  <2>1. /\ ring' = [ring EXCEPT ![k] = [ring[k] EXCEPT !.left = ring[k].left \ {c}, !.line = c]]
        /\ sent' = [sent EXCEPT ![k] = @ \cup ({c.buyer, c.target} \ {NoBuyer, NoTarget})]
        /\ rows' = [rows EXCEPT ![k] = Names(k, c)]
        /\ ring[k].at = "ringing"
        /\ UNCHANGED <<buyers, owner, routes, edits>>
    <3>1. /\ ring' = [ring EXCEPT ![k].left = @ \ {c}, ![k].line = c]
          /\ k \in DOMAIN ring
      BY <1>4 DEF DialLine, PartnersInv, PartnersTyped
    <3>2. ring' = [ring EXCEPT ![k] = [ring[k] EXCEPT !.left = ring[k].left \ {c}, !.line = c]]
      BY <3>1, Zenon
    <3> QED
      BY <1>4, <3>2 DEF DialLine, catalogue
  <2>2. /\ sent[k] \subseteq sent'[k]
        /\ c.buyer # NoBuyer => c.buyer \in sent'[k]
        /\ c.target # NoTarget => c.target \in sent'[k]
        /\ sent' \in [PhoneCall -> SUBSET (Buyer \cup Target)]
    <3>1. sent \in [PhoneCall -> SUBSET (Buyer \cup Target)]
      BY DEF PartnersInv, PartnersTyped
    <3>2. sent'[k] = sent[k] \cup ({c.buyer, c.target} \ {NoBuyer, NoTarget})
      BY <2>1, <3>1
    <3> QED
      BY <2>0, <2>1, <3>1, <3>2
  <2>3. /\ ring'[k] = [ring[k] EXCEPT !.left = ring[k].left \ {c}, !.line = c] /\ rows'[k] = Names(k, c)
        /\ \A j \in PhoneCall \ {k} : ring'[j] = ring[j] /\ rows'[j] = rows[j] /\ sent'[j] = sent[j]
    BY <2>1 DEF PartnersInv, PartnersTyped
  <2>4. ring'[k].at = "ringing" /\ ring'[k].left = ring[k].left \ {c} /\ ring'[k].line = c
    <3>1. ring'[k] = [ring[k] EXCEPT !.left = ring[k].left \ {c}, !.line = c]
      BY <2>3
    <3> QED
      BY <1>0, <2>1, <3>1
  <2>8. Names(k, c) \in {[buyer |-> c.buyer, target |-> c.target], rows[k]}
        /\ (Nameable(c) => Names(k, c) = [buyer |-> c.buyer, target |-> c.target])
    BY DEF Names
  <2>5. PartnersTyped'
    <3>1. ring'[k] \in RingType
      BY <1>0, <2>0, <2>3
    <3>2. ring' \in [PhoneCall -> RingType]
      BY <1>9, <2>1, <2>3, <3>1
    <3>3. Names(k, c) \in [buyer : Buyer \cup {NoBuyer}, target : Target \cup {NoTarget}]
      BY <1>0, <2>0, <2>8
    <3>4. rows' \in [PhoneCall -> [buyer : Buyer \cup {NoBuyer}, target : Target \cup {NoTarget}]]
      BY <2>1, <3>3 DEF PartnersInv, PartnersTyped
    <3> QED
      BY <2>1, <2>2, <3>2, <3>4 DEF PartnersInv, PartnersTyped
  <2>6. \A d \in Rung(k)' : Follows(d)
    BY <1>0, <2>0, <2>4 DEF Rung
  <2>7. RowsSent(k)' /\ Named(k)' /\ Progress(k)'
    <3>1. RowsSent(k)
      BY DEF PartnersInv
    <3>2. RowsSent(k)'
      BY <2>0, <2>2, <2>3, <2>8, <3>1 DEF RowsSent
    <3>3. Nameable(c)' <=> Nameable(c)
      BY <2>1 DEF Nameable, Known, Stands
    <3>4. Named(k)'
      BY <2>3, <2>4, <2>8, <3>3 DEF Named, Nameable, Known, Stands
    <3>5. Progress(k)'
      BY <2>4 DEF Progress
    <3> QED
      BY <3>2, <3>4, <3>5
  <2> QED
    BY <2>1, <2>3, <2>5, <2>6, <2>7, CallPartners
<1> QED
  BY <1>1, <1>2, <1>3, <1>4
LEMMA PartnersAlways == PartnersSpec => []PartnersInv
<1>1. PartnersInv /\ [PartnersNext]_partnersVars => PartnersInv'
  <2>1. SUFFICES ASSUME PartnersInv, UNCHANGED partnersVars PROVE PartnersInv'
    BY RequestPartners, StaffPartners, RingPartners DEF PartnersNext
  <2>2. /\ buyers' = buyers /\ owner' = owner /\ routes' = routes /\ edits' = edits
        /\ ring' = ring /\ rows' = rows /\ sent' = sent
    BY <2>1 DEF partnersVars
  <2>3. PartnersTyped' /\ Standing'
    BY <2>1, <2>2 DEF PartnersInv, PartnersTyped, Standing, Stands, There
  <2> QED
    BY <2>1, <2>2, <2>3, CataloguePartners DEF Stands
<1> QED
  BY <1>1, InitPartners, PTL DEF PartnersSpec

(* Partners only ever see calls that were sent to them (calls.controller.ts *)
(* :86), while targets change hands and buyers, targets and routes go; and  *)
(* the one who talks with a caller sees the call, unless its route or buyer *)
(* has been removed since the call came in (call-engine.service.ts:558).    *)
THEOREM PartnersSee == PartnersSpec => []PartnersSeeTheirs
<1>1. ASSUME PartnersInv, NEW u \in Buyer \cup Agent
      PROVE  /\ \A k \in Scope(u) : u \in sent[k]
             /\ \A k \in PhoneCall :
                  LET c == ring[k].line
                  IN  ring[k].at = "talking" /\ u \in {c.buyer, c.target} /\ Nameable(c) => k \in Scope(u)
  <2>1. u \notin {NoBuyer, NoTarget, Gone} /\ (u \in Buyer => u \notin Target) /\ (u \notin Buyer => u \in Target)
    OBVIOUS
  <2>2. ASSUME NEW k \in Scope(u) PROVE u \in sent[k]
    BY <1>1, <2>1, <2>2 DEF Scope, PartnersInv, RowsSent
  <2>3. ASSUME NEW k \in PhoneCall, NEW c, c = ring[k].line,
               ring[k].at = "talking", u \in {c.buyer, c.target}, Nameable(c)
        PROVE  k \in Scope(u)
    <3>1. c # NoCandidate /\ c \in Cand /\ Follows(c)
      BY <1>1, <2>3, RungTyped DEF PartnersInv, Progress
    <3>2. rows[k] = [buyer |-> c.buyer, target |-> c.target]
      BY <1>1, <2>3, <3>1 DEF PartnersInv, Named
    <3>3. c.buyer \in Buyer \cup {NoBuyer} /\ c.target \in Target \cup {NoTarget} /\ c.route \in Route
      BY <3>1, CandFields
    <3>4. There(c.target)
      BY <1>1, <2>3, <3>1, <3>3 DEF PartnersInv, Standing, Follows, Nameable
    <3> QED
      BY <2>1, <2>3, <3>2, <3>3, <3>4 DEF Scope
  <2> QED
    BY <2>2, <2>3
<1>2. PartnersInv => PartnersSeeTheirs
  BY <1>1 DEF PartnersSeeTheirs
<1> QED
  BY <1>2, PartnersAlways, PTL
-----------------------------------------------------------------------------
(***************************************************************************)
(* The board.  An answer is kept under the key of who asked for it, which  *)
(* is all that decides what they see; its age is what the query took and   *)
(* the time it has been kept.                                              *)
(***************************************************************************)

Keys == {LiveKey(u) : u \in Viewers}
KeptAnswer == [by : Viewers, age : Nat, left : 1 .. LiveTtl]

\* An answer in Redis is one for this key, and not older than it may be.
KeptWell(k) ==
  kept[k] # NoAnswer =>
    kept[k] \in KeptAnswer /\ k = LiveKey(kept[k].by) /\ kept[k].age + kept[k].left <= LiveSlow + LiveTtl

LiveInv ==
  /\ viewer \in [Page -> Viewers]
  /\ DOMAIN kept = Keys /\ \A k \in Keys : KeptWell(k)
  /\ asking \in [Page -> [at : {"idle", "miss", "put"}, age : 0 .. LiveSlow]]
  /\ shown.page \subseteq Page
  /\ \A p \in shown.page :
       /\ shown.by \in Viewers /\ LiveKey(viewer[p]) = LiveKey(shown.by)
       /\ shown.age \in Nat /\ shown.age < LiveTtl + LiveSlow

USE LiveAssumption

LEMMA InitLive == LiveInit => LiveInv
BY DEF LiveInit, LiveInv, Keys, KeptWell, NotAsking, NotShown

LEMMA HitLive == ASSUME LiveInv, NEW p \in Page, Hit(p) PROVE LiveInv'
<1> DEFINE k == LiveKey(viewer[p])
<1>1. k \in Keys /\ kept[k] # NoAnswer
  BY DEF Hit, LiveInv, Keys
<1>2. kept[k] \in KeptAnswer /\ k = LiveKey(kept[k].by) /\ kept[k].age + kept[k].left <= LiveSlow + LiveTtl
  BY <1>1 DEF LiveInv, KeptWell
<1>3. kept[k].by \in Viewers /\ kept[k].age \in Nat /\ kept[k].left \in 1 .. LiveTtl
  BY <1>2 DEF KeptAnswer
<1>4. /\ shown' = [page |-> {p}, by |-> kept[k].by, age |-> kept[k].age]
      /\ viewer' = viewer /\ kept' = kept /\ asking' = asking
  BY DEF Hit
<1> HIDE DEF k
<1>5. k = LiveKey(viewer[p])
  BY DEF k
<1>6. kept[k].age < LiveTtl + LiveSlow
  BY <1>2, <1>3
<1>7. shown'.page = {p} /\ shown'.by = kept[k].by /\ shown'.age = kept[k].age
  BY <1>4
<1>8. \A q \in Page : LiveKey(viewer[q])' = LiveKey(viewer[q])
  BY <1>4 DEF LiveKey
<1>9. LiveKey(shown.by)' = LiveKey(kept[k].by)
  BY <1>7 DEF LiveKey
<1>10. \A j \in Keys : KeptWell(j)'
  BY <1>4 DEF LiveInv, KeptWell, LiveKey
<1> QED
  BY <1>2, <1>3, <1>4, <1>5, <1>6, <1>7, <1>8, <1>9, <1>10 DEF LiveInv

LEMMA KeepLive == ASSUME LiveInv, NEW p \in Page, Keep(p) PROVE LiveInv'
<1> DEFINE k == LiveKey(viewer[p])
           a == [by |-> viewer[p], age |-> asking[p].age, left |-> LiveTtl]
<1>1. k \in Keys /\ viewer[p] \in Viewers /\ asking[p].age \in 0 .. LiveSlow
  BY DEF LiveInv, Keys
<1>2. /\ kept' = [kept EXCEPT ![k] = a]
      /\ shown' = [page |-> {p}, by |-> viewer[p], age |-> asking[p].age]
      /\ asking' = [asking EXCEPT ![p] = NotAsking]
      /\ viewer' = viewer
  BY DEF Keep
<1>3. a \in KeptAnswer /\ a.by = viewer[p] /\ a.age + a.left <= LiveSlow + LiveTtl
  BY <1>1 DEF KeptAnswer
<1>4. asking' \in [Page -> [at : {"idle", "miss", "put"}, age : 0 .. LiveSlow]]
  BY <1>2 DEF LiveInv, NotAsking
<1>5. /\ shown'.page = {p} /\ shown'.by = viewer[p] /\ shown'.age = asking[p].age
      /\ \A u : LiveKey(u)' = LiveKey(u)
  BY <1>2 DEF LiveKey
<1>6. k = LiveKey(viewer[p])
  OBVIOUS
<1> HIDE DEF k, a
<1>7. ASSUME NEW j \in Keys PROVE KeptWell(j)'
  <2>1. CASE j = k
    <3>1. kept'[j] = a
      BY <1>1, <1>2, <2>1 DEF LiveInv
    <3> QED
      BY <1>3, <1>6, <2>1, <3>1 DEF KeptWell, LiveKey
  <2>2. CASE j # k
    <3>1. kept'[j] = kept[j]
      BY <1>2, <2>2 DEF LiveInv
    <3> QED
      BY <3>1 DEF LiveInv, KeptWell, LiveKey
  <2> QED
    BY <2>1, <2>2
<1>8. DOMAIN kept' = Keys
  BY <1>2 DEF LiveInv
<1>9. shown'.age \in Nat /\ shown'.age < LiveTtl + LiveSlow
  BY <1>1, <1>5
<1> QED
  BY <1>1, <1>2, <1>4, <1>5, <1>7, <1>8, <1>9 DEF LiveInv, LiveKey

\* An answer that lives on is a tick older and has a tick less to live.
LEMMA TickLive == ASSUME LiveInv, LiveTick PROVE LiveInv'
<1>1. /\ kept' = [k \in Keys |-> Ages(kept[k])] /\ viewer' = viewer /\ shown' = NotShown
      /\ \A p \in Page : asking[p].at = "put" => asking[p].age < LiveSlow
      /\ asking' = [p \in Page |-> IF asking[p].at = "put" THEN [asking[p] EXCEPT !.age = @ + 1] ELSE asking[p]]
  BY DEF LiveTick, LiveInv
<1>2. asking' \in [Page -> [at : {"idle", "miss", "put"}, age : 0 .. LiveSlow]]
  <2>1. SUFFICES ASSUME NEW p \in Page
                 PROVE  (IF asking[p].at = "put" THEN [asking[p] EXCEPT !.age = @ + 1] ELSE asking[p])
                          \in [at : {"idle", "miss", "put"}, age : 0 .. LiveSlow]
    BY <1>1
  <2>2. asking[p] \in [at : {"idle", "miss", "put"}, age : 0 .. LiveSlow]
    BY DEF LiveInv
  <2> QED
    BY <1>1, <2>2
<1>3. ASSUME NEW k \in Keys PROVE KeptWell(k)'
  <2>1. kept'[k] = Ages(kept[k])
    BY <1>1
  <2>2. SUFFICES ASSUME Ages(kept[k]) # NoAnswer
                 PROVE  /\ Ages(kept[k]) \in KeptAnswer /\ k = LiveKey(Ages(kept[k]).by)
                        /\ Ages(kept[k]).age + Ages(kept[k]).left <= LiveSlow + LiveTtl
    BY <2>1 DEF KeptWell, LiveKey
  <2>3. ~(kept[k].left <= 1) /\ Ages(kept[k]) = [kept[k] EXCEPT !.age = @ + 1, !.left = @ - 1]
    BY <2>2 DEF Ages
  <2>4. kept[k] # NoAnswer
    BY <2>3 DEF NoAnswer
  <2>5. /\ kept[k] \in KeptAnswer /\ k = LiveKey(kept[k].by) /\ kept[k].age + kept[k].left <= LiveSlow + LiveTtl
    BY <2>4 DEF LiveInv, KeptWell
  <2>6. /\ kept[k].by \in Viewers /\ kept[k].age \in Nat /\ kept[k].left \in 2 .. LiveTtl
        /\ kept[k] = [by |-> kept[k].by, age |-> kept[k].age, left |-> kept[k].left]
    BY <2>3, <2>5 DEF KeptAnswer
  <2>7. Ages(kept[k]) = [by |-> kept[k].by, age |-> kept[k].age + 1, left |-> kept[k].left - 1]
    BY <2>3, <2>6
  <2>8. /\ Ages(kept[k]).by = kept[k].by /\ Ages(kept[k]).age = kept[k].age + 1
        /\ Ages(kept[k]).left = kept[k].left - 1
    BY <2>7
  <2>9. Ages(kept[k]) \in KeptAnswer
    BY <2>6, <2>7 DEF KeptAnswer
  <2> QED
    BY <2>5, <2>6, <2>8, <2>9 DEF LiveKey
<1> QED
  BY <1>1, <1>2, <1>3 DEF LiveInv, NotShown

LEMMA StepLive == LiveInv /\ [LiveNext]_liveVars => LiveInv'
<1> SUFFICES ASSUME LiveInv, [LiveNext]_liveVars PROVE LiveInv'
  OBVIOUS
<1>1. ASSUME NEW p \in Page, Miss(p) \/ Query(p) PROVE LiveInv'
  <2>1. PICK q \in [at : {"idle", "miss", "put"}, age : 0 .. LiveSlow] : asking' = [asking EXCEPT ![p] = q]
    <3>1. asking[p] \in [at : {"idle", "miss", "put"}, age : 0 .. LiveSlow]
      BY DEF LiveInv
    <3>2. [asking[p] EXCEPT !.at = "miss"] \in [at : {"idle", "miss", "put"}, age : 0 .. LiveSlow]
      BY <3>1
    <3>3. [at |-> "put", age |-> 0] \in [at : {"idle", "miss", "put"}, age : 0 .. LiveSlow]
      OBVIOUS
    <3> QED
      BY <1>1, <3>2, <3>3 DEF Miss, Query
  <2>2. viewer' = viewer /\ kept' = kept /\ shown' = shown
    BY <1>1 DEF Miss, Query
  <2> QED
    BY <2>1, <2>2 DEF LiveInv, KeptWell, LiveKey
<1>2. CASE UNCHANGED liveVars
  BY <1>2 DEF liveVars, LiveInv, KeptWell, LiveKey
<1> QED
  BY <1>1, <1>2, HitLive, KeepLive, TickLive DEF LiveNext

(* The shared answer of the board (calls.controller.ts:279): nobody is      *)
(* shown the calls or the money of another partner, or of the staff, and    *)
(* what is shown was read no longer ago than an answer is kept and a query  *)
(* takes, however the requests of pages overlap.                            *)
THEOREM BoardIsTheirs == LiveSpec => []LiveIsTheirs
<1>1. ASSUME NEW u \in User, NEW v \in User, LiveKey(u) = LiveKey(v) PROVE u = v
  BY <1>1 DEF LiveKey, User, Staff
<1>2. \A u : SeeTheSame(u, u)
  BY DEF SeeTheSame
<1>3. LiveInv => LiveIsTheirs
  <2>1. SUFFICES ASSUME LiveInv, NEW p \in shown.page
                 PROVE  SeeTheSame(viewer[p], shown.by) /\ shown.age < LiveTtl + LiveSlow
    BY DEF LiveIsTheirs
  <2>2. viewer[p] \in User /\ shown.by \in User /\ LiveKey(viewer[p]) = LiveKey(shown.by)
    BY <2>1 DEF LiveInv
  <2>3. viewer[p] = shown.by
    BY <1>1, <2>2
  <2> QED
    BY <1>2, <2>1, <2>3 DEF LiveInv
<1> QED
  BY <1>3, InitLive, StepLive, PTL DEF LiveSpec

-----------------------------------------------------------------------------
(* The parts and the whole *)

(* A behaviour of Charges is one of each of its parts, which rests while    *)
(* another moves; what is proved of the parts holds of it.                  *)
THEOREM ChargesAreTheirParts ==
  ChargesSpec => Spec /\ CallersSpec /\ PartnersSpec /\ LiveSpec /\ ReportsSpec /\ PostbacksSpec
<1> DEFINE allVars == <<scene, vars, callersVars, partnersVars, boardVars, postbackVars>>
<1>1. ChargesInit => Init /\ CallersInit /\ PartnersInit /\ LiveInit /\ PostbacksInit
  BY DEF ChargesInit
<1>2. ChargesInit => cdrs \in [Cdr -> CallRow] /\ request \in Request /\ ReportInit
  BY CallsGiven DEF ChargesInit
<1>3. [ChargesNext]_allVars => [Next]_vars
  BY DEF ChargesNext, InBilling, InCallers, InPartners, InLive, InReport, InPostbacks
<1>4. [ChargesNext]_allVars => [CallersNext]_callersVars
  BY DEF ChargesNext, InBilling, InCallers, InPartners, InLive, InReport, InPostbacks
<1>5. [ChargesNext]_allVars => [PartnersNext]_partnersVars
  BY DEF ChargesNext, InBilling, InCallers, InPartners, InLive, InReport, InPostbacks
<1>6. [ChargesNext]_allVars => [LiveNext]_liveVars
  BY DEF ChargesNext, InBilling, InCallers, InPartners, InLive, InReport, InPostbacks, boardVars
<1>7. [ChargesNext]_allVars => [ReportNext]_<<cdrs, reportVars>>
  BY DEF ChargesNext, InBilling, InCallers, InPartners, InLive, InReport, InPostbacks, boardVars
<1>8. [ChargesNext]_allVars => [PostbacksNext]_postbackVars
  BY DEF ChargesNext, InBilling, InCallers, InPartners, InLive, InReport, InPostbacks
<1> QED
  BY <1>1, <1>2, <1>3, <1>4, <1>5, <1>6, <1>7, <1>8, PTL
  DEF ChargesSpec, Spec, CallersSpec, PartnersSpec, LiveSpec, ReportsSpec, PostbacksSpec
=============================================================================
