--------------------------- MODULE Analytics_proofs ---------------------------
(***************************************************************************)
(* Proofs about the analytic queries: what the readings of a cumulative    *)
(* counter and the rollups over them say, for any sessions, projects,      *)
(* kinds of counter, ticks and losses, and the calendar of the buckets and *)
(* of the projection.                                                      *)
(***************************************************************************)
EXTENDS MCAnalytics, FiniteSetTheorems, WellFoundedInduction, TLAPS

\* A nonempty set of naturals has a least one.
LEMMA LeastNat ==
    ASSUME NEW Y \in SUBSET Nat, Y # {}
    PROVE  \E x \in Y : \A y \in Y : x <= y
<1>1. PICK x \in Y : \A y \in Y : ~(<<y, x>> \in OpToRel(<, Nat))
  BY NatLessThanWellFounded, WFMin, Zenon
<1>2. ASSUME NEW y \in Y PROVE x <= y
  <2>1. /\ <<y, x>> \in Nat \X Nat
        /\ <<y, x>>[1] = y /\ <<y, x>>[2] = x
    OBVIOUS
  <2>2. ~(<<y, x>> \in OpToRel(<, Nat))
    BY <1>1
  <2>3. ~(y < x)
    BY <2>1, <2>2, Zenon DEF OpToRel
  <2> QED BY <2>3
<1> QED BY <1>2

-----------------------------------------------------------------------------
\* Sums.  A function to Nat stands for a set of units, as many for each member of its
\* domain as its value; the sum of its values is how many there are.
Units(v) == UNION {{x} \X (1..v[x]) : x \in DOMAIN v}
Mass(v)  == Cardinality(Units(v))

\* One member has as many units as its value.
LEMMA MemberUnits ==
    ASSUME NEW x, NEW n \in Nat
    PROVE  IsFiniteSet({x} \X (1..n)) /\ Cardinality({x} \X (1..n)) = n
<1>1. IsFiniteSet(1..n) /\ Cardinality(1..n) = n
  BY FS_Interval
<1>2. IsFiniteSet({x}) /\ Cardinality({x}) = 1
  BY FS_Singleton
<1>3. /\ IsFiniteSet({x} \X (1..n))
      /\ Cardinality({x} \X (1..n)) = Cardinality({x}) * Cardinality(1..n)
  BY <1>1, <1>2, FS_Product
<1> DEFINE c == Cardinality({x} \X (1..n))
<1>4. c = 1 * n
  BY Zenon, <1>1, <1>2, <1>3
<1>5. c = n
  BY <1>4
<1> QED BY <1>3, <1>5

\* The units of finitely many members are finitely many.
LEMMA MassType ==
    ASSUME NEW W, IsFiniteSet(W), NEW v \in [W -> Nat]
    PROVE  IsFiniteSet(Units(v)) /\ Mass(v) \in Nat
<1> DEFINE parts == {{x} \X (1..v[x]) : x \in W}
           f == [x \in W |-> {x} \X (1..v[x])]
<1>1. f \in Surjection(W, parts)
  BY DEF Surjection
<1>2. IsFiniteSet(parts)
  BY <1>1, FS_Surjection
<1>3. \A p \in parts : IsFiniteSet(p)
  <2>1. ASSUME NEW x \in W PROVE IsFiniteSet({x} \X (1..v[x]))
    BY MemberUnits
  <2> QED BY <2>1
<1>4. Units(v) = UNION parts
  BY DEF Units
<1> HIDE DEF parts
<1>5. IsFiniteSet(Units(v))
  BY <1>2, <1>3, <1>4, FS_UNION
<1> QED BY <1>5, FS_CardinalityType DEF Mass

\* The sum over two sets apart is the sum of their sums.
LEMMA MassSplit ==
    ASSUME NEW A1, NEW B1, IsFiniteSet(A1), IsFiniteSet(B1), A1 \cap B1 = {},
           NEW v \in [A1 \cup B1 -> Nat]
    PROVE  Mass(v) = Mass([x \in A1 |-> v[x]]) + Mass([x \in B1 |-> v[x]])
<1> DEFINE a == [x \in A1 |-> v[x]]
           b == [x \in B1 |-> v[x]]
<1>1. a \in [A1 -> Nat] /\ b \in [B1 -> Nat]
  OBVIOUS
<1>2. /\ IsFiniteSet(Units(a)) /\ IsFiniteSet(Units(b))
      /\ Mass(a) \in Nat /\ Mass(b) \in Nat
  BY <1>1, MassType
<1>3. Units(v) = Units(a) \cup Units(b)
  BY DEF Units
<1>4. Units(a) \cap Units(b) = {}
  BY DEF Units
<1> HIDE DEF a, b
<1>5. Cardinality(Units(a) \cup Units(b)) =
        Cardinality(Units(a)) + Cardinality(Units(b)) - Cardinality(Units(a) \cap Units(b))
  BY <1>2, FS_Union
<1>6. Cardinality(Units(a) \cap Units(b)) = 0
  BY <1>4, FS_EmptySet
<1>7. Mass(v) = Mass(a) + Mass(b) - 0
  BY Zenon, <1>3, <1>5, <1>6 DEF Mass
<1>8. Mass(v) = Mass(a) + Mass(b)
  BY <1>2, <1>7
<1> QED BY <1>8 DEF a, b

\* The sum over nothing is 0, and over one member its value.
LEMMA MassNone == ASSUME NEW v, DOMAIN v = {} PROVE Mass(v) = 0
<1>1. Units(v) = {}
  BY DEF Units
<1> QED BY <1>1, FS_EmptySet DEF Mass

LEMMA MassOne == ASSUME NEW x, NEW v \in [{x} -> Nat] PROVE Mass(v) = v[x]
<1>1. Units(v) = {x} \X (1..v[x])
  BY DEF Units
<1> QED BY <1>1, MemberUnits DEF Mass

\* The sum over a set is that over the others and the value of the one left out.
LEMMA MassAdds ==
    ASSUME NEW W, IsFiniteSet(W), NEW v \in [W -> Nat], NEW x \in W
    PROVE  Mass(v) = Mass([y \in W \ {x} |-> v[y]]) + v[x]
<1> DEFINE R == W \ {x}
           Z == {x}
<1>1. IsFiniteSet(R) /\ IsFiniteSet(Z) /\ R \cap Z = {} /\ W = R \cup Z
  BY FS_RemoveElement, FS_Singleton
<1>2. [y \in Z |-> v[y]] \in [{x} -> Nat] /\ [y \in Z |-> v[y]][x] = v[x]
  OBVIOUS
<1>3. Mass([y \in Z |-> v[y]]) = v[x]
  BY <1>2, MassOne
<1> HIDE DEF R, Z
<1>4. v \in [R \cup Z -> Nat]
  BY <1>1
<1>5. Mass(v) = Mass([y \in R |-> v[y]]) + Mass([y \in Z |-> v[y]])
  BY <1>1, <1>4, MassSplit
<1> QED BY <1>3, <1>5 DEF R

\* What is chosen first.
One(Y) == CHOOSE x \in Y : TRUE

\* f adds up the values of v over the subsets of W, value by value.
Adding(f, v, W) == f = [Y \in SUBSET W |-> IF Y = {} THEN 0 ELSE v[One(Y)] + f[Y \ {One(Y)}]]

\* Whatever is chosen first, adding up value by value gives the sum.
LEMMA FoldIsMass ==
    ASSUME NEW W, IsFiniteSet(W), NEW v \in [W -> Nat], NEW f,
           Adding(f, v, W)
    PROVE  f[W] = Mass(v)
<1> USE DEF Adding
<1> DEFINE on(Y) == [x \in Y |-> v[x]]
           wrong == {Y \in SUBSET W : f[Y] # Mass(on(Y))}
           sizes == {Cardinality(Y) : Y \in wrong}
<1>1. SUFFICES ASSUME wrong # {} PROVE FALSE
  <2>1. W \in SUBSET W /\ on(W) = v
    OBVIOUS
  <2> QED BY <1>1, <2>1
<1>2. \A Y \in SUBSET W : IsFiniteSet(Y) /\ Cardinality(Y) \in Nat
  BY FS_Subset, FS_CardinalityType
<1>3. sizes \in SUBSET Nat /\ sizes # {}
  BY <1>1, <1>2
<1>4. PICK n \in sizes : \A m \in sizes : n <= m
  BY <1>3, LeastNat
<1>5. PICK Y \in wrong : Cardinality(Y) = n
  BY <1>4
<1>6. Y \in SUBSET W /\ f[Y] # Mass(on(Y))
  BY <1>5
<1>7. CASE Y = {}
  BY <1>6, <1>7, MassNone
<1>8. CASE Y # {}
  <2> DEFINE x == One(Y)
             R == Y \ {x}
  <2>1. x \in Y
    BY <1>8 DEF One
  <2>2. R \in SUBSET W /\ IsFiniteSet(R) /\ Cardinality(R) = n - 1
    BY <1>2, <1>5, <1>6, <2>1, FS_RemoveElement
  <2>3. R \notin wrong
    <3>1. n \in Nat
      BY <1>3, <1>4
    <3>2. R \in wrong => n - 1 \in sizes
      BY <2>2
    <3> HIDE DEF sizes, wrong
    <3>3. R \in wrong => n <= n - 1
      BY <1>4, <3>2
    <3> QED BY <3>1, <3>3
  <2>4. f[R] = Mass(on(R))
    BY <2>2, <2>3
  <2>5. f[Y] = v[x] + f[R]
    BY <1>6, <1>8
  <2>6. Mass(on(Y)) = Mass(on(R)) + v[x]
    <3> DEFINE a == on(Y)
    <3>1. a \in [Y -> Nat] /\ a[x] = v[x] /\ [y \in R |-> a[y]] = on(R) /\ IsFiniteSet(Y)
      BY <1>2, <1>6, <2>1
    <3> HIDE DEF a, on, x, R
    <3>2. Mass(a) = Mass([y \in Y \ {x} |-> a[y]]) + a[x]
      BY <2>1, <3>1, MassAdds
    <3> QED BY <3>1, <3>2 DEF a, R
  <2>7. Mass(on(R)) \in Nat /\ v[x] \in Nat
    <3>1. on(R) \in [R -> Nat]
      BY <2>2
    <3> HIDE DEF R, on
    <3> QED BY <1>6, <2>1, <2>2, <3>1, MassType
  <2> QED BY <1>6, <2>4, <2>5, <2>6, <2>7
<1> QED BY <1>7, <1>8

\* There is such an addition: the sums themselves.
LEMMA FoldExists ==
    ASSUME NEW W, IsFiniteSet(W), NEW v \in [W -> Nat]
    PROVE  \E f : Adding(f, v, W)
<1> DEFINE f == [Y \in SUBSET W |-> Mass([x \in Y |-> v[x]])]
<1>1. ASSUME NEW Y \in SUBSET W
      PROVE  f[Y] = IF Y = {} THEN 0 ELSE v[One(Y)] + f[Y \ {One(Y)}]
  <2>1. CASE Y = {}
    BY <2>1, MassNone
  <2>2. CASE Y # {}
    <3> DEFINE x == One(Y)
               R == Y \ {x}
               a == [y \in Y |-> v[y]]
               b == [y \in R |-> v[y]]
    <3>1. x \in Y /\ IsFiniteSet(Y) /\ IsFiniteSet(R)
      BY <2>2, FS_Subset DEF One
    <3>2. a \in [Y -> Nat] /\ a[x] = v[x] /\ b = [y \in R |-> a[y]] /\ b \in [R -> Nat]
      BY <3>1
    <3>3. f[Y] = Mass(a) /\ f[R] = Mass(b) /\ v[x] \in Nat
      BY <3>1
    <3> HIDE DEF a, b, f
    <3>4. Mass(a) = Mass([y \in R |-> a[y]]) + a[x]
      BY <3>1, <3>2, MassAdds
    <3>5. Mass(b) \in Nat
      BY <3>1, <3>2, MassType
    <3>6. f[Y] = v[x] + f[R]
      BY <3>2, <3>3, <3>4, <3>5
    <3> QED BY <2>2, <3>6
  <2> QED BY <2>1, <2>2
<1>2. f = [Y \in SUBSET W |-> IF Y = {} THEN 0 ELSE v[One(Y)] + f[Y \ {One(Y)}]]
  BY <1>1
<1> QED BY <1>2 DEF Adding

-----------------------------------------------------------------------------
\* Rising one by one from the first member of a set that holds the next of each below
\* the end, everything up to the end is in it.
LEMMA Upward ==
    ASSUME NEW a \in Nat, NEW b \in Nat, NEW Y, a \in Y,
           \A n \in a..(b - 1) : n \in Y => n + 1 \in Y
    PROVE  \A n \in a..b : n \in Y
<1> DEFINE missing == {n \in a..b : n \notin Y}
<1>1. SUFFICES ASSUME missing # {} PROVE FALSE
  BY <1>1
<1>2. missing \in SUBSET Nat
  OBVIOUS
<1>3. PICK n \in missing : \A m \in missing : n <= m
  BY <1>1, <1>2, LeastNat
<1>4. n \in a..b /\ n \notin Y /\ n # a
  BY <1>3
<1>5. n - 1 \in a..(b - 1) /\ n - 1 \notin missing
  BY <1>3, <1>4
<1>6. n - 1 \in Y
  BY <1>5
<1>7. (n - 1) + 1 \in Y
  BY <1>5, <1>6
<1> QED BY <1>4, <1>7

\* The tokens of a set of rows.
Counted(rows) == IsFiniteSet(rows) /\ \A d \in rows : d.tokens \in Nat

LEMMA TotalIsMass ==
    ASSUME NEW W, Counted(W)
    PROVE  Total(W) = Mass([d \in W |-> d.tokens])
<1> DEFINE v == [d \in W |-> d.tokens]
<1>1. v \in [W -> Nat] /\ IsFiniteSet(W)
  BY DEF Counted
<1>2. Total(W) =
        (CHOOSE f : f = [Y \in SUBSET W |-> IF Y = {} THEN 0 ELSE One(Y).tokens + f[Y \ {One(Y)}]])[W]
  BY DEF Total, MapThenSumSet, MapThenFoldSet, One
<1>3. \A Y \in SUBSET W : Y # {} => v[One(Y)] = One(Y).tokens
  BY DEF One
<1>4. ASSUME NEW f
      PROVE  [Y \in SUBSET W |-> IF Y = {} THEN 0 ELSE One(Y).tokens + f[Y \ {One(Y)}]]
               = [Y \in SUBSET W |-> IF Y = {} THEN 0 ELSE v[One(Y)] + f[Y \ {One(Y)}]]
  BY <1>3
<1> HIDE DEF v
<1>5. PICK g : Adding(g, v, W)
  BY <1>1, FoldExists
<1>6. g = [Y \in SUBSET W |-> IF Y = {} THEN 0 ELSE One(Y).tokens + g[Y \ {One(Y)}]]
  BY <1>4, <1>5, Zenon DEF Adding
<1>7. PICK f : /\ f = [Y \in SUBSET W |-> IF Y = {} THEN 0 ELSE One(Y).tokens + f[Y \ {One(Y)}]]
               /\ Total(W) = f[W]
  BY <1>2, <1>6, Zenon
<1>8. Adding(f, v, W)
  BY <1>4, <1>7, Zenon DEF Adding
<1>9. f[W] = Mass(v)
  BY <1>1, <1>8, FoldIsMass
<1> QED BY <1>7, <1>9 DEF v

\* Totals of rows apart add up; of none it is 0, and of one its tokens.
LEMMA TotalSplits ==
    ASSUME NEW A1, NEW B1, Counted(A1), Counted(B1), A1 \cap B1 = {}
    PROVE  /\ Total(A1 \cup B1) = Total(A1) + Total(B1)
           /\ Total(A1) \in Nat /\ Total(B1) \in Nat
<1> DEFINE v == [d \in A1 \cup B1 |-> d.tokens]
           va == [d \in A1 |-> d.tokens]
           vb == [d \in B1 |-> d.tokens]
<1>1. Counted(A1 \cup B1)
  BY FS_Union DEF Counted
<1>2. /\ v \in [A1 \cup B1 -> Nat] /\ va \in [A1 -> Nat] /\ vb \in [B1 -> Nat]
      /\ va = [d \in A1 |-> v[d]] /\ vb = [d \in B1 |-> v[d]]
  BY DEF Counted
<1>3. Total(A1 \cup B1) = Mass(v) /\ Total(A1) = Mass(va) /\ Total(B1) = Mass(vb)
  BY <1>1, TotalIsMass
<1>4. IsFiniteSet(A1) /\ IsFiniteSet(B1)
  BY DEF Counted
<1> HIDE DEF v, va, vb
<1>5. Mass(v) = Mass([d \in A1 |-> v[d]]) + Mass([d \in B1 |-> v[d]])
  BY <1>2, <1>4, MassSplit
<1>6. Mass(va) \in Nat /\ Mass(vb) \in Nat
  BY <1>2, <1>4, MassType
<1> QED BY <1>2, <1>3, <1>5, <1>6

LEMMA TotalOfNone == Total({}) = 0
<1>1. Counted({})
  BY FS_EmptySet DEF Counted
<1>2. Total({}) = Mass([d \in {} |-> d.tokens])
  BY <1>1, TotalIsMass
<1> QED BY <1>2, MassNone

LEMMA TotalOfOne == ASSUME NEW d, d.tokens \in Nat PROVE Counted({d}) /\ Total({d}) = d.tokens
<1>1. Counted({d})
  BY FS_Singleton DEF Counted
<1>2. Total({d}) = Mass([e \in {d} |-> e.tokens])
  BY <1>1, TotalIsMass
<1>3. [e \in {d} |-> e.tokens] \in [{d} -> Nat] /\ [e \in {d} |-> e.tokens][d] = d.tokens
  OBVIOUS
<1>4. Mass([e \in {d} |-> e.tokens]) = d.tokens
  BY <1>3, MassOne
<1> QED BY <1>1, <1>2, <1>4

-----------------------------------------------------------------------------
\* What a series used from tick a to tick b.
Ledger         == [Times -> Nat]
Spent(h, a, b) == Mass([t \in a..b |-> h[t]])

LEMMA UsedIsSpent ==
    ASSUME NEW s, NEW k, used[<<s, k>>] \in Ledger, NEW a \in Nat, NEW b \in Times
    PROVE  UsedBetween(s, k, a, b) = Spent(used[<<s, k>>], a, b)
<1> DEFINE W == a..b
           h == used[<<s, k>>]
           v == [t \in W |-> h[t]]
<1>0. a \in Int /\ b \in Int /\ \A t \in W : t \in Times
  BY CountersAssumption DEF Times
<1>1. v \in [W -> Nat] /\ IsFiniteSet(W)
  BY <1>0, FS_Interval DEF Ledger
<1>2. UsedBetween(s, k, a, b) =
        (CHOOSE f : f = [Y \in SUBSET W |-> IF Y = {} THEN 0 ELSE h[One(Y)] + f[Y \ {One(Y)}]])[W]
  BY DEF UsedBetween, MapThenSumSet, MapThenFoldSet, One
<1>3. \A Y \in SUBSET W : Y # {} => v[One(Y)] = h[One(Y)]
  BY DEF One
<1>4. ASSUME NEW f
      PROVE  [Y \in SUBSET W |-> IF Y = {} THEN 0 ELSE h[One(Y)] + f[Y \ {One(Y)}]]
               = [Y \in SUBSET W |-> IF Y = {} THEN 0 ELSE v[One(Y)] + f[Y \ {One(Y)}]]
  BY <1>3
<1> HIDE DEF v, W, h
<1>5. PICK g : Adding(g, v, W)
  BY <1>1, FoldExists
<1>6. g = [Y \in SUBSET W |-> IF Y = {} THEN 0 ELSE h[One(Y)] + g[Y \ {One(Y)}]]
  BY <1>4, <1>5, Zenon DEF Adding
<1>7. PICK f : /\ f = [Y \in SUBSET W |-> IF Y = {} THEN 0 ELSE h[One(Y)] + f[Y \ {One(Y)}]]
               /\ UsedBetween(s, k, a, b) = f[W]
  BY <1>2, <1>6, Zenon
<1>8. Adding(f, v, W)
  BY <1>4, <1>7, Zenon DEF Adding
<1>9. f[W] = Mass(v)
  BY <1>1, <1>8, FoldIsMass
<1> QED BY <1>7, <1>9 DEF v, h, W, Spent

\* What is used is counted in naturals and adds up; one tick has what it has, and no ticks
\* nothing.
LEMMA SpentType ==
    ASSUME NEW h \in Ledger, NEW a \in Nat, NEW b \in -1..MaxTime
    PROVE  Spent(h, a, b) \in Nat
<1> DEFINE v == [t \in a..b |-> h[t]]
<1>0. a \in Int /\ b \in Int /\ \A t \in a..b : t \in Times
  BY CountersAssumption DEF Times
<1>1. v \in [a..b -> Nat] /\ IsFiniteSet(a..b)
  BY <1>0, FS_Interval DEF Ledger
<1> HIDE DEF v
<1>2. Mass(v) \in Nat
  BY <1>1, MassType
<1> QED BY <1>2 DEF v, Spent

LEMMA SpentEmpty == ASSUME NEW h, NEW a \in Int, NEW b \in Int, a > b PROVE Spent(h, a, b) = 0
<1>1. DOMAIN [t \in a..b |-> h[t]] = {}
  OBVIOUS
<1> QED BY <1>1, MassNone DEF Spent

LEMMA SpentOne == ASSUME NEW h \in Ledger, NEW t \in Times PROVE Spent(h, t, t) = h[t]
<1> DEFINE v == [u \in t..t |-> h[u]]
<1>1. t..t = {t} /\ h[t] \in Nat
  BY CountersAssumption DEF Ledger, Times
<1>2. v \in [{t} -> Nat] /\ v[t] = h[t]
  BY <1>1
<1> HIDE DEF v
<1>3. Mass(v) = h[t]
  BY <1>2, MassOne
<1> QED BY <1>3 DEF v, Spent

LEMMA SpentSplits ==
    ASSUME NEW h \in Ledger, NEW a \in Nat, NEW b \in -1..MaxTime, NEW m \in -1..b, a <= m + 1
    PROVE  Spent(h, a, b) = Spent(h, a, m) + Spent(h, m + 1, b)
<1> DEFINE A1 == a..m
           B1 == (m + 1)..b
           v == [t \in a..b |-> h[t]]
           va == [t \in a..m |-> h[t]]
           vb == [t \in (m + 1)..b |-> h[t]]
<1>0. m \in Int /\ b \in Int
  BY CountersAssumption
<1>1. A1 \cap B1 = {} /\ IsFiniteSet(A1) /\ IsFiniteSet(B1)
  BY <1>0, FS_Interval
<1>2. a..b = A1 \cup B1 /\ v \in [a..b -> Nat]
  BY <1>0, CountersAssumption DEF Ledger, Times
<1>3. va = [t \in A1 |-> v[t]] /\ vb = [t \in B1 |-> v[t]]
  BY <1>2
<1> HIDE DEF A1, B1, v, va, vb
<1>4. v \in [A1 \cup B1 -> Nat]
  BY <1>2
<1>5. Mass(v) = Mass([t \in A1 |-> v[t]]) + Mass([t \in B1 |-> v[t]])
  BY <1>1, <1>4, MassSplit
<1>6. Mass(v) = Mass(va) + Mass(vb)
  BY <1>3, <1>5
<1> QED BY <1>6 DEF v, va, vb, Spent

\* Where nothing is used the sum is 0; where two ledgers agree their sums do.
LEMMA SpentNothing ==
    ASSUME NEW h, NEW a \in Int, NEW b \in Int, \A t \in a..b : h[t] = 0
    PROVE  Spent(h, a, b) = 0
<1>1. Units([t \in a..b |-> h[t]]) = {}
  BY DEF Units
<1> QED BY <1>1, FS_EmptySet DEF Mass, Spent

LEMMA SpentAgrees ==
    ASSUME NEW g, NEW h, NEW a \in Int, NEW b \in Int, \A t \in a..b : g[t] = h[t]
    PROVE  Spent(g, a, b) = Spent(h, a, b)
<1>1. [t \in a..b |-> g[t]] = [t \in a..b |-> h[t]]
  OBVIOUS
<1> QED BY <1>1 DEF Spent

\* What is used at the last tick is added to every sum that ends there.
LEMMA SpentGrows ==
    ASSUME NEW h \in Ledger, NEW n \in Times, NEW d \in Nat, NEW a \in 0..n
    PROVE  /\ [h EXCEPT ![n] = @ + d] \in Ledger
           /\ Spent([h EXCEPT ![n] = @ + d], a, n) = Spent(h, a, n) + d
<1> DEFINE g == [h EXCEPT ![n] = @ + d]
<1>0. n \in Nat /\ a \in Nat /\ n \in -1..MaxTime /\ n - 1 \in -1..n /\ n - 1 \in -1..MaxTime
  BY CountersAssumption DEF Times
<1>1. g \in Ledger /\ g[n] = h[n] + d /\ h[n] \in Nat
  BY DEF Ledger
<1>2. \A t \in a..(n - 1) : g[t] = h[t]
  BY <1>0 DEF Ledger, Times
<1> HIDE DEF g
<1>3. Spent(g, a, n - 1) = Spent(h, a, n - 1)
  BY <1>0, <1>2, SpentAgrees
<1>4. Spent(g, a, n) = Spent(g, a, n - 1) + Spent(g, (n - 1) + 1, n)
  BY <1>0, <1>1, SpentSplits
<1>5. Spent(h, a, n) = Spent(h, a, n - 1) + Spent(h, (n - 1) + 1, n)
  BY <1>0, SpentSplits
<1>6. (n - 1) + 1 = n
  BY <1>0
<1>7. Spent(g, n, n) = g[n] /\ Spent(h, n, n) = h[n]
  BY <1>1, SpentOne
<1>8. Spent(h, a, n - 1) \in Nat
  BY <1>0, SpentType
<1>9. Spent(g, a, n) = Spent(h, a, n) + d
  BY <1>1, <1>3, <1>4, <1>5, <1>6, <1>7, <1>8
<1> QED BY <1>1, <1>9 DEF g

-----------------------------------------------------------------------------
\* One counter.  rows are its reports, stored or on their way, h what was really used,
\* c the running total its agent holds, n the tick.

\* A later total is an earlier one and all that was used between, or, after a restart,
\* some of what was used between.
Follows(old, new, spent) == new <= spent \/ new = old + spent

Steady(rows, h, c, n) ==
    /\ \A r \in rows : r.ts \in 0..n /\ r.value \in Nat /\ r.value <= Spent(h, 0, r.ts)
    /\ \A q, r \in rows : q.ts = r.ts => q = r
    /\ \A q, r \in rows : q.ts < r.ts => Follows(q.value, r.value, Spent(h, q.ts + 1, r.ts))
    /\ c <= Spent(h, 0, n)
    /\ \A q \in rows : Follows(q.value, c, Spent(h, q.ts + 1, n))
    /\ \A t \in Times : t > n => h[t] = 0

\* Every total is all that was used: the agent never restarted.
Whole(rows, h, c, n) == c = Spent(h, 0, n) /\ \A r \in rows : r.value = Spent(h, 0, r.ts)

\* Every tick with use has a report: none was deleted.
Kept(rows, h) == \A t \in Times : h[t] > 0 => \E r \in rows : r.ts = t

\* A report keeps all three.
LEMMA ReportKeeps ==
    ASSUME NEW rows, NEW h \in Ledger, NEW c \in Nat, NEW n \in Times, NEW e \in Nat, c <= e,
           Steady(rows, h, c, n), \A r \in rows : r.ts # n,
           NEW p, p.ts = n, p.value = e,
           NEW g \in Ledger, g[n] = h[n] + (e - c), \A t \in Times : t # n => g[t] = h[t]
    PROVE  /\ Steady(rows \cup {p}, g, e, n)
           /\ Whole(rows, h, c, n) => Whole(rows \cup {p}, g, e, n)
           /\ Kept(rows, h) => Kept(rows \cup {p}, g)
<1> DEFINE d == e - c
<1>b. d \in Nat /\ e = c + d
  OBVIOUS
<1>c. g[n] = h[n] + d
  OBVIOUS
<1> HIDE DEF d
<1>a. g = [h EXCEPT ![n] = @ + d]
  BY <1>c DEF Ledger
<1>1. n \in Nat /\ n \in -1..MaxTime
  BY CountersAssumption DEF Times
<1>2. \A a \in 0..n : Spent(g, a, n) = Spent(h, a, n) + d /\ Spent(h, a, n) \in Nat
  <2>1. ASSUME NEW a \in 0..n
        PROVE  Spent(g, a, n) = Spent(h, a, n) + d /\ Spent(h, a, n) \in Nat
    <3>1. a \in Nat
      OBVIOUS
    <3>2. Spent([h EXCEPT ![n] = @ + d], a, n) = Spent(h, a, n) + d
      BY <1>b, SpentGrows
    <3> QED BY <1>1, <1>a, <3>1, <3>2, SpentType
  <2> QED BY <2>1
<1>3. \A r \in rows : r.ts \in 0..(n - 1)
  BY <1>1 DEF Steady
<1>4. \A t \in 0..(n - 1) : g[t] = h[t]
  BY <1>1, CountersAssumption DEF Times
<1>5. ASSUME NEW r \in rows, NEW a \in Nat PROVE Spent(g, a, r.ts) = Spent(h, a, r.ts)
  <2> DEFINE b == r.ts
  <2>1. a \in Int /\ b \in 0..(n - 1) /\ b \in Int
    BY <1>1, <1>3
  <2> HIDE DEF b
  <2>2. \A t \in a..b : g[t] = h[t]
    BY <1>1, <1>4, <2>1
  <2>3. [t \in a..b |-> g[t]] = [t \in a..b |-> h[t]]
    BY <2>2, Zenon
  <2> QED BY <2>3, Zenon DEF b, Spent
<1>6. \A r \in rows : r.value \in Nat
  BY DEF Steady
<1>0. /\ Spent(g, 0, n) = Spent(h, 0, n) + d /\ Spent(h, 0, n) \in Nat
      /\ c <= Spent(h, 0, n) /\ e = c + d
  <2>1. 0 \in 0..n
    BY <1>1
  <2>2. Spent(g, 0, n) = Spent(h, 0, n) + d /\ Spent(h, 0, n) \in Nat
    BY <1>2, <2>1
  <2> QED BY <1>b, <2>2 DEF Steady
<1>7. Steady(rows \cup {p}, g, e, n)
  <2>1. \A r \in rows \cup {p} : r.ts \in 0..n /\ r.value \in Nat /\ r.value <= Spent(g, 0, r.ts)
    <3>1. \A r \in rows : Spent(g, 0, r.ts) = Spent(h, 0, r.ts)
      BY <1>5
    <3>2. \A r \in rows : r.value <= Spent(g, 0, r.ts)
      BY <3>1 DEF Steady
    <3>3. e <= Spent(g, 0, n)
      BY <1>0, <1>b
    <3>4. p.value <= Spent(g, 0, p.ts) /\ p.value \in Nat /\ p.ts \in 0..n
      BY <1>0, <1>1, <3>3
    <3>5. \A r \in rows : r.ts \in 0..n
      BY <1>1, <1>3
    <3> QED BY <1>6, <3>2, <3>4, <3>5
  <2>2. \A q, r \in rows \cup {p} : q.ts = r.ts => q = r
    BY DEF Steady
  <2>3. \A q \in rows : Follows(q.value, e, Spent(g, q.ts + 1, n))
    <3>1. ASSUME NEW q \in rows PROVE Follows(q.value, e, Spent(g, q.ts + 1, n))
      <4>1. q.ts + 1 \in 0..n
        BY <1>1, <1>3
      <4>2. Follows(q.value, c, Spent(h, q.ts + 1, n))
        BY DEF Steady
      <4>3. Spent(g, q.ts + 1, n) = Spent(h, q.ts + 1, n) + d /\ Spent(h, q.ts + 1, n) \in Nat
        BY <1>2, <4>1
      <4> QED BY <1>6, <1>b, <4>2, <4>3 DEF Follows
    <3> QED BY <3>1
  <2>4. \A q, r \in rows \cup {p} : q.ts < r.ts => Follows(q.value, r.value, Spent(g, q.ts + 1, r.ts))
    <3>1. ASSUME NEW q \in rows \cup {p}, NEW r \in rows \cup {p}, q.ts < r.ts
          PROVE  Follows(q.value, r.value, Spent(g, q.ts + 1, r.ts))
      <4>1. q \in rows
        BY <1>1, <1>3, <3>1
      <4>2. CASE r = p
        BY <2>3, <4>1, <4>2
      <4>3. CASE r \in rows
        <5>1. q.ts + 1 \in Nat
          BY <1>3, <4>1
        <5>2. Spent(g, q.ts + 1, r.ts) = Spent(h, q.ts + 1, r.ts)
          BY <1>5, <4>3, <5>1
        <5> QED BY <3>1, <4>1, <4>3, <5>2 DEF Steady
      <4> QED BY <4>2, <4>3
    <3> QED BY <3>1
  <2>5. e <= Spent(g, 0, n)
    BY <1>0, <1>b
  <2>6. \A q \in rows \cup {p} : Follows(q.value, e, Spent(g, q.ts + 1, n))
    <3>1. Follows(p.value, e, Spent(g, p.ts + 1, n))
      <4>1. Spent(g, n + 1, n) = 0
        BY <1>1, SpentEmpty
      <4> QED BY <4>1 DEF Follows
    <3> QED BY <2>3, <3>1
  <2>7. \A t \in Times : t > n => g[t] = 0
    BY <1>1 DEF Steady, Ledger, Times
  <2> QED BY <2>1, <2>2, <2>4, <2>5, <2>6, <2>7 DEF Steady
<1>8. ASSUME Whole(rows, h, c, n) PROVE Whole(rows \cup {p}, g, e, n)
  <2>1. \A r \in rows : Spent(g, 0, r.ts) = Spent(h, 0, r.ts)
    BY <1>5
  <2>2. e = Spent(g, 0, n)
    BY <1>0, <1>8 DEF Whole
  <2> QED BY <1>8, <2>1, <2>2 DEF Whole
<1>9. Kept(rows, h) => Kept(rows \cup {p}, g)
  BY DEF Kept, Ledger
<1> QED BY <1>7, <1>8, <1>9

\* Nothing is used yet at the next tick.
LEMMA TickKeeps ==
    ASSUME NEW rows, NEW h \in Ledger, NEW c \in Nat, NEW n \in Times, n < MaxTime,
           Steady(rows, h, c, n)
    PROVE  /\ Steady(rows, h, c, n + 1)
           /\ Whole(rows, h, c, n) => Whole(rows, h, c, n + 1)
<1>1. n \in Nat /\ n + 1 \in -1..MaxTime /\ n \in -1..(n + 1) /\ n + 1 \in Times
  BY CountersAssumption DEF Times
<1>2. h[n + 1] = 0
  BY <1>1 DEF Steady
<1>3. ASSUME NEW a \in 0..(n + 1) PROVE Spent(h, a, n + 1) = Spent(h, a, n)
  <2>1. a \in Nat /\ a <= n + 1
    BY <1>1
  <2>2. Spent(h, a, n + 1) = Spent(h, a, n) + Spent(h, n + 1, n + 1)
    BY <1>1, <2>1, SpentSplits
  <2>3. Spent(h, n + 1, n + 1) = 0
    BY <1>1, <1>2, SpentOne
  <2>4. n \in -1..MaxTime
    BY <1>1, CountersAssumption
  <2>5. Spent(h, a, n) \in Nat
    BY <2>1, <2>4, SpentType
  <2> QED BY <2>2, <2>3, <2>5
<1>4. Spent(h, 0, n + 1) = Spent(h, 0, n)
  BY <1>1, <1>3
<1>5. \A q \in rows : Spent(h, q.ts + 1, n + 1) = Spent(h, q.ts + 1, n)
  BY <1>1, <1>3 DEF Steady
<1> QED BY <1>1, <1>4, <1>5 DEF Steady, Whole, Times

\* A restarted counter holds nothing, and fewer reports are no less steady.
LEMMA RestartKeeps ==
    ASSUME NEW rows, NEW h \in Ledger, NEW c, NEW n \in Times, Steady(rows, h, c, n)
    PROVE  Steady(rows, h, 0, n)
<1>1. n \in -1..MaxTime
  BY CountersAssumption DEF Times
<1>2. Spent(h, 0, n) \in Nat
  BY <1>1, SpentType
<1>3. \A q \in rows : Spent(h, q.ts + 1, n) \in Nat
  BY <1>1, SpentType DEF Steady
<1> QED BY <1>2, <1>3 DEF Steady, Follows

LEMMA FewerKeep ==
    ASSUME NEW rows, NEW fewer \in SUBSET rows, NEW h, NEW c, NEW n
    PROVE  /\ Steady(rows, h, c, n) => Steady(fewer, h, c, n)
           /\ Whole(rows, h, c, n) => Whole(fewer, h, c, n)
BY DEF Steady, Whole

-----------------------------------------------------------------------------
\* The inductive invariant of the counters.

SeriesInv(s, k) ==
    /\ Steady(Reported(s, k), used[<<s, k>>], counter[<<s, k>>], now)
    /\ restarts[s] = 0 => Whole(Reported(s, k), used[<<s, k>>], counter[<<s, k>>], now)
    /\ cutoff = 0 => Kept(Reported(s, k), used[<<s, k>>])

CounterInv == TypeOK /\ \A s \in Sessions, k \in Kinds : SeriesInv(s, k)

\* What a series holds has its types.
LEMMA SeriesTypes ==
    ASSUME TypeOK, NEW s \in Sessions, NEW k \in Kinds
    PROVE  /\ used[<<s, k>>] \in Ledger /\ counter[<<s, k>>] \in Nat
           /\ now \in Times /\ now \in Nat /\ <<s, k>> \in Series
BY CountersAssumption DEF TypeOK, Series, Ledger, Times

\* At first nothing is used and nothing reported.
LEMMA CounterInvInit == Init => CounterInv
<1>1. SUFFICES ASSUME Init PROVE CounterInv
  OBVIOUS
<1>2. TypeOK
  BY <1>1, CountersAssumption DEF Init, TypeOK, Times
<1>3. ASSUME NEW s \in Sessions, NEW k \in Kinds PROVE SeriesInv(s, k)
  <2> DEFINE h == used[<<s, k>>]
  <2>1. Reported(s, k) = {} /\ counter[<<s, k>>] = 0 /\ now = 0
    BY <1>1 DEF Init, Reported, Series
  <2>2. \A t \in Times : h[t] = 0
    BY <1>1 DEF Init, Series
  <2> HIDE DEF h
  <2>3. \A t \in 0..0 : h[t] = 0
    BY <2>2, CountersAssumption DEF Times
  <2>4. Spent(h, 0, 0) = 0
    BY <2>3, SpentNothing
  <2>5. Steady({}, h, 0, 0) /\ Whole({}, h, 0, 0) /\ Kept({}, h)
    BY <2>2, <2>4 DEF Steady, Whole, Kept
  <2> QED BY <2>1, <2>5 DEF SeriesInv, h
<1> QED BY <1>2, <1>3 DEF CounterInv

\* No action leaves the types.
LEMMA CounterTypes == TypeOK /\ [Next]_vars => TypeOK'
<1> SUFFICES ASSUME TypeOK, [Next]_vars PROVE TypeOK'
  OBVIOUS
<1>0. now \in Nat
  BY CountersAssumption DEF TypeOK, Times
<1>1. ASSUME NEW s \in Sessions, NEW k \in Kinds, NEW n \in Spends, NEW arrives \in BOOLEAN,
             Report(s, k, n, arrives)
      PROVE  TypeOK'
  <2>0. <<s, k>> \in Series /\ n \in Nat /\ counter[<<s, k>>] \in Nat /\ now \in Times
    BY SeriesTypes, CountersAssumption
  <2>1. [session |-> s, kind |-> k, ts |-> now, value |-> counter[<<s, k>>] + n] \in Point
    BY <2>0 DEF Point
  <2>2. k = "reasoning" =>
          [by |-> s, kind |-> k, ts |-> now, tokens |-> n, labelled |-> TRUE] \in Turn
    BY <2>0 DEF Turn, TokenKinds
  <2>3. counter' \in [Series -> Nat]
    <3>1. counter[<<s, k>>] + n \in Nat
      BY <2>0
    <3>2. counter' = [counter EXCEPT ![<<s, k>>] = counter[<<s, k>>] + n]
      BY <1>1 DEF Report
    <3> QED BY <2>0, <3>1, <3>2 DEF TypeOK
  <2>4. used' \in [Series -> [Times -> Nat]]
    <3>1. used[<<s, k>>] \in [Times -> Nat]
      BY <2>0 DEF TypeOK
    <3>2. [used[<<s, k>>] EXCEPT ![now] = @ + n] \in [Times -> Nat]
      BY <2>0, <3>1
    <3>3. used' = [used EXCEPT ![<<s, k>>] = [used[<<s, k>>] EXCEPT ![now] = @ + n]]
      BY <1>1 DEF Report
    <3> HIDE DEF Series
    <3> QED BY <2>0, <3>2, <3>3 DEF TypeOK
  <2>5. metrics' \subseteq Point /\ late' \subseteq Point
    BY <1>1, <2>1 DEF Report, TypeOK
  <2>6. turns' \subseteq Turn
    BY <1>1, <2>2 DEF Report, TypeOK
  <2> QED BY <1>1, <2>3, <2>4, <2>5, <2>6 DEF Report, TypeOK
<1>2. ASSUME NEW r \in late, Deliver(r) PROVE TypeOK'
  BY <1>2 DEF Deliver, TypeOK
<1>3. ASSUME NEW s \in Sessions, Restart(s) PROVE TypeOK'
  <2>1. restarts[s] \in 0..MaxRestarts /\ restarts[s] < MaxRestarts
    BY <1>3 DEF Restart, TypeOK
  <2>2. restarts[s] + 1 \in 0..MaxRestarts
    BY <2>1, CountersAssumption
  <2>3. restarts' \in [Sessions -> 0..MaxRestarts]
    BY <1>3, <2>2 DEF Restart, TypeOK
  <2>4. counter' \in [Series -> Nat]
    BY <1>3 DEF Restart, TypeOK
  <2> QED BY <1>3, <2>3, <2>4 DEF Restart, TypeOK
<1>4. ASSUME NEW s \in Sessions, NEW p \in Projects \cup {NoProject}, Mark(s, p) PROVE TypeOK'
  BY <1>4 DEF Mark, TypeOK, Marker
<1>5. ASSUME NEW source \in Sources, NEW n \in Spends \ {0}, NEW labelled \in BOOLEAN,
             TakeTurn(source, n, labelled)
      PROVE  TypeOK'
  <2>1. n \in Nat
    BY CountersAssumption
  <2>2. \A k \in {"input", "total"} :
          [by |-> source, kind |-> k, ts |-> now, tokens |-> n, labelled |-> labelled] \in Turn
    BY <2>1 DEF Turn, TokenKinds, CacheKinds, TypeOK
  <2> QED BY <1>5, <2>2 DEF TakeTurn, TypeOK
<1>6. ASSUME Tick PROVE TypeOK'
  BY <1>0, <1>6, CountersAssumption DEF Tick, TypeOK, Times
<1>7. ASSUME NEW c \in Times, Retain(c) PROVE TypeOK'
  BY <1>7 DEF Retain, TypeOK
<1>8. ASSUME UNCHANGED vars PROVE TypeOK'
  BY <1>8 DEF vars, TypeOK
<1> QED BY <1>1, <1>2, <1>3, <1>4, <1>5, <1>6, <1>7, <1>8 DEF Next

\* A series that nothing touches stays as it was.
LEMMA SeriesUntouched ==
    ASSUME NEW s, NEW k, SeriesInv(s, k), UNCHANGED <<now, used[<<s, k>>], counter[<<s, k>>]>>,
           Reported(s, k)' = Reported(s, k), UNCHANGED <<restarts[s], cutoff>>
    PROVE  SeriesInv(s, k)'
BY DEF SeriesInv, Steady, Whole, Kept

\* Every action keeps the invariant.
LEMMA CounterInvStep == CounterInv /\ [Next]_vars => CounterInv'
<1> SUFFICES ASSUME CounterInv, [Next]_vars PROVE CounterInv'
  OBVIOUS
<1>0. TypeOK /\ TypeOK'
  BY CounterTypes DEF CounterInv
<1> SUFFICES ASSUME NEW s \in Sessions, NEW k \in Kinds PROVE SeriesInv(s, k)'
  BY <1>0 DEF CounterInv
<1>a. SeriesInv(s, k)
  BY DEF CounterInv
<1>b. /\ used[<<s, k>>] \in Ledger /\ counter[<<s, k>>] \in Nat /\ now \in Times /\ now \in Nat
      /\ <<s, k>> \in Series
  BY <1>0, SeriesTypes
<1>1. ASSUME NEW z \in Sessions, NEW y \in Kinds, NEW n \in Spends, NEW arrives \in BOOLEAN,
             Report(z, y, n, arrives)
      PROVE  SeriesInv(s, k)'
  <2> DEFINE p == [session |-> z, kind |-> y, ts |-> now, value |-> counter[<<z, y>>] + n]
  <2>1. metrics' \cup late' = metrics \cup late \cup {p}
    BY <1>1 DEF Report
  <2>2. CASE z = s /\ y = k
    <3>1. Reported(s, k)' = Reported(s, k) \cup {p}
      BY <2>1, <2>2 DEF Reported
    <3>2. \A r \in Reported(s, k) : r.ts # now
      BY <1>1, <2>2 DEF Report
    <3>3. /\ counter'[<<s, k>>] = counter[<<s, k>>] + n
          /\ used'[<<s, k>>] = [used[<<s, k>>] EXCEPT ![now] = @ + n]
      BY <1>0, <1>1, <1>b, <2>2 DEF Report, TypeOK
    <3>4. n \in Nat /\ p.ts = now /\ p.value = counter[<<s, k>>] + n
      BY <2>2, CountersAssumption
    <3>5. now' = now /\ restarts' = restarts /\ cutoff' = cutoff
      BY <1>1 DEF Report
    <3> DEFINE rows == Reported(s, k)
               h == used[<<s, k>>]
               c == counter[<<s, k>>]
               g == used'[<<s, k>>]
               e == counter[<<s, k>>] + n
    <3>6. /\ h \in Ledger /\ c \in Nat /\ Steady(rows, h, c, now)
          /\ \A r \in rows : r.ts # now
          /\ g \in Ledger /\ g[now] = h[now] + (e - c) /\ \A t \in Times : t # now => g[t] = h[t]
          /\ p.value = e /\ p.ts = now /\ e \in Nat /\ c <= e /\ now \in Times
      BY <1>a, <1>b, <3>2, <3>3, <3>4 DEF SeriesInv, Ledger
    <3> HIDE DEF p, rows, h, c, g, e
    <3>7. /\ Steady(rows \cup {p}, g, e, now)
          /\ Whole(rows, h, c, now) => Whole(rows \cup {p}, g, e, now)
          /\ Kept(rows, h) => Kept(rows \cup {p}, g)
      <4>1. Steady(rows \cup {p}, g, e, now)
        BY <3>6, ReportKeeps
      <4>2. Whole(rows, h, c, now) => Whole(rows \cup {p}, g, e, now)
        BY <3>6, ReportKeeps
      <4>3. Kept(rows, h) => Kept(rows \cup {p}, g)
        BY <3>6, ReportKeeps
      <4> QED BY <4>1, <4>2, <4>3
    <3> QED BY <1>a, <3>1, <3>3, <3>5, <3>7 DEF SeriesInv, rows, h, c, g, e
  <2>3. CASE ~(z = s /\ y = k)
    <3>1. <<z, y>> # <<s, k>>
      BY <2>3
    <3>2. Reported(s, k)' = Reported(s, k)
      BY <2>1, <2>3 DEF Reported
    <3>3. used'[<<s, k>>] = used[<<s, k>>] /\ counter'[<<s, k>>] = counter[<<s, k>>]
      BY <1>0, <1>1, <1>b, <3>1 DEF Report, TypeOK
    <3>4. now' = now /\ restarts' = restarts /\ cutoff' = cutoff
      BY <1>1 DEF Report
    <3> QED BY <1>a, <3>2, <3>3, <3>4, SeriesUntouched
  <2> QED BY <2>2, <2>3
<1>2. ASSUME NEW r \in late, Deliver(r) PROVE SeriesInv(s, k)'
  <2>1. metrics' \cup late' = metrics \cup late
    BY <1>2 DEF Deliver
  <2>2. Reported(s, k)' = Reported(s, k)
    BY <2>1 DEF Reported
  <2> QED BY <1>2, <1>a, <2>2, SeriesUntouched DEF Deliver
<1>3. ASSUME NEW z \in Sessions, Restart(z) PROVE SeriesInv(s, k)'
  <2>1. Reported(s, k)' = Reported(s, k) /\ now' = now /\ used' = used /\ cutoff' = cutoff
    BY <1>3 DEF Restart, Reported
  <2>2. CASE z = s
    <3>1. counter'[<<s, k>>] = 0
      BY <1>3, <1>b, <2>2 DEF Restart
    <3>2. restarts'[s] # 0
      BY <1>0, <1>3, <2>2 DEF Restart, TypeOK
    <3>3. Steady(Reported(s, k), used[<<s, k>>], 0, now)
      BY <1>a, <1>b, RestartKeeps DEF SeriesInv
    <3> QED BY <1>a, <2>1, <3>1, <3>2, <3>3 DEF SeriesInv
  <2>3. CASE z # s
    <3>1. counter'[<<s, k>>] = counter[<<s, k>>] /\ restarts'[s] = restarts[s]
      BY <1>0, <1>3, <1>b, <2>3 DEF Restart, TypeOK
    <3> QED BY <1>a, <2>1, <3>1, SeriesUntouched
  <2> QED BY <2>2, <2>3
<1>4. ASSUME NEW z \in Sessions, NEW p \in Projects \cup {NoProject}, Mark(z, p)
      PROVE  SeriesInv(s, k)'
  BY <1>4, <1>a, SeriesUntouched DEF Mark, Reported
<1>5. ASSUME NEW source \in Sources, NEW n \in Spends \ {0}, NEW labelled \in BOOLEAN,
             TakeTurn(source, n, labelled)
      PROVE  SeriesInv(s, k)'
  BY <1>5, <1>a, SeriesUntouched DEF TakeTurn, Reported
<1>6. ASSUME Tick PROVE SeriesInv(s, k)'
  <2>1. /\ Reported(s, k)' = Reported(s, k) /\ now' = now + 1 /\ now < MaxTime
        /\ used' = used /\ counter' = counter /\ restarts' = restarts /\ cutoff' = cutoff
    BY <1>6 DEF Tick, Reported
  <2>2. /\ Steady(Reported(s, k), used[<<s, k>>], counter[<<s, k>>], now + 1)
        /\ Whole(Reported(s, k), used[<<s, k>>], counter[<<s, k>>], now) =>
             Whole(Reported(s, k), used[<<s, k>>], counter[<<s, k>>], now + 1)
    BY <1>a, <1>b, <2>1, TickKeeps DEF SeriesInv
  <2> QED BY <1>a, <2>1, <2>2 DEF SeriesInv
<1>7. ASSUME NEW c \in Times, Retain(c) PROVE SeriesInv(s, k)'
  <2>1. /\ Reported(s, k)' \in SUBSET Reported(s, k) /\ now' = now
        /\ used' = used /\ counter' = counter /\ restarts' = restarts
    BY <1>7 DEF Retain, Reported
  <2>2. cutoff' # 0
    BY <1>0, <1>7, CountersAssumption DEF Retain, TypeOK, Times
  <2>3. /\ Steady(Reported(s, k)', used[<<s, k>>], counter[<<s, k>>], now)
        /\ Whole(Reported(s, k), used[<<s, k>>], counter[<<s, k>>], now) =>
             Whole(Reported(s, k)', used[<<s, k>>], counter[<<s, k>>], now)
    BY <1>a, <2>1, FewerKeep DEF SeriesInv
  <2> QED BY <1>a, <2>1, <2>2, <2>3 DEF SeriesInv
<1>8. ASSUME UNCHANGED vars PROVE SeriesInv(s, k)'
  BY <1>8, <1>a, SeriesUntouched DEF vars, Reported
<1> QED BY <1>1, <1>2, <1>3, <1>4, <1>5, <1>6, <1>7, <1>8 DEF Next

-----------------------------------------------------------------------------
\* The readings of one counter.  R are its stored rows.

Timed(R) ==
    /\ \A r \in R : r.ts \in Times /\ r.value \in Nat
    /\ \A q, r \in R : q.ts = r.ts => q = r

\* The last value before tick n, and the first tick after that row.
Before(R, n) == LastValue({r \in R : r.ts < n})
After(R, n)  == LET older == {r \in R : r.ts < n}
                IN  IF older = {} THEN 0 ELSE Latest(older).ts + 1

\* What the rows of the ticks from a to n - 1 add, row by row.
Deltas(R, s, k, a, n) ==
    {[by |-> s, kind |-> k, ts |-> r.ts, tokens |-> Growth(r.value, Before(R, r.ts)),
      labelled |-> TRUE] : r \in {q \in R : a <= q.ts /\ q.ts < n}}
Grown(R, s, k, a, n) == Total(Deltas(R, s, k, a, n))

\* The latest row is the one that none is later than.
LEMMA LatestIs ==
    ASSUME NEW R, Timed(R), R # {}
    PROVE  Latest(R) \in R /\ \A q \in R : q.ts <= Latest(R).ts
<1> DEFINE ages == {MaxTime - r.ts : r \in R}
<1>1. \A r \in R : r.ts \in Nat /\ r.ts <= MaxTime
  BY CountersAssumption DEF Timed, Times
<1>2. ages \in SUBSET Nat /\ ages # {}
  BY <1>1, CountersAssumption
<1>3. PICK x \in ages : \A y \in ages : x <= y
  BY <1>2, LeastNat
<1>4. PICK r \in R : x = MaxTime - r.ts
  BY <1>3
<1>5. ASSUME NEW q \in R PROVE q.ts <= r.ts
  <2>1. x <= MaxTime - q.ts
    BY <1>3
  <2> QED BY <1>1, <1>4, <2>1, CountersAssumption
<1>6. \E p \in R : \A q \in R : q.ts <= p.ts
  BY <1>5
<1> QED BY <1>6 DEF Latest

LEMMA LatestUnique ==
    ASSUME NEW R, Timed(R), NEW x \in R, \A q \in R : q.ts <= x.ts
    PROVE  Latest(R) = x /\ LastValue(R) = x.value
<1>1. Latest(R) \in R /\ \A q \in R : q.ts <= Latest(R).ts
  BY LatestIs
<1>2. x.ts <= Latest(R).ts /\ Latest(R).ts <= x.ts
  BY <1>1
<1>3. x.ts \in Nat /\ Latest(R).ts \in Nat
  BY <1>1, CountersAssumption DEF Timed, Times
<1>4. x.ts = Latest(R).ts
  BY <1>2, <1>3
<1>5. Latest(R) = x
  BY <1>1, <1>4 DEF Timed
<1> QED BY <1>5 DEF LastValue

\* The last row before a tick, if there is one.
LEMMA BeforeIs ==
    ASSUME NEW R, Timed(R), NEW n \in Nat
    PROVE  \/ /\ \A r \in R : ~(r.ts < n)
              /\ Before(R, n) = NoRow /\ After(R, n) = 0
           \/ \E x \in R : /\ x.ts < n /\ x.ts \in Nat /\ \A q \in R : q.ts < n => q.ts <= x.ts
                           /\ Before(R, n) = x.value /\ After(R, n) = x.ts + 1
                           /\ x.value \in Nat /\ x.value # NoRow
<1> DEFINE older == {r \in R : r.ts < n}
<1>1. CASE older = {}
  BY <1>1 DEF Before, After, LastValue
<1>2. CASE older # {}
  <2>1. Timed(older)
    BY DEF Timed
  <2>2. Latest(older) \in older /\ \A q \in older : q.ts <= Latest(older).ts
    BY <1>2, <2>1, LatestIs
  <2>3. Before(R, n) = Latest(older).value /\ After(R, n) = Latest(older).ts + 1
    BY <1>2 DEF Before, After, LastValue
  <2>4. Latest(older).ts \in Nat /\ Latest(older).value \in Nat
    BY <2>2, CountersAssumption DEF Timed, Times
  <2>5. Latest(older).value # NoRow
    BY <2>4, CountersAssumption
  <2> DEFINE x == Latest(older)
  <2>6. /\ x \in R /\ x.ts < n /\ x.ts \in Nat /\ \A q \in R : q.ts < n => q.ts <= x.ts
        /\ Before(R, n) = x.value /\ After(R, n) = x.ts + 1
        /\ x.value \in Nat /\ x.value # NoRow
    BY <2>2, <2>3, <2>4, <2>5
  <2> QED BY <2>6
<1> QED BY <1>1, <1>2

\* Past a row, the last value is the row's; past a tick without one it stays.
LEMMA BeforeNext ==
    ASSUME NEW R, Timed(R), NEW n \in Nat
    PROVE  /\ \A r \in R : r.ts = n => Before(R, n + 1) = r.value /\ After(R, n + 1) = n + 1
           /\ (\A r \in R : r.ts # n) =>
                  Before(R, n + 1) = Before(R, n) /\ After(R, n + 1) = After(R, n)
<1>1. \A r \in R : r.ts \in Nat
  BY CountersAssumption DEF Timed, Times
<1>2. ASSUME NEW r \in R, r.ts = n
      PROVE  Before(R, n + 1) = r.value /\ After(R, n + 1) = n + 1
  <2> DEFINE older == {q \in R : q.ts < n + 1}
  <2>1. Timed(older) /\ r \in older /\ older # {} /\ \A q \in older : q.ts <= r.ts
    BY <1>1, <1>2 DEF Timed
  <2>2. Latest(older) = r /\ LastValue(older) = r.value
    BY <2>1, LatestUnique
  <2> QED BY <1>2, <2>1, <2>2 DEF Before, After
<1>3. ASSUME \A r \in R : r.ts # n
      PROVE  Before(R, n + 1) = Before(R, n) /\ After(R, n + 1) = After(R, n)
  <2>1. {q \in R : q.ts < n + 1} = {q \in R : q.ts < n}
    BY <1>1, <1>3
  <2> QED BY <2>1 DEF Before, After
<1> QED BY <1>2, <1>3

\* A growth is a natural.
LEMMA GrowthType ==
    ASSUME NEW v \in Nat, NEW p, p \in Nat \/ p = NoRow PROVE Growth(v, p) \in Nat
BY DEF Growth

\* There are finitely many ticks.
LEMMA TicksFinite == IsFiniteSet(Times)
<1>1. MaxTime \in Int
  BY CountersAssumption
<1>2. IsFiniteSet(0..MaxTime)
  BY <1>1, FS_Interval
<1> QED BY <1>2 DEF Times

\* The deltas are finitely many, each a natural.
LEMMA DeltasCounted ==
    ASSUME NEW R, Timed(R), NEW s, NEW k, NEW a \in Nat, NEW n \in Nat
    PROVE  Counted(Deltas(R, s, k, a, n))
<1> DEFINE W == Deltas(R, s, k, a, n)
           f == [d \in W |-> d.ts]
<1>1. ASSUME NEW d \in W PROVE d.ts \in Times /\ d.tokens \in Nat
  <2>1. PICK r \in R : d.ts = r.ts /\ d.tokens = Growth(r.value, Before(R, r.ts))
    BY DEF Deltas
  <2>2. r.ts \in Times /\ r.ts \in Nat /\ r.value \in Nat
    BY CountersAssumption DEF Timed, Times
  <2>3. Before(R, r.ts) \in Nat \/ Before(R, r.ts) = NoRow
    BY <2>2, BeforeIs
  <2> QED BY <2>1, <2>2, <2>3, GrowthType
<1> DEFINE D1(r) == [by |-> s, kind |-> k, ts |-> r.ts, tokens |-> Growth(r.value, Before(R, r.ts)),
                     labelled |-> TRUE]
<1>2. ASSUME NEW d \in W, NEW e \in W, d.ts = e.ts PROVE d = e
  <2>1. PICK q \in R : d = D1(q)
    BY DEF Deltas
  <2>2. PICK r \in R : e = D1(r)
    BY DEF Deltas
  <2>3. q.ts = r.ts
    BY <1>2, <2>1, <2>2
  <2>4. q = r
    BY <2>3 DEF Timed
  <2> QED BY <2>1, <2>2, <2>4
<1>3. f \in Injection(W, Times)
  BY <1>1, <1>2 DEF Injection, IsInjective
<1>4. IsFiniteSet(W)
  BY <1>3, TicksFinite, FS_Injection
<1> QED BY <1>1, <1>4 DEF Counted

\* Ticks side by side add up, ticks without a row add nothing, and one with a row its growth.
LEMMA GrownSplits ==
    ASSUME NEW R, Timed(R), NEW s, NEW k, NEW a \in Nat, NEW n \in Nat, NEW m \in Nat,
           a <= m, m <= n
    PROVE  /\ Grown(R, s, k, a, n) = Grown(R, s, k, a, m) + Grown(R, s, k, m, n)
           /\ Grown(R, s, k, a, m) \in Nat /\ Grown(R, s, k, m, n) \in Nat
<1> DEFINE A1 == Deltas(R, s, k, a, m)
           B1 == Deltas(R, s, k, m, n)
<1>1. Counted(A1) /\ Counted(B1)
  BY DeltasCounted
<1>2. \A r \in R : r.ts \in Nat
  BY CountersAssumption DEF Timed, Times
<1>3. Deltas(R, s, k, a, n) = A1 \cup B1
  <2>1. {q \in R : a <= q.ts /\ q.ts < n} =
          {q \in R : a <= q.ts /\ q.ts < m} \cup {q \in R : m <= q.ts /\ q.ts < n}
    BY <1>2
  <2> QED BY <2>1 DEF Deltas
<1>4. A1 \cap B1 = {}
  <2>1. \A d \in A1 : d.ts \in Nat /\ d.ts < m
    BY <1>2 DEF Deltas
  <2>2. \A d \in B1 : d.ts \in Nat /\ m <= d.ts
    BY <1>2 DEF Deltas
  <2> QED BY <2>1, <2>2
<1> HIDE DEF A1, B1
<1>5. Total(A1 \cup B1) = Total(A1) + Total(B1) /\ Total(A1) \in Nat /\ Total(B1) \in Nat
  BY <1>1, <1>4, TotalSplits
<1> QED BY <1>3, <1>5 DEF Grown, A1, B1

LEMMA GrownNone ==
    ASSUME NEW R, NEW s, NEW k, NEW a, NEW n, \A r \in R : ~(a <= r.ts /\ r.ts < n)
    PROVE  Grown(R, s, k, a, n) = 0
<1>1. Deltas(R, s, k, a, n) = {}
  BY DEF Deltas
<1> QED BY <1>1, TotalOfNone DEF Grown

LEMMA GrownOne ==
    ASSUME NEW R, Timed(R), NEW s, NEW k, NEW r \in R
    PROVE  Grown(R, s, k, r.ts, r.ts + 1) = Growth(r.value, Before(R, r.ts))
<1> DEFINE d == [by |-> s, kind |-> k, ts |-> r.ts, tokens |-> Growth(r.value, Before(R, r.ts)),
                 labelled |-> TRUE]
           n == r.ts
<1>1. \A q \in R : q.ts \in Nat
  BY CountersAssumption DEF Timed, Times
<1>2. {q \in R : n <= q.ts /\ q.ts < n + 1} = {r}
  BY <1>1 DEF Timed
<1>3. Deltas(R, s, k, n, n + 1) = {d}
  BY <1>2 DEF Deltas
<1>4. Counted(Deltas(R, s, k, n, n + 1))
  BY <1>1, DeltasCounted
<1>5. d.tokens \in Nat
  BY <1>3, <1>4 DEF Counted
<1> HIDE DEF d
<1>6. Total({d}) = d.tokens
  BY <1>5, TotalOfOne
<1> QED BY <1>3, <1>6 DEF Grown, d

\* The row by row sum and the window delta of a window, in terms of these.
LEMMA RowGrowthIs ==
    ASSUME NEW w, w.from \in Nat, w.to \in Nat, NEW s, NEW k, Timed(Rows(s, k)),
           NEW r \in RowsIn(w, s, k)
    PROVE  RowGrowth(w, r) = Growth(r.value, Before(Rows(s, k), r.ts))
<1> DEFINE R == Rows(s, k)
           earlier == {q \in RowsIn(w, s, k) : q.ts < r.ts}
           older == {q \in R : q.ts < r.ts}
<1>1. /\ \A q \in R : q.ts \in Nat
      /\ r \in R /\ r.session = s /\ r.kind = k /\ w.from <= r.ts /\ r.ts <= w.to
  BY CountersAssumption DEF Timed, Times, Rows, RowsIn, In
<1>2. RowGrowth(w, r) =
        Growth(r.value, IF earlier = {} THEN Before(R, w.from) ELSE LastValue(earlier))
  BY <1>1 DEF RowGrowth, Baseline, Before
<1>3. CASE earlier = {}
  <2>1. {q \in R : q.ts < w.from} = older
    BY <1>1, <1>3 DEF RowsIn, In
  <2> QED BY <1>2, <1>3, <2>1 DEF Before
<1>4. CASE earlier # {}
  <2>1. Timed(earlier) /\ Timed(older) /\ older # {}
    BY <1>4 DEF Timed, RowsIn
  <2>2. Latest(older) \in older /\ \A q \in older : q.ts <= Latest(older).ts
    BY <2>1, LatestIs
  <2>3. PICK z \in earlier : TRUE
    BY <1>4
  <2>4. z \in older /\ w.from <= z.ts
    BY <2>3 DEF RowsIn, In
  <2>5. Latest(older) \in earlier
    BY <1>1, <2>2, <2>4 DEF RowsIn, In
  <2>6. \A q \in earlier : q.ts <= Latest(older).ts
    BY <2>2 DEF RowsIn
  <2>7. LastValue(earlier) = Latest(older).value
    BY <2>1, <2>5, <2>6, LatestUnique
  <2> QED BY <1>2, <1>4, <2>1, <2>7 DEF Before, LastValue
<1> QED BY <1>3, <1>4

LEMMA RowTotalIs ==
    ASSUME NEW w, w.from \in Nat, w.to \in Nat, NEW s, NEW k, Timed(Rows(s, k))
    PROVE  RowTotal(w, s, k) = Grown(Rows(s, k), s, k, w.from, w.to + 1)
<1> DEFINE R == Rows(s, k)
<1>1. {q \in R : w.from <= q.ts /\ q.ts < w.to + 1} = RowsIn(w, s, k)
  BY CountersAssumption DEF Timed, Times, RowsIn, In
<1>2. \A r \in RowsIn(w, s, k) : RowGrowth(w, r) = Growth(r.value, Before(R, r.ts))
  BY RowGrowthIs
<1>3. SeriesDeltas(w, s, k) = Deltas(R, s, k, w.from, w.to + 1)
  BY <1>1, <1>2 DEF SeriesDeltas, Deltas
<1> QED BY <1>3 DEF RowTotal, Grown

LEMMA WindowDeltaIs ==
    ASSUME NEW w, w.from \in Nat, w.to \in Nat, NEW s, NEW k, Timed(Rows(s, k))
    PROVE  LET R == Rows(s, k) IN
           /\ (\E r \in R : w.from <= r.ts /\ r.ts < w.to + 1) =>
                  WindowDelta(w, s, k) = Growth(Before(R, w.to + 1), Before(R, w.from))
           /\ (\A r \in R : ~(w.from <= r.ts /\ r.ts < w.to + 1)) => WindowDelta(w, s, k) = 0
<1> DEFINE R == Rows(s, k)
           older == {q \in R : q.ts < w.to + 1}
           inside == RowsIn(w, s, k)
<1>1. \A q \in R : q.ts \in Nat
  BY CountersAssumption DEF Timed, Times
<1>2. inside = {q \in R : w.from <= q.ts /\ q.ts < w.to + 1}
  BY <1>1 DEF RowsIn, In
<1>3. CASE inside = {}
  BY <1>2, <1>3 DEF WindowDelta
<1>4. CASE inside # {}
  <2>1. Timed(inside) /\ Timed(older)
    BY DEF Timed, RowsIn
  <2>2. Latest(inside) \in inside /\ \A q \in inside : q.ts <= Latest(inside).ts
    BY <1>4, <2>1, LatestIs
  <2>3. Latest(inside) \in older /\ \A q \in older : q.ts <= Latest(inside).ts
    <3> DEFINE x == Latest(inside)
    <3>1. x \in R /\ w.from <= x.ts /\ x.ts < w.to + 1 /\ x.ts \in Nat
      BY <1>1, <1>2, <2>2
    <3>2. \A q \in inside : q.ts <= x.ts
      BY <2>2
    <3> HIDE DEF x
    <3>3. ASSUME NEW q \in older PROVE q.ts <= x.ts
      <4>1. q \in R /\ q.ts < w.to + 1 /\ q.ts \in Nat
        BY <1>1
      <4>2. CASE w.from <= q.ts
        BY <1>2, <3>2, <4>1, <4>2
      <4>3. CASE ~(w.from <= q.ts)
        BY <3>1, <4>1, <4>3
      <4> QED BY <4>2, <4>3
    <3> QED BY <3>1, <3>3 DEF x
  <2>4. LastValue(older) = Latest(inside).value
    BY <2>1, <2>3, LatestUnique
  <2>5. LastValue(inside) = Before(R, w.to + 1)
    BY <1>4, <2>4 DEF LastValue, Before
  <2>6. WindowDelta(w, s, k) = Growth(LastValue(inside), Before(R, w.from))
    BY <1>4 DEF WindowDelta, Baseline, Before
  <2> QED BY <1>2, <1>4, <2>5, <2>6
<1> QED BY <1>3, <1>4

-----------------------------------------------------------------------------
\* The window delta never exceeds the row by row sum, and falls short of it only where the
\* counter went down.

Dip(R, a, n) == \E q, r \in R : q.ts < r.ts /\ a <= r.ts /\ r.ts < n /\ r.value < q.value
Nearly(R, a, n, sum) ==
    \/ (\A r \in R : ~(a <= r.ts /\ r.ts < n)) /\ sum = 0 /\ Before(R, n) = Before(R, a)
    \/ /\ \E r \in R : a <= r.ts /\ r.ts < n
       /\ Growth(Before(R, n), Before(R, a)) <= sum
       /\ Growth(Before(R, n), Before(R, a)) < sum => Dip(R, a, n)

\* A value v after p after b grows by at most what the two steps grow by, and by less only
\* if one of them went down.
LEMMA GrowthSteps ==
    ASSUME NEW v \in Nat, NEW p \in Nat, NEW b, b \in Nat \/ b = NoRow
    PROVE  /\ Growth(v, b) <= Growth(p, b) + Growth(v, p)
           /\ Growth(v, b) < Growth(p, b) + Growth(v, p) => v < p \/ (b # NoRow /\ p < b)
<1>1. CASE b = NoRow
  BY <1>1, CountersAssumption DEF Growth
<1>2. CASE b # NoRow
  BY <1>2, CountersAssumption DEF Growth
<1> QED BY <1>1, <1>2

LEMMA NearlyStep ==
    ASSUME NEW R, Timed(R), NEW a \in Nat, NEW n \in Nat, a <= n, NEW sum \in Nat,
           Nearly(R, a, n, sum), NEW r \in R, r.ts = n
    PROVE  Nearly(R, a, n + 1, sum + Growth(r.value, Before(R, n)))
<1> DEFINE v == r.value
           p == Before(R, n)
           b == Before(R, a)
<1>1. /\ \A q \in R : q.ts \in Nat /\ q.value \in Nat
      /\ Before(R, n + 1) = v /\ v \in Nat
  BY BeforeNext, CountersAssumption DEF Timed, Times
<1>2. (b \in Nat \/ b = NoRow) /\ (p \in Nat \/ p = NoRow)
  BY BeforeIs
<1>3. \E q \in R : a <= q.ts /\ q.ts < n + 1
  OBVIOUS
<1>4. CASE /\ \A q \in R : ~(a <= q.ts /\ q.ts < n)
           /\ sum = 0 /\ p = b
  <2>1. Growth(v, b) \in Nat
    BY <1>1, <1>2, GrowthType
  <2>2. sum + Growth(v, p) = Growth(v, b)
    BY <1>4, <2>1
  <2> QED BY <1>1, <1>3, <2>1, <2>2 DEF Nearly
<1>5. CASE /\ \E q \in R : a <= q.ts /\ q.ts < n
           /\ Growth(p, b) <= sum
           /\ Growth(p, b) < sum => Dip(R, a, n)
  <2>1. PICK x \in R : /\ x.ts < n /\ p = x.value /\ \A q \in R : q.ts < n => q.ts <= x.ts
    BY <1>5, BeforeIs
  <2>2. p \in Nat /\ a <= x.ts
    BY <1>1, <1>5, <2>1
  <2>3. Growth(p, b) \in Nat /\ Growth(v, p) \in Nat /\ Growth(v, b) \in Nat
    BY <1>1, <1>2, <2>2, GrowthType
  <2> DEFINE g1 == Growth(p, b)
             g2 == Growth(v, p)
             g3 == Growth(v, b)
  <2>4. g3 <= g1 + g2 /\ (g3 < g1 + g2 => v < p \/ (b # NoRow /\ p < b))
    BY <1>1, <1>2, <2>2, GrowthSteps
  <2>5. v < p => Dip(R, a, n + 1)
    BY <1>1, <2>1, <2>2 DEF Dip
  <2>6. b # NoRow /\ p < b => Dip(R, a, n + 1)
    <3>1. ASSUME b # NoRow, p < b PROVE Dip(R, a, n + 1)
      <4>1. PICK y \in R : y.ts < a /\ b = y.value
        BY <3>1, BeforeIs
      <4> QED BY <1>1, <2>1, <2>2, <3>1, <4>1 DEF Dip
    <3> QED BY <3>1
  <2>7. Dip(R, a, n) => Dip(R, a, n + 1)
    BY <1>1 DEF Dip
  <2> HIDE DEF g1, g2, g3
  <2>8. g1 <= sum /\ (g1 < sum => Dip(R, a, n + 1)) /\ g1 \in Nat /\ g2 \in Nat /\ g3 \in Nat
    BY <1>5, <2>3, <2>7 DEF g1, g2, g3
  <2>9. g3 <= sum + g2 /\ (g3 < sum + g2 => Dip(R, a, n + 1))
    BY <2>4, <2>5, <2>6, <2>8
  <2> QED BY <1>1, <1>3, <2>9 DEF Nearly, g2, g3
<1> QED BY <1>4, <1>5 DEF Nearly

\* By induction on the end of the window.
LEMMA GrownNearly ==
    ASSUME NEW R, Timed(R), NEW s, NEW k, NEW a \in Nat, NEW e \in Nat, a <= e
    PROVE  Nearly(R, a, e, Grown(R, s, k, a, e))
<1> DEFINE Y == {n \in a..e : Nearly(R, a, n, Grown(R, s, k, a, n))}
<1>1. \A r \in R : r.ts \in Nat
  BY CountersAssumption DEF Timed, Times
<1>2. a \in Y
  <2>1. \A r \in R : ~(a <= r.ts /\ r.ts < a)
    BY <1>1
  <2> QED BY <2>1, GrownNone DEF Nearly
<1>3. ASSUME NEW n \in a..(e - 1), n \in Y PROVE n + 1 \in Y
  <2>0. n \in Nat /\ n + 1 \in Nat /\ a <= n /\ n <= n + 1 /\ n + 1 \in a..e
    OBVIOUS
  <2>1. /\ Grown(R, s, k, a, n + 1) = Grown(R, s, k, a, n) + Grown(R, s, k, n, n + 1)
        /\ Grown(R, s, k, a, n) \in Nat /\ Grown(R, s, k, n, n + 1) \in Nat
    BY <2>0, GrownSplits
  <2>2. Nearly(R, a, n, Grown(R, s, k, a, n))
    BY <1>3
  <2>3. ASSUME NEW r \in R, r.ts = n PROVE Nearly(R, a, n + 1, Grown(R, s, k, a, n + 1))
    <3>1. Grown(R, s, k, n, n + 1) = Growth(r.value, Before(R, n))
      BY <2>3, GrownOne
    <3> QED BY <2>0, <2>1, <2>2, <2>3, <3>1, NearlyStep
  <2>4. ASSUME \A r \in R : r.ts # n PROVE Nearly(R, a, n + 1, Grown(R, s, k, a, n + 1))
    <3>1. \A r \in R : r.ts < n + 1 <=> r.ts < n
      BY <1>1, <2>0, <2>4
    <3>2. Grown(R, s, k, n, n + 1) = 0
      <4>1. \A r \in R : ~(n <= r.ts /\ r.ts < n + 1)
        BY <1>1, <2>0, <2>4
      <4> QED BY <4>1, GrownNone
    <3>3. Before(R, n + 1) = Before(R, n)
      BY <2>0, <2>4, BeforeNext
    <3>4. Grown(R, s, k, a, n + 1) = Grown(R, s, k, a, n)
      BY <2>1, <3>2
    <3> QED BY <2>2, <3>1, <3>3, <3>4 DEF Nearly, Dip
  <2> QED BY <2>0, <2>3, <2>4
<1> HIDE DEF Y
<1>4. \A n \in a..e : n \in Y
  BY <1>2, <1>3, Upward
<1>5. e \in Y
  BY <1>4
<1> QED BY <1>5 DEF Y

-----------------------------------------------------------------------------
\* The row by row sum never counts more than was used since the last row before it.

\* The rows of a steady series: what Steady says of any of its rows.
Rising(R, h) ==
    /\ \A r \in R : r.value <= Spent(h, 0, r.ts)
    /\ \A q, r \in R : q.ts < r.ts => Follows(q.value, r.value, Spent(h, q.ts + 1, r.ts))

LEMMA StoredRows ==
    ASSUME NEW rows, NEW h, NEW c, NEW n \in Times, Steady(rows, h, c, n), NEW R \in SUBSET rows
    PROVE  Timed(R) /\ Rising(R, h)
BY CountersAssumption DEF Steady, Timed, Rising, Times

LEMMA AfterType ==
    ASSUME NEW R, Timed(R), NEW n \in Nat
    PROVE  After(R, n) \in 0..n
BY BeforeIs

LEMMA AfterGrows ==
    ASSUME NEW R, Timed(R), NEW a \in Nat, NEW n \in Nat, a <= n
    PROVE  After(R, a) <= After(R, n)
<1>1. \A r \in R : r.ts \in Nat
  BY CountersAssumption DEF Timed, Times
<1>2. CASE \A r \in R : ~(r.ts < a)
  <2>1. After(R, a) = 0 /\ After(R, n) \in 0..n
    BY <1>2, BeforeIs, AfterType
  <2> QED BY <2>1
<1>3. CASE \E r \in R : r.ts < a
  <2>1. PICK x \in R : x.ts < a /\ x.ts \in Nat /\ After(R, a) = x.ts + 1
    BY <1>3, BeforeIs
  <2>2. x.ts < n
    BY <2>1
  <2>3. PICK y \in R : y.ts \in Nat /\ x.ts <= y.ts /\ After(R, n) = y.ts + 1
    BY <2>1, <2>2, BeforeIs
  <2> QED BY <2>1, <2>3
<1> QED BY <1>2, <1>3

LEMMA OvercountStep ==
    ASSUME NEW R, Timed(R), NEW h \in Ledger, Rising(R, h), NEW r \in R, NEW n \in Times, r.ts = n
    PROVE  Growth(r.value, Before(R, n)) <= Spent(h, After(R, n), n)
<1> DEFINE v == r.value
           p == Before(R, n)
           sum == Spent(h, After(R, n), n)
<1>1. n \in Nat /\ n \in -1..MaxTime /\ v \in Nat
  BY CountersAssumption DEF Timed, Times
<1>2. sum \in Nat
  BY <1>1, AfterType, SpentType
<1>3. CASE p = NoRow /\ After(R, n) = 0
  <2>1. v <= Spent(h, 0, n)
    BY DEF Rising
  <2> QED BY <1>3, <2>1 DEF Growth
<1>4. CASE \E x \in R : x.ts < n /\ p = x.value /\ After(R, n) = x.ts + 1 /\ x.value \in Nat
  <2>1. p \in Nat /\ Follows(p, v, sum)
    BY <1>4 DEF Rising
  <2> HIDE DEF v, p, sum
  <2>2. Growth(v, p) <= sum
    BY <1>1, <1>2, <2>1, CountersAssumption DEF Growth, Follows
  <2> QED BY <2>2 DEF v, p, sum
<1> QED BY <1>1, <1>3, <1>4, BeforeIs

\* By induction on the end of the window.
LEMMA GrownAtMost ==
    ASSUME NEW R, Timed(R), NEW h \in Ledger, Rising(R, h), NEW s, NEW k,
           NEW a \in Times, NEW b \in Times, a <= b
    PROVE  Grown(R, s, k, a, b + 1) <= Spent(h, After(R, a), b)
<1> DEFINE o == After(R, a)
           Y == {n \in a..(b + 1) : Grown(R, s, k, a, n) <= Spent(h, o, After(R, n) - 1)}
<1>1. /\ \A r \in R : r.ts \in Nat
      /\ a \in Nat /\ b \in Nat /\ MaxTime \in Nat /\ b <= MaxTime /\ b + 1 \in Nat
  BY CountersAssumption DEF Timed, Times
<1>2. o \in 0..a /\ o \in Nat
  BY <1>1, AfterType
<1>3. a \in Y
  <2>1. Grown(R, s, k, a, a) = 0
    <3>1. \A r \in R : ~(a <= r.ts /\ r.ts < a)
      BY <1>1
    <3> QED BY <3>1, GrownNone
  <2>2. Spent(h, o, o - 1) = 0
    BY <1>2, SpentEmpty
  <2> QED BY <1>1, <2>1, <2>2
<1>4. ASSUME NEW n \in a..(b + 1 - 1), n \in Y PROVE n + 1 \in Y
  <2>0. /\ n \in Nat /\ n + 1 \in Nat /\ a <= n /\ n <= n + 1 /\ n + 1 \in a..(b + 1)
        /\ n \in Times /\ n \in -1..MaxTime
    BY <1>1 DEF Times
  <2>1. /\ Grown(R, s, k, a, n + 1) = Grown(R, s, k, a, n) + Grown(R, s, k, n, n + 1)
        /\ Grown(R, s, k, a, n) \in Nat /\ Grown(R, s, k, n, n + 1) \in Nat
    BY <1>1, <2>0, GrownSplits
  <2>2. Grown(R, s, k, a, n) <= Spent(h, o, After(R, n) - 1)
    BY <1>4
  <2>3. ASSUME NEW r \in R, r.ts = n
        PROVE  Grown(R, s, k, a, n + 1) <= Spent(h, o, After(R, n + 1) - 1)
    <3>1. Grown(R, s, k, n, n + 1) = Growth(r.value, Before(R, n))
      BY <2>3, GrownOne
    <3>2. Growth(r.value, Before(R, n)) <= Spent(h, After(R, n), n)
      BY <2>0, <2>3, OvercountStep
    <3>3. After(R, n + 1) = n + 1
      BY <2>0, <2>3, BeforeNext
    <3> DEFINE m == After(R, n) - 1
    <3>4. o <= m + 1 /\ m \in -1..n /\ m + 1 = After(R, n) /\ m \in -1..MaxTime /\ m + 1 \in Nat
      <4>1. o <= After(R, n) /\ After(R, n) \in 0..n
        BY <1>1, <2>0, AfterGrows, AfterType
      <4> QED BY <1>1, <2>0, <4>1 DEF Times
    <3> HIDE DEF m, o
    <3>5. Spent(h, o, n) = Spent(h, o, m) + Spent(h, m + 1, n)
      BY <1>2, <2>0, <3>4, SpentSplits
    <3>6. Spent(h, o, m) \in Nat /\ Spent(h, m + 1, n) \in Nat
      BY <1>2, <2>0, <3>4, SpentType
    <3>7. Grown(R, s, k, a, n) <= Spent(h, o, m)
      BY <2>2 DEF m
    <3>8. Grown(R, s, k, n, n + 1) <= Spent(h, m + 1, n)
      BY <3>1, <3>2, <3>4
    <3>9. Grown(R, s, k, a, n + 1) <= Spent(h, o, n)
      BY <2>1, <3>5, <3>6, <3>7, <3>8
    <3>10. (n + 1) - 1 = n
      BY <2>0
    <3> QED BY <3>3, <3>9, <3>10
  <2>4. ASSUME \A r \in R : r.ts # n
        PROVE  Grown(R, s, k, a, n + 1) <= Spent(h, o, After(R, n + 1) - 1)
    <3>1. Grown(R, s, k, n, n + 1) = 0
      <4>1. \A r \in R : ~(n <= r.ts /\ r.ts < n + 1)
        BY <1>1, <2>0, <2>4
      <4> QED BY <4>1, GrownNone
    <3>2. After(R, n + 1) = After(R, n)
      BY <2>0, <2>4, BeforeNext
    <3>3. Grown(R, s, k, a, n + 1) = Grown(R, s, k, a, n)
      BY <2>1, <3>1
    <3> QED BY <2>2, <3>2, <3>3
  <2> HIDE DEF o
  <2> QED BY <2>0, <2>3, <2>4
<1> HIDE DEF Y
<1>5. \A n \in a..(b + 1) : n \in Y
  BY <1>1, <1>3, <1>4, Upward
<1>6. Grown(R, s, k, a, b + 1) <= Spent(h, o, After(R, b + 1) - 1)
  <2>1. b + 1 \in a..(b + 1)
    BY <1>1
  <2> QED BY <1>5, <2>1 DEF Y
<1> DEFINE m == After(R, b + 1) - 1
<1>7. o <= m + 1 /\ m \in -1..b /\ m \in -1..MaxTime /\ m + 1 \in Nat /\ b \in -1..MaxTime
  <2>1. o <= After(R, b + 1) /\ After(R, b + 1) \in 0..(b + 1)
    BY <1>1, AfterGrows, AfterType
  <2> QED BY <1>1, <2>1
<1> HIDE DEF m, o
<1>8. Spent(h, o, b) = Spent(h, o, m) + Spent(h, m + 1, b)
  BY <1>2, <1>7, SpentSplits
<1>9. Spent(h, o, m) \in Nat /\ Spent(h, m + 1, b) \in Nat
  BY <1>2, <1>7, SpentType
<1>10. Grown(R, s, k, a, b + 1) <= Spent(h, o, m)
  BY <1>6 DEF m
<1>11. Grown(R, s, k, a, b + 1) \in Nat
  BY <1>1, GrownSplits
<1> QED BY <1>8, <1>9, <1>10, <1>11 DEF o

-----------------------------------------------------------------------------
\* When nothing restarted and nothing is missing both readings are exact.

\* The rows of a whole and kept series: each is all that was used, and none is missing.
Exact(R, h) == Kept(R, h) /\ \A r \in R : r.value = Spent(h, 0, r.ts)

\* The last row before a tick tells all that was used before it.
LEMMA BeforeExact ==
    ASSUME NEW R, Timed(R), NEW h \in Ledger, Exact(R, h), NEW n \in 0..(MaxTime + 1)
    PROVE  \/ Before(R, n) = NoRow /\ Spent(h, 0, n - 1) = 0
           \/ Before(R, n) = Spent(h, 0, n - 1)
<1> DEFINE Told(m) == \/ Before(R, m) = NoRow /\ Spent(h, 0, m - 1) = 0
                      \/ Before(R, m) = Spent(h, 0, m - 1)
           Y == {m \in 0..(MaxTime + 1) : Told(m)}
<1>1. MaxTime \in Nat /\ MaxTime + 1 \in Nat /\ \A r \in R : r.ts \in Nat
  BY CountersAssumption DEF Timed, Times
<1>2. 0 \in Y
  <2>1. \A r \in R : ~(r.ts < 0)
    BY <1>1
  <2>2. Before(R, 0) = NoRow
    BY <2>1, BeforeIs
  <2>3. Spent(h, 0, 0 - 1) = 0
    BY SpentEmpty
  <2> QED BY <1>1, <2>2, <2>3
<1>3. ASSUME NEW m \in 0..(MaxTime + 1 - 1), m \in Y PROVE m + 1 \in Y
  <2>1. /\ m \in Nat /\ m \in Times /\ m \in -1..MaxTime /\ m - 1 \in -1..m
        /\ (m - 1) + 1 = m /\ (m + 1) - 1 = m /\ m + 1 \in 0..(MaxTime + 1)
    BY <1>1 DEF Times
  <2>2. CASE \E r \in R : r.ts = m
    <3>1. PICK r \in R : r.ts = m
      BY <2>2
    <3>2. Before(R, m + 1) = Spent(h, 0, m)
      BY <2>1, <3>1, BeforeNext DEF Exact
    <3> QED BY <2>1, <3>2
  <2>3. CASE \A r \in R : r.ts # m
    <3>1. Before(R, m + 1) = Before(R, m)
      BY <2>1, <2>3, BeforeNext
    <3>2. h[m] = 0
      BY <2>1, <2>3 DEF Exact, Kept, Ledger
    <3>3. Spent(h, 0, m) = Spent(h, 0, m - 1) + Spent(h, m, m)
      <4>1. 0 <= (m - 1) + 1 /\ 0 \in Nat
        BY <2>1
      <4>2. Spent(h, 0, m) = Spent(h, 0, m - 1) + Spent(h, (m - 1) + 1, m)
        BY <2>1, <4>1, SpentSplits
      <4> QED BY <2>1, <4>2
    <3>4. Spent(h, m, m) = 0
      BY <2>1, <3>2, SpentOne
    <3>5. Spent(h, 0, m - 1) \in Nat
      <4>1. m - 1 \in -1..MaxTime
        BY <1>1, <2>1
      <4> QED BY <4>1, SpentType
    <3>6. Spent(h, 0, m) = Spent(h, 0, m - 1)
      BY <3>3, <3>4, <3>5
    <3> QED BY <1>3, <2>1, <3>1, <3>6
  <2> QED BY <2>2, <2>3
<1> HIDE DEF Y
<1>4. \A m \in 0..(MaxTime + 1) : m \in Y
  BY <1>1, <1>2, <1>3, Upward
<1>5. n \in Y
  BY <1>4
<1> QED BY <1>5 DEF Y

\* One tick adds what was used in it.
LEMMA ExactStep ==
    ASSUME NEW R, Timed(R), NEW h \in Ledger, Exact(R, h), NEW s, NEW k, NEW n \in Times
    PROVE  Grown(R, s, k, n, n + 1) = h[n]
<1>1. /\ n \in Nat /\ n \in -1..MaxTime /\ n - 1 \in -1..n /\ n - 1 \in -1..MaxTime
      /\ (n - 1) + 1 = n /\ n \in 0..(MaxTime + 1) /\ h[n] \in Nat
      /\ \A r \in R : r.ts \in Nat
  BY CountersAssumption DEF Timed, Times, Ledger
<1>2. CASE \E r \in R : r.ts = n
  <2>1. PICK r \in R : r.ts = n
    BY <1>2
  <2> DEFINE sum == Spent(h, 0, n - 1)
             p == Before(R, n)
  <2>2. r.value = sum + h[n]
    <3>1. Spent(h, 0, n) = Spent(h, 0, n - 1) + Spent(h, (n - 1) + 1, n)
      <4>1. 0 <= (n - 1) + 1 /\ 0 \in Nat
        BY <1>1
      <4> QED BY <1>1, <4>1, SpentSplits
    <3>2. Spent(h, n, n) = h[n]
      BY SpentOne
    <3> QED BY <1>1, <2>1, <3>1, <3>2 DEF Exact
  <2>3. sum \in Nat
    BY <1>1, SpentType
  <2>4. (p = NoRow /\ sum = 0) \/ p = sum
    BY <1>1, BeforeExact
  <2>5. Grown(R, s, k, n, n + 1) = Growth(r.value, p)
    BY <2>1, GrownOne
  <2> HIDE DEF sum, p
  <2>6. Growth(r.value, p) = h[n]
    BY <1>1, <2>2, <2>3, <2>4, CountersAssumption DEF Growth
  <2> QED BY <2>5, <2>6
<1>3. CASE \A r \in R : r.ts # n
  <2>1. h[n] = 0
    BY <1>1, <1>3 DEF Exact, Kept
  <2>2. \A r \in R : ~(n <= r.ts /\ r.ts < n + 1)
    BY <1>1, <1>3
  <2> QED BY <2>1, <2>2, GrownNone
<1> QED BY <1>2, <1>3

\* By induction on the end of the window.
LEMMA GrownExact ==
    ASSUME NEW R, Timed(R), NEW h \in Ledger, Exact(R, h), NEW s, NEW k,
           NEW a \in Times, NEW b \in Times, a <= b
    PROVE  Grown(R, s, k, a, b + 1) = Spent(h, a, b)
<1> DEFINE Y == {n \in a..(b + 1) : Grown(R, s, k, a, n) = Spent(h, a, n - 1)}
<1>1. /\ \A r \in R : r.ts \in Nat
      /\ a \in Nat /\ b \in Nat /\ MaxTime \in Nat /\ b <= MaxTime /\ b + 1 \in Nat
  BY CountersAssumption DEF Timed, Times
<1>2. a \in Y
  <2>1. \A r \in R : ~(a <= r.ts /\ r.ts < a)
    BY <1>1
  <2>2. Grown(R, s, k, a, a) = 0
    BY <2>1, GrownNone
  <2>3. Spent(h, a, a - 1) = 0
    BY <1>1, SpentEmpty
  <2> QED BY <1>1, <2>2, <2>3
<1>3. ASSUME NEW n \in a..(b + 1 - 1), n \in Y PROVE n + 1 \in Y
  <2>1. /\ n \in Nat /\ n + 1 \in Nat /\ a <= n /\ n <= n + 1 /\ n + 1 \in a..(b + 1)
        /\ n \in Times /\ n \in -1..MaxTime /\ n - 1 \in -1..n /\ a <= (n - 1) + 1
        /\ (n - 1) + 1 = n /\ (n + 1) - 1 = n
    BY <1>1 DEF Times
  <2>2. Grown(R, s, k, a, n + 1) = Grown(R, s, k, a, n) + Grown(R, s, k, n, n + 1)
    BY <1>1, <2>1, GrownSplits
  <2>3. Grown(R, s, k, n, n + 1) = h[n]
    BY <2>1, ExactStep
  <2>4. Spent(h, a, n) = Spent(h, a, n - 1) + Spent(h, (n - 1) + 1, n)
    BY <1>1, <2>1, SpentSplits
  <2>5. Spent(h, n, n) = h[n]
    BY <2>1, SpentOne
  <2>6. Grown(R, s, k, a, n) = Spent(h, a, n - 1)
    BY <1>3
  <2>7. Grown(R, s, k, a, n + 1) = Spent(h, a, n)
    BY <2>1, <2>2, <2>3, <2>4, <2>5, <2>6
  <2> QED BY <2>1, <2>7
<1> HIDE DEF Y
<1>4. \A n \in a..(b + 1) : n \in Y
  BY <1>1, <1>2, <1>3, Upward
<1>5. b + 1 \in a..(b + 1) /\ (b + 1) - 1 = b
  BY <1>1
<1> QED BY <1>4, <1>5 DEF Y

\* So does the window delta: the difference of what was used before the window and before
\* its end.
LEMMA DeltaExact ==
    ASSUME NEW s, NEW k, Timed(Rows(s, k)), NEW h \in Ledger, Exact(Rows(s, k), h),
           NEW w, w.from \in Times, w.to \in Times, w.from <= w.to
    PROVE  WindowDelta(w, s, k) = Spent(h, w.from, w.to)
<1> DEFINE R == Rows(s, k)
           a == w.from
           b == w.to
<1>1. /\ a \in Nat /\ b \in Nat /\ a - 1 \in -1..b /\ (a - 1) + 1 = a /\ b \in -1..MaxTime
      /\ a - 1 \in -1..MaxTime /\ a \in 0..(MaxTime + 1) /\ b + 1 \in 0..(MaxTime + 1)
      /\ (b + 1) - 1 = b /\ b + 1 \in Nat
      /\ \A r \in R : r.ts \in Nat
  BY CountersAssumption DEF Timed, Times
<1>2. CASE \E r \in R : a <= r.ts /\ r.ts < b + 1
  <2>1. WindowDelta(w, s, k) = Growth(Before(R, b + 1), Before(R, a))
    BY <1>1, <1>2, WindowDeltaIs
  <2>2. Before(R, b + 1) # NoRow
    BY <1>1, <1>2, BeforeIs
  <2> DEFINE old == Spent(h, 0, a - 1)
             new == Spent(h, 0, b)
             now1 == Spent(h, a, b)
             p == Before(R, a)
             v == Before(R, b + 1)
  <2>3. v = new
    BY <1>1, <2>2, BeforeExact
  <2>4. (p = NoRow /\ old = 0) \/ p = old
    BY <1>1, BeforeExact
  <2>5. new = old + now1
    <3>1. 0 <= (a - 1) + 1 /\ 0 \in Nat
      BY <1>1
    <3>2. Spent(h, 0, b) = Spent(h, 0, a - 1) + Spent(h, (a - 1) + 1, b)
      BY <1>1, <3>1, SpentSplits
    <3> QED BY <1>1, <3>2
  <2>6. old \in Nat /\ now1 \in Nat
    BY <1>1, SpentType
  <2> HIDE DEF p, v, old, new, now1
  <2>7. Growth(v, p) = now1
    BY <2>3, <2>4, <2>5, <2>6, CountersAssumption DEF Growth
  <2> QED BY <2>1, <2>7 DEF p, v, now1
<1>3. CASE \A r \in R : ~(a <= r.ts /\ r.ts < b + 1)
  <2>1. WindowDelta(w, s, k) = 0
    BY <1>1, <1>3, WindowDeltaIs
  <2>2. \A t \in a..b : h[t] = 0
    <3>1. ASSUME NEW t \in a..b PROVE h[t] = 0
      <4>1. t \in Times /\ h[t] \in Nat
        BY <1>1, CountersAssumption DEF Times, Ledger
      <4>2. ~(h[t] > 0)
        BY <1>1, <1>3, <4>1 DEF Exact, Kept
      <4> QED BY <4>1, <4>2
    <3> QED BY <3>1
  <2>3. Spent(h, a, b) = 0
    BY <1>1, <2>2, SpentNothing
  <2> QED BY <2>1, <2>3
<1> QED BY <1>2, <1>3

-----------------------------------------------------------------------------
\* The properties of the counters, in every reachable state.

\* The stored rows of a series are those of a steady one.
LEMMA StoredSeries ==
    ASSUME CounterInv, NEW s \in Sessions, NEW k \in Kinds
    PROVE  Timed(Rows(s, k)) /\ Rising(Rows(s, k), used[<<s, k>>])
<1>1. /\ Steady(Reported(s, k), used[<<s, k>>], counter[<<s, k>>], now) /\ now \in Times
  BY SeriesTypes DEF CounterInv, SeriesInv
<1>2. Rows(s, k) \in SUBSET Reported(s, k)
  BY DEF Rows, Reported
<1> QED BY <1>1, <1>2, StoredRows

LEMMA WindowTypes ==
    ASSUME NEW w \in Windows
    PROVE  /\ w.from \in Times /\ w.to \in Times /\ w.from <= w.to
           /\ w.from \in Nat /\ w.to \in Nat /\ w.to + 1 \in Nat /\ w.from <= w.to + 1
BY CountersAssumption DEF Windows, Times

LEMMA OvercountHolds == CounterInv => RowsNeverOvercount
<1> SUFFICES ASSUME CounterInv, NEW w \in Windows, NEW s \in Sessions, NEW k \in Kinds
             PROVE  LET older == {r \in Rows(s, k) : r.ts < w.from}
                        since == IF older = {} THEN 0 ELSE Latest(older).ts + 1
                    IN  RowTotal(w, s, k) <= UsedBetween(s, k, since, w.to)
  BY DEF RowsNeverOvercount
<1> DEFINE R == Rows(s, k)
           h == used[<<s, k>>]
           o == After(R, w.from)
<1>1. Timed(R) /\ Rising(R, h) /\ h \in Ledger
  BY StoredSeries, SeriesTypes DEF CounterInv
<1>2. RowTotal(w, s, k) = Grown(R, s, k, w.from, w.to + 1)
  BY <1>1, WindowTypes, RowTotalIs
<1>3. o \in Nat
  BY <1>1, WindowTypes, AfterType
<1>4. Grown(R, s, k, w.from, w.to + 1) <= Spent(h, o, w.to)
  BY <1>1, WindowTypes, GrownAtMost
<1>5. UsedBetween(s, k, o, w.to) = Spent(h, o, w.to)
  BY <1>1, <1>3, WindowTypes, UsedIsSpent
<1>6. RowTotal(w, s, k) <= UsedBetween(s, k, o, w.to)
  BY <1>2, <1>4, <1>5
<1> QED BY <1>6 DEF After

LEMMA ExactHolds == CounterInv => ExactWhenComplete
<1> SUFFICES ASSUME CounterInv, NEW w \in Windows, NEW s \in Sessions, NEW k \in Kinds,
                    Stored(s, k), restarts[s] = 0
             PROVE  /\ RowTotal(w, s, k) = UsedBetween(s, k, w.from, w.to)
                    /\ WindowDelta(w, s, k) = UsedBetween(s, k, w.from, w.to)
  BY DEF ExactWhenComplete
<1> DEFINE R == Rows(s, k)
           h == used[<<s, k>>]
<1>1. Timed(R) /\ h \in Ledger
  BY StoredSeries, SeriesTypes DEF CounterInv
<1>2. R = Reported(s, k)
  BY DEF Rows, Reported, Stored
<1>3. Exact(R, h)
  BY <1>2 DEF CounterInv, SeriesInv, Stored, Whole, Exact
<1>4. UsedBetween(s, k, w.from, w.to) = Spent(h, w.from, w.to)
  BY <1>1, WindowTypes, UsedIsSpent
<1>5. RowTotal(w, s, k) = Spent(h, w.from, w.to)
  <2>1. RowTotal(w, s, k) = Grown(R, s, k, w.from, w.to + 1)
    BY <1>1, WindowTypes, RowTotalIs
  <2>2. Grown(R, s, k, w.from, w.to + 1) = Spent(h, w.from, w.to)
    BY <1>1, <1>3, WindowTypes, GrownExact
  <2> QED BY <2>1, <2>2
<1>6. WindowDelta(w, s, k) = Spent(h, w.from, w.to)
  BY <1>1, <1>3, WindowTypes, DeltaExact
<1> QED BY <1>4, <1>5, <1>6

LEMMA ReadingsHold == CounterInv => ReadingsAgree
<1> SUFFICES ASSUME CounterInv, NEW w \in Windows, NEW s \in Sessions, NEW k \in Kinds
             PROVE  /\ WindowDelta(w, s, k) <= RowTotal(w, s, k)
                    /\ WindowDelta(w, s, k) < RowTotal(w, s, k) =>
                           \E q, r \in Rows(s, k) : q.ts < r.ts /\ In(w, r.ts) /\ r.value < q.value
  BY DEF ReadingsAgree
<1> DEFINE R == Rows(s, k)
           a == w.from
           e == w.to + 1
<1>1. Timed(R) /\ a \in Nat /\ e \in Nat /\ a <= e
  BY StoredSeries, WindowTypes
<1>2. RowTotal(w, s, k) = Grown(R, s, k, a, e)
  BY <1>1, WindowTypes, RowTotalIs
<1>3. Nearly(R, a, e, Grown(R, s, k, a, e))
  BY <1>1, GrownNearly
<1>4. /\ (\E r \in R : a <= r.ts /\ r.ts < e) => WindowDelta(w, s, k) = Growth(Before(R, e), Before(R, a))
      /\ (\A r \in R : ~(a <= r.ts /\ r.ts < e)) => WindowDelta(w, s, k) = 0
  BY <1>1, WindowTypes, WindowDeltaIs
<1>5. Dip(R, a, e) => \E q, r \in R : q.ts < r.ts /\ In(w, r.ts) /\ r.value < q.value
  <2>1. \A r \in R : r.ts \in Nat
    BY <1>1, CountersAssumption DEF Timed, Times
  <2> QED BY <2>1, WindowTypes DEF Dip, In
<1> HIDE DEF R, a, e
<1>6. CASE (\A r \in R : ~(a <= r.ts /\ r.ts < e)) /\ Grown(R, s, k, a, e) = 0
  BY <1>2, <1>4, <1>6 DEF R
<1>7. CASE /\ \E r \in R : a <= r.ts /\ r.ts < e
           /\ Growth(Before(R, e), Before(R, a)) <= Grown(R, s, k, a, e)
           /\ Growth(Before(R, e), Before(R, a)) < Grown(R, s, k, a, e) => Dip(R, a, e)
  BY <1>2, <1>4, <1>5, <1>7 DEF R
<1> QED BY <1>3, <1>6, <1>7 DEF Nearly

LEMMA WindowsHold == CounterInv => WindowsAddUp
<1> SUFFICES ASSUME CounterInv, NEW w \in Windows, NEW s \in Sessions, NEW k \in Kinds,
                    NEW m \in Times, w.from <= m, m < w.to
             PROVE  RowTotal(w, s, k) = RowTotal([w EXCEPT !.to = m], s, k)
                                          + RowTotal([w EXCEPT !.from = m + 1], s, k)
  BY DEF WindowsAddUp
<1> DEFINE R == Rows(s, k)
           w1 == [w EXCEPT !.to = m]
           w2 == [w EXCEPT !.from = m + 1]
<1>1. Timed(R) /\ m \in Nat /\ m + 1 \in Nat /\ w.from <= m + 1 /\ m + 1 <= w.to + 1
  <2>1. w.from \in Nat /\ w.to \in Nat
    BY WindowTypes
  <2>2. m \in Nat
    BY CountersAssumption DEF Times
  <2>3. Timed(R)
    BY StoredSeries
  <2> QED BY <2>1, <2>2, <2>3
<1>2. /\ w1.from = w.from /\ w1.to = m
      /\ w2.from = m + 1 /\ w2.to = w.to
  BY DEF Windows
<1> HIDE DEF w1, w2
<1>3. RowTotal(w, s, k) = Grown(R, s, k, w.from, w.to + 1)
  BY <1>1, WindowTypes, RowTotalIs
<1>4. RowTotal(w1, s, k) = Grown(R, s, k, w.from, m + 1)
  <2>1. w1.from \in Nat /\ w1.to \in Nat
    BY <1>1, <1>2, WindowTypes
  <2>2. RowTotal(w1, s, k) = Grown(R, s, k, w1.from, w1.to + 1)
    BY <1>1, <2>1, RowTotalIs
  <2> QED BY <1>2, <2>2
<1>5. RowTotal(w2, s, k) = Grown(R, s, k, m + 1, w.to + 1)
  <2>1. w2.from \in Nat /\ w2.to \in Nat
    BY <1>1, <1>2, WindowTypes
  <2>2. RowTotal(w2, s, k) = Grown(R, s, k, w2.from, w2.to + 1)
    BY <1>1, <2>1, RowTotalIs
  <2> QED BY <1>2, <2>2
<1>6. Grown(R, s, k, w.from, w.to + 1) =
        Grown(R, s, k, w.from, m + 1) + Grown(R, s, k, m + 1, w.to + 1)
  BY <1>1, WindowTypes, GrownSplits
<1> QED BY <1>3, <1>4, <1>5, <1>6 DEF w1, w2

LEMMA CounterReadings ==
    CounterInv => TypeOK /\ RowsNeverOvercount /\ ExactWhenComplete /\ ReadingsAgree /\ WindowsAddUp
BY OvercountHolds, ExactHolds, ReadingsHold, WindowsHold DEF CounterInv

\* In every reachable state, for any sessions, amounts, losses, delays and restarts, the
\* invariant of the counters holds.
THEOREM CounterInvariant == Spec => []CounterInv
<1>1. Init => CounterInv
  BY CounterInvInit
<1>2. CounterInv /\ [Next]_vars => CounterInv'
  BY CounterInvStep
<1> QED BY <1>1, <1>2, PTL DEF Spec

\* The four readings of opencode_counter_deltas and counter_window_deltas: never more than
\* was used, exact when nothing is missing, the window delta at most the row by row sum,
\* neighbouring windows adding up.
THEOREM CounterReadingsAlways ==
    Spec => [](RowsNeverOvercount /\ ExactWhenComplete /\ ReadingsAgree /\ WindowsAddUp)
<1>1. CounterInv => RowsNeverOvercount /\ ExactWhenComplete /\ ReadingsAgree /\ WindowsAddUp
  BY CounterReadings
<1> QED BY <1>1, CounterInvariant, PTL

\* The same of the module the runs check.
THEOREM CountersAgreeAlways == AnalyticsSpec => []CountersAgree
<1> DEFINE I == part = "counters" => CounterInv
<1>1. AnalyticsInit => I
  BY CounterInvInit DEF AnalyticsInit
<1>2. I /\ [AnalyticsNext]_AnalyticsVars => I'
  <2> SUFFICES ASSUME I, [AnalyticsNext]_AnalyticsVars, part' = "counters" PROVE CounterInv'
    OBVIOUS
  <2>1. part = "counters" /\ [Next]_vars
    BY DEF AnalyticsNext, AnalyticsVars
  <2> QED BY <2>1, CounterInvStep
<1>3. I => CountersAgree
  BY CounterReadings DEF CountersAgree
<1> HIDE DEF I
<1> QED BY <1>1, <1>2, <1>3, PTL DEF AnalyticsSpec

-----------------------------------------------------------------------------
\* The cost projection.

\* A set of sets that holds the empty one, and with each part of W any that has one more
\* member, holds W.
LEMMA FiniteUpward ==
    ASSUME NEW W, IsFiniteSet(W), NEW Z, {} \in Z,
           \A Y \in SUBSET W : \A x \in W \ Y : Y \in Z => Y \cup {x} \in Z
    PROVE  W \in Z
<1> DEFINE wrong == {Y \in SUBSET W : Y \notin Z}
           sizes == {Cardinality(Y) : Y \in wrong}
<1>1. SUFFICES ASSUME wrong # {} PROVE FALSE
  BY <1>1
<1>2. \A Y \in SUBSET W : IsFiniteSet(Y) /\ Cardinality(Y) \in Nat
  BY FS_Subset, FS_CardinalityType
<1>3. sizes \in SUBSET Nat /\ sizes # {}
  BY <1>1, <1>2
<1>4. PICK n \in sizes : \A m \in sizes : n <= m
  BY <1>3, LeastNat
<1>5. PICK Y \in wrong : Cardinality(Y) = n
  BY <1>4
<1>6. Y \in SUBSET W /\ Y \notin Z /\ Y # {}
  BY <1>5
<1>7. PICK x \in Y : TRUE
  BY <1>6
<1> DEFINE R == Y \ {x}
<1>8. R \in SUBSET W /\ IsFiniteSet(R) /\ Cardinality(R) = n - 1 /\ x \in W \ R
  BY <1>2, <1>5, <1>6, <1>7, FS_RemoveElement
<1>9. R \cup {x} = Y
  BY <1>7
<1>10. R \notin Z
  BY <1>6, <1>8, <1>9
<1>11. n - 1 \in sizes
  BY <1>8, <1>10
<1>12. n \in Nat
  BY <1>3, <1>4
<1> HIDE DEF sizes
<1>13. n <= n - 1
  BY <1>4, <1>11
<1> QED BY <1>12, <1>13

\* A tick is of day p or later exactly when it is not before the start of day p.
LEMMA DayBounds ==
    ASSUME NEW t \in Int, NEW p \in Int, NEW n \in Nat \ {0}
    PROVE  /\ t \div n \in Int
           /\ p <= t \div n <=> p * n <= t
<1> DEFINE q == t \div n
<1>1. q \in Int /\ q * n <= t /\ t < q * n + n
  OBVIOUS
<1> HIDE DEF q
<1>2. p <= q => p * n <= q * n
  BY <1>1
<1>3. q < p => q * n + n <= p * n
  <2>1. ASSUME q < p PROVE q * n + n <= p * n
    <3>1. q + 1 <= p
      BY <1>1, <2>1
    <3>2. (q + 1) * n <= p * n
      BY <1>1, <3>1
    <3>3. (q + 1) * n = q * n + n
      BY <1>1
    <3> QED BY <3>2, <3>3
  <2> QED BY <2>1
<1>4. p * n \in Int /\ q * n \in Int
  BY <1>1
<1>5. p <= q <=> p * n <= t
  BY <1>1, <1>2, <1>3, <1>4
<1> QED BY <1>1, <1>5 DEF q

\* An instance counts as the library does.
LEMMA SameCount == ASSUME NEW W PROVE J!Cardinality(W) = Cardinality(W)
BY DEF J!Cardinality, Cardinality, J!IsFiniteSet, IsFiniteSet

\* What an input of the projection is.
ProjectionInput ==
    /\ input.month \in Nat /\ input.asof \in 0..(input.month * DayTicks - 1)
    /\ IsFiniteSet(input.calls) /\ \A c \in input.calls : c.at \in Int /\ c.model \in Models \cup {NoModel}

LEMMA ProjectionInputs == J!ProjectionInit => ProjectionInput
<1> SUFFICES ASSUME J!ProjectionInit PROVE ProjectionInput
  OBVIOUS
<1>1. PICK month \in MonthLengths, call \in [1..MaxCalls -> J!Calls] :
        \E asof \in 0..(month * DayTicks - 1) :
          input = [month |-> month, asof |-> asof, calls |-> {call[n] : n \in 1..MaxCalls}]
  BY DEF J!ProjectionInit
<1>2. /\ input.month = month /\ input.asof \in 0..(month * DayTicks - 1)
      /\ input.calls = {call[n] : n \in 1..MaxCalls}
  BY <1>1
<1>3. call \in Surjection(1..MaxCalls, {call[n] : n \in 1..MaxCalls})
  BY DEF Surjection
<1>4. IsFiniteSet(1..MaxCalls)
  BY AnalyticsAssumption, FS_Interval
<1>5. IsFiniteSet(input.calls)
  BY <1>2, <1>3, <1>4, FS_Surjection
<1>6. \A c \in J!Calls : c.at \in Int /\ c.model \in Models \cup {NoModel}
  BY DEF J!Calls, J!Ticks
<1> QED BY <1>1, <1>2, <1>5, <1>6, AnalyticsAssumption DEF ProjectionInput

\* The start of the day q days back is in the series, if the series is q days or longer.
LEMMA SeriesReaches ==
    ASSUME ProjectionInput, NEW q \in Nat, q <= SeriesDays
    PROVE  /\ J!SeriesStart < (J!Today - q + 1) * DayTicks
           /\ J!SeriesStart \in Int /\ J!Today \in Int
<1> DEFINE d == DayTicks
           n == J!Today
           t == input.asof
<1>1. d \in Nat \ {0} /\ t \in Int /\ SeriesDays \in Nat
  BY AnalyticsAssumption DEF ProjectionInput
<1>2. n = t \div d
  BY DEF J!Today, J!Day
<1>3. n \in Int /\ t < (n + 1) * d
  <2>1. n \in Int /\ ~(n + 1 <= n) /\ n + 1 \in Int
    BY <1>1, <1>2, DayBounds
  <2>2. ~((n + 1) * d <= t)
    BY <1>1, <1>2, <2>1, DayBounds
  <2>3. (n + 1) * d \in Int
    BY <1>1, <2>1
  <2> QED BY <1>1, <2>1, <2>2, <2>3
<1>4. J!SeriesStart = t - SeriesDays * d
  BY DEF J!SeriesStart
<1> HIDE DEF d, n, t
<1>5. q * d <= SeriesDays * d
  BY <1>1
<1>6. (n - q + 1) * d = (n + 1) * d - q * d
  BY <1>1, <1>3
<1>7. q * d \in Int /\ SeriesDays * d \in Int /\ (n + 1) * d \in Int
  BY <1>1, <1>3
<1>8. J!SeriesStart < (n - q + 1) * d /\ J!SeriesStart \in Int
  BY <1>1, <1>3, <1>4, <1>5, <1>6, <1>7
<1> QED BY <1>3, <1>8 DEF d, n

\* So the calls of the trailing days in the series are all the calls of those days.
LEMMA TrailingDays ==
    ASSUME ProjectionInput, NEW q \in Nat, q <= SeriesDays
    PROVE  {c \in J!Points : J!Today - q < J!Day(c.at) /\ J!Day(c.at) <= J!Today}
             = {c \in input.calls : (J!Today - q + 1) * DayTicks <= c.at /\ c.at <= input.asof}
<1>1. ASSUME NEW c \in input.calls
      PROVE  J!SeriesStart <= c.at /\ c.at <= input.asof
               /\ J!Today - q < J!Day(c.at) /\ J!Day(c.at) <= J!Today
             <=> (J!Today - q + 1) * DayTicks <= c.at /\ c.at <= input.asof
  <2> DEFINE n == J!Today
             d == DayTicks
             t == c.at
             u == input.asof
             day == J!Day(c.at)
  <2>1. d \in Nat \ {0} /\ t \in Int /\ u \in Int /\ n \in Int
    BY AnalyticsAssumption, SeriesReaches DEF ProjectionInput
  <2>2. day = t \div d /\ n = u \div d
    BY DEF J!Today, J!Day
  <2>3. J!SeriesStart < (n - q + 1) * d /\ J!SeriesStart \in Int /\ (n - q + 1) * d \in Int
    <3>1. J!SeriesStart < (n - q + 1) * d /\ J!SeriesStart \in Int
      BY SeriesReaches
    <3> HIDE DEF n, d
    <3> QED BY <2>1, <3>1
  <2> HIDE DEF n, d, t, u, day
  <2>4. day \in Int /\ n - q + 1 \in Int /\ (n - q + 1 <= day <=> (n - q + 1) * d <= t)
    BY <2>1, <2>2, DayBounds
  <2>5. t <= u => day <= n
    <3>1. day * d <= t /\ day * d \in Int
      BY <2>1, <2>2, <2>4, DayBounds
    <3>2. day * d <= u => day <= n
      BY <2>1, <2>2, <2>4, DayBounds
    <3> QED BY <2>1, <3>1, <3>2
  <2>6. J!SeriesStart <= t /\ t <= u /\ n - q < day /\ day <= n
          <=> (n - q + 1) * d <= t /\ t <= u
    BY <2>1, <2>3, <2>4, <2>5
  <2> QED BY <2>6 DEF n, d, t, u, day
<1> QED BY <1>1 DEF J!Points

LEMMA TrailingComplete == ProjectionInput => J!TrailingSumsComplete
<1> SUFFICES ASSUME ProjectionInput PROVE J!TrailingSumsComplete
  OBVIOUS
<1>1. RateDays \in Nat /\ RateDays <= SeriesDays /\ SeriesDays \in Nat /\ SeriesDays <= SeriesDays
  BY AnalyticsAssumption
<1>2. J!Days7 = {c \in input.calls : (J!Today - RateDays + 1) * DayTicks <= c.at /\ c.at <= input.asof}
  BY <1>1, TrailingDays DEF J!Days7
<1>3. J!Days30 = {c \in input.calls : (J!Today - SeriesDays + 1) * DayTicks <= c.at /\ c.at <= input.asof}
  BY <1>1, TrailingDays DEF J!Days30
<1> QED BY <1>2, <1>3 DEF J!TrailingSumsComplete, J!Cost, J!Spent

LEMMA MonthComplete == ProjectionInput => J!MonthCompleteUntilDay31
<1> SUFFICES ASSUME ProjectionInput, J!Today < SeriesDays
             PROVE  J!Cost(J!ThisMonth) = J!Spent(0, input.asof)
  BY DEF J!MonthCompleteUntilDay31
<1>1. ASSUME NEW c \in input.calls
      PROVE  J!SeriesStart <= c.at /\ 0 <= J!Day(c.at) <=> 0 <= c.at
  <2>1. c.at \in Int /\ DayTicks \in Nat \ {0}
    BY AnalyticsAssumption DEF ProjectionInput
  <2>2. 0 <= J!Day(c.at) <=> 0 * DayTicks <= c.at
    BY <2>1, DayBounds DEF J!Day
  <2>3. J!SeriesStart < 0 /\ J!SeriesStart \in Int
    <3> DEFINE n == J!Today
    <3>1. n \in Int /\ 0 <= n /\ n + 1 <= SeriesDays
      <4>1. n \in Int /\ (0 <= n <=> 0 * DayTicks <= input.asof)
        <5>1. input.asof \in Int /\ n = input.asof \div DayTicks
          BY DEF ProjectionInput, J!Today, J!Day
        <5> HIDE DEF n
        <5> QED BY <2>1, <5>1, DayBounds
      <4> QED BY <2>1, <4>1, AnalyticsAssumption DEF ProjectionInput
    <3>2. J!SeriesStart < (n - (n + 1) + 1) * DayTicks /\ J!SeriesStart \in Int
      <4>1. n + 1 \in Nat
        BY <3>1
      <4> QED BY <3>1, <4>1, SeriesReaches
    <3>3. n - (n + 1) + 1 = 0
      BY <3>1
    <3> HIDE DEF n
    <3> QED BY <2>1, <3>2, <3>3
  <2> QED BY <2>1, <2>2, <2>3
<1>2. J!ThisMonth = {c \in input.calls : 0 <= c.at /\ c.at <= input.asof}
  BY <1>1 DEF J!ThisMonth, J!Points
<1> QED BY <1>2 DEF J!Cost, J!Spent

\* What is counted, and the days that remain, are naturals.
LEMMA ProjectionTypes ==
    ASSUME ProjectionInput
    PROVE  /\ IsFiniteSet(J!Days7) /\ IsFiniteSet(J!ThisMonth)
           /\ J!DaysRemaining \in Nat /\ J!Today \in Int /\ RateDays \in Nat
<1>1. J!Days7 \in SUBSET input.calls /\ J!ThisMonth \in SUBSET input.calls
  BY DEF J!Days7, J!ThisMonth, J!Points
<1>2. \A Y \in SUBSET input.calls : IsFiniteSet(Y)
  BY FS_Subset DEF ProjectionInput
<1>3. J!DaysRemaining \in Nat /\ J!Today \in Int
  <2> DEFINE n == J!Today
             m == input.month
             t == input.asof
             d == DayTicks
  <2>1. d \in Nat \ {0} /\ m \in Nat /\ t \in Int /\ t <= m * d - 1 /\ m * d \in Int
    BY AnalyticsAssumption DEF ProjectionInput
  <2>2. n = t \div d
    BY DEF J!Today, J!Day
  <2> HIDE DEF n, m, t, d
  <2>3. n \in Int /\ (m <= n <=> m * d <= t)
    BY <2>1, <2>2, DayBounds
  <2>4. m - (n + 1) \in Nat
    BY <2>1, <2>3
  <2> QED BY <2>3, <2>4 DEF J!DaysRemaining, n, m
<1> QED BY <1>1, <1>2, <1>3, AnalyticsAssumption

LEMMA LastDayNothing == ProjectionInput => J!LastDayAddsNothing
<1> SUFFICES ASSUME ProjectionInput, J!Today = input.month - 1
             PROVE  J!Projected = J!Cost(J!ThisMonth) * RateDays
  BY DEF J!LastDayAddsNothing
<1>1. J!DaysRemaining = 0
  BY ProjectionTypes DEF J!DaysRemaining, ProjectionInput
<1>2. Cardinality(J!Days7) \in Nat /\ Cardinality(J!ThisMonth) \in Nat /\ RateDays \in Nat
  BY ProjectionTypes, FS_CardinalityType
<1> DEFINE a == Cardinality(J!Days7)
           b == Cardinality(J!ThisMonth)
<1>3. J!Projected = b * RateDays + a * J!DaysRemaining
  BY SameCount DEF J!Projected, J!Projection, J!Cost
<1>4. J!Cost(J!ThisMonth) = b
  BY SameCount DEF J!Cost
<1> HIDE DEF a, b
<1>5. a \in Nat /\ b \in Nat
  BY <1>2 DEF a, b
<1> QED BY <1>1, <1>2, <1>3, <1>4, <1>5

\* The calls of some of the models, and what one more model adds to them.
CallsOf(rows, Y) == {c \in rows : c.model \in Y}

LEMMA ModelAdds ==
    ASSUME NEW rows, IsFiniteSet(rows), NEW Y, NEW m, m \notin Y
    PROVE  /\ Cardinality(CallsOf(rows, Y \cup {m}))
                = Cardinality(CallsOf(rows, Y)) + Cardinality(CallsOf(rows, {m}))
           /\ Cardinality(CallsOf(rows, Y)) \in Nat
           /\ Cardinality(CallsOf(rows, {m})) \in Nat
<1> DEFINE A1 == CallsOf(rows, Y)
           B1 == CallsOf(rows, {m})
<1>1. IsFiniteSet(A1) /\ IsFiniteSet(B1) /\ A1 \cap B1 = {}
  <2>1. A1 \in SUBSET rows /\ B1 \in SUBSET rows /\ A1 \cap B1 = {}
    BY DEF CallsOf
  <2> HIDE DEF A1, B1
  <2> QED BY <2>1, FS_Subset
<1>2. CallsOf(rows, Y \cup {m}) = A1 \cup B1
  BY DEF CallsOf
<1> HIDE DEF A1, B1
<1>3. Cardinality(A1 \cup B1) = Cardinality(A1) + Cardinality(B1) - Cardinality(A1 \cap B1)
  BY <1>1, FS_Union
<1>4. Cardinality(A1 \cap B1) = 0
  BY <1>1, FS_EmptySet
<1>5. Cardinality(A1) \in Nat /\ Cardinality(B1) \in Nat
  BY <1>1, FS_CardinalityType
<1>6. Cardinality(A1 \cup B1) = Cardinality(A1) + Cardinality(B1)
  BY <1>3, <1>4, <1>5
<1> QED BY <1>2, <1>5, <1>6 DEF A1, B1

LEMMA ModelsSum == ProjectionInput => J!ModelsSumToTotal
<1> SUFFICES ASSUME ProjectionInput PROVE J!ModelsSumToTotal
  OBVIOUS
<1> DEFINE W == Models \cup {NoModel}
           d7(Y) == Cardinality(CallsOf(J!Days7, Y))
           tm(Y) == Cardinality(CallsOf(J!ThisMonth, Y))
           rem == J!DaysRemaining
           v == [m \in W |-> J!ModelProjected(m)]
           on(Y) == [m \in Y |-> v[m]]
           Z == {Y \in SUBSET W : Mass(on(Y)) = tm(Y) * RateDays + d7(Y) * rem}
<1>1. IsFiniteSet(W)
  BY AnalyticsAssumption, FS_AddElement
<1>2. /\ IsFiniteSet(J!Days7) /\ IsFiniteSet(J!ThisMonth) /\ rem \in Nat /\ RateDays \in Nat
  BY ProjectionTypes
<1>3. ASSUME NEW m \in W
      PROVE  /\ v[m] = Cardinality(CallsOf(J!ThisMonth, {m})) * RateDays
                        + Cardinality(CallsOf(J!Days7, {m})) * rem
             /\ v[m] \in Nat
  <2> DEFINE x == Cardinality(CallsOf(J!ThisMonth, {m}))
             y == Cardinality(CallsOf(J!Days7, {m}))
  <2>1. v[m] = x * RateDays + y * rem
    <3>1. J!OfModel(J!ThisMonth, m) = CallsOf(J!ThisMonth, {m}) /\ J!OfModel(J!Days7, m) = CallsOf(J!Days7, {m})
      BY DEF J!OfModel, CallsOf
    <3> QED BY <3>1, SameCount DEF J!ModelProjected, J!Projection, J!Cost
  <2>2. x \in Nat /\ y \in Nat
    <3>1. m \notin {}
      OBVIOUS
    <3>2. Cardinality(CallsOf(J!ThisMonth, {m})) \in Nat
      BY <1>2, <3>1, ModelAdds
    <3>3. Cardinality(CallsOf(J!Days7, {m})) \in Nat
      BY <1>2, <3>1, ModelAdds
    <3> QED BY <3>2, <3>3
  <2> HIDE DEF x, y, v, rem
  <2>3. x * RateDays + y * rem \in Nat
    BY <1>2, <2>2
  <2> QED BY <2>1, <2>3 DEF x, y
<1>4. v \in [W -> Nat]
  BY <1>3
<1>5. {} \in Z
  <2>1. Mass(on({})) = 0
    BY MassNone
  <2>2. tm({}) = 0 /\ d7({}) = 0
    <3>1. CallsOf(J!ThisMonth, {}) = {} /\ CallsOf(J!Days7, {}) = {}
      BY DEF CallsOf
    <3> QED BY <3>1, FS_EmptySet
  <2> HIDE DEF on, tm, d7, rem
  <2>3. 0 * RateDays + 0 * rem = 0
    BY <1>2
  <2> QED BY <2>1, <2>2, <2>3
<1>6. ASSUME NEW Y \in SUBSET W, NEW m \in W \ Y, Y \in Z PROVE Y \cup {m} \in Z
  <2> DEFINE R == Y \cup {m}
             g == on(R)
  <2>1. IsFiniteSet(R) /\ R \in SUBSET W /\ m \in R /\ R \ {m} = Y
    BY <1>1, <1>6, FS_Subset
  <2>2. g \in [R -> Nat] /\ g[m] = v[m] /\ [y \in R \ {m} |-> g[y]] = on(Y)
    BY <1>4, <1>6, <2>1
  <2> HIDE DEF g, v
  <2>3. Mass(g) = Mass([y \in R \ {m} |-> g[y]]) + g[m]
    <3>1. IsFiniteSet(R) /\ m \in R /\ g \in [R -> Nat]
      BY <2>1, <2>2
    <3> HIDE DEF R
    <3> QED BY <3>1, MassAdds
  <2>4. Mass(on(R)) = Mass(on(Y)) + v[m]
    BY <2>2, <2>3 DEF g
  <2> DEFINE x == Cardinality(CallsOf(J!ThisMonth, {m}))
             y == Cardinality(CallsOf(J!Days7, {m}))
  <2>5. /\ tm(R) = tm(Y) + x /\ d7(R) = d7(Y) + y
        /\ tm(Y) \in Nat /\ d7(Y) \in Nat /\ x \in Nat /\ y \in Nat
    <3>1. m \notin Y
      BY <1>6
    <3>2. tm(R) = tm(Y) + x /\ tm(Y) \in Nat /\ x \in Nat
      BY <1>2, <3>1, ModelAdds
    <3>3. d7(R) = d7(Y) + y /\ d7(Y) \in Nat /\ y \in Nat
      BY <1>2, <3>1, ModelAdds
    <3> QED BY <3>2, <3>3
  <2>6. v[m] = x * RateDays + y * rem
    BY <1>3
  <2>7. Mass(on(Y)) = tm(Y) * RateDays + d7(Y) * rem
    BY <1>6
  <2> HIDE DEF on, tm, d7, rem, x, y, R
  <2>8. (tm(Y) + x) * RateDays = tm(Y) * RateDays + x * RateDays
    BY <1>2, <2>5
  <2>9. (d7(Y) + y) * rem = d7(Y) * rem + y * rem
    BY <1>2, <2>5
  <2>10. /\ tm(Y) * RateDays \in Nat /\ x * RateDays \in Nat
         /\ d7(Y) * rem \in Nat /\ y * rem \in Nat
    BY <1>2, <2>5
  <2>11. Mass(on(R)) = tm(R) * RateDays + d7(R) * rem
    BY <2>4, <2>5, <2>6, <2>7, <2>8, <2>9, <2>10
  <2> QED BY <2>1, <2>11 DEF R
<1>7. W \in Z
  <2> HIDE DEF Z, W
  <2> QED BY <1>1, <1>5, <1>6, FiniteUpward
<1>8. Mass(v) = tm(W) * RateDays + d7(W) * rem
  <2>1. on(W) = v
    OBVIOUS
  <2> QED BY <1>7, <2>1
<1>9. CallsOf(J!ThisMonth, W) = J!ThisMonth /\ CallsOf(J!Days7, W) = J!Days7
  BY DEF CallsOf, J!ThisMonth, J!Days7, J!Points, ProjectionInput
<1>10. Mass(v) = J!Projected
  <2>1. J!Projected = Cardinality(J!ThisMonth) * RateDays + Cardinality(J!Days7) * rem
    BY SameCount DEF J!Projected, J!Projection, J!Cost
  <2> QED BY <1>8, <1>9, <2>1
<1>11. J!MapThenSumSet(J!ModelProjected, W) = Mass(v)
  <2>1. J!MapThenSumSet(J!ModelProjected, W) =
          (CHOOSE f : f = [Y \in SUBSET W |-> IF Y = {} THEN 0 ELSE J!ModelProjected(One(Y)) + f[Y \ {One(Y)}]])[W]
    BY DEF J!MapThenSumSet, J!MapThenFoldSet, One
  <2>2. \A Y \in SUBSET W : Y # {} => v[One(Y)] = J!ModelProjected(One(Y))
    BY DEF One
  <2>3. ASSUME NEW f
        PROVE  [Y \in SUBSET W |-> IF Y = {} THEN 0 ELSE J!ModelProjected(One(Y)) + f[Y \ {One(Y)}]]
                 = [Y \in SUBSET W |-> IF Y = {} THEN 0 ELSE v[One(Y)] + f[Y \ {One(Y)}]]
    BY <2>2
  <2> HIDE DEF v, W
  <2>4. PICK g : Adding(g, v, W)
    BY <1>1, <1>4, FoldExists
  <2>5. g = [Y \in SUBSET W |-> IF Y = {} THEN 0 ELSE J!ModelProjected(One(Y)) + g[Y \ {One(Y)}]]
    BY <2>3, <2>4, Zenon DEF Adding
  <2>6. PICK f : /\ f = [Y \in SUBSET W |-> IF Y = {} THEN 0 ELSE J!ModelProjected(One(Y)) + f[Y \ {One(Y)}]]
                 /\ J!MapThenSumSet(J!ModelProjected, W) = f[W]
    BY <2>1, <2>5, Zenon
  <2>7. Adding(f, v, W)
    BY <2>3, <2>6, Zenon DEF Adding
  <2>8. f[W] = Mass(v)
    BY <1>1, <1>4, <2>7, FoldIsMass
  <2> QED BY <2>6, <2>8
<1> QED BY <1>10, <1>11 DEF J!ModelsSumToTotal

\* For any month, models and calls: the trailing sums and, up to the 30th day, the month so
\* far count every call of their days, the projections of the models sum to the projected
\* total, and on the last day of a month nothing is added.
THEOREM ProjectionsCompleteAlways == AnalyticsSpec => []ProjectionsComplete
<1> DEFINE I == part = "projection" => ProjectionInput
<1>1. AnalyticsInit => I
  BY ProjectionInputs DEF AnalyticsInit
<1>2. I /\ [AnalyticsNext]_AnalyticsVars => I'
  BY DEF AnalyticsNext, AnalyticsVars, ProjectionInput
<1>3. I => ProjectionsComplete
  BY TrailingComplete, MonthComplete, ModelsSum, LastDayNothing DEF ProjectionsComplete
<1> HIDE DEF I
<1> QED BY <1>1, <1>2, <1>3, PTL DEF AnalyticsSpec

-----------------------------------------------------------------------------
\* Buckets by calendar day.

DaysInput ==
    /\ input.at \in Int /\ input.before \in Int /\ input.after \in Int
    /\ input.start \in Int /\ input.end \in Int
    /\ DayLength <= input.start /\ input.start < input.end
    /\ input.end <= (LastDay - 1) * DayLength

LEMMA DaysInputs == D!Init => DaysInput
<1>1. D!Instants \subseteq Int
  BY DEF D!Instants
<1> SUFFICES ASSUME D!Init PROVE DaysInput
  OBVIOUS
<1>2. PICK z \in D!Zones, s \in D!Instants, e \in D!Instants :
        input = [at |-> z.at, before |-> z.before, after |-> z.after, start |-> s, end |-> e]
  BY DEF D!Init, D!Inputs
<1>3. /\ input.at = z.at /\ input.before = z.before /\ input.after = z.after
      /\ input.start = s /\ input.end = e
  BY <1>2
<1>4. z.at \in Int /\ z.before \in Int /\ z.after \in Int
  BY <1>1, AnalyticsAssumption DEF D!Zones
<1> QED BY <1>1, <1>3, <1>4 DEF D!Init, DaysInput

\* The instants of the window are naturals at least a day after the first instant.
LEMMA WindowInstants ==
    ASSUME DaysInput, NEW t \in Int, DayLength <= t, t <= input.end
    PROVE  t \in D!Instants /\ t \in Nat
<1> DEFINE d == DayLength
<1>1. d \in Nat \ {0} /\ LastDay \in Nat
  BY AnalyticsAssumption
<1>2. input.end <= (LastDay - 1) * d /\ input.end \in Int
  BY DEF DaysInput
<1> HIDE DEF d
<1>3. (LastDay + 1) * d = (LastDay - 1) * d + d + d /\ (LastDay - 1) * d \in Int
  BY <1>1
<1>4. 0 <= t /\ t <= (LastDay + 1) * d
  BY <1>1, <1>2, <1>3 DEF d
<1>5. (LastDay + 1) * d \in Int
  BY <1>1
<1> QED BY <1>4, <1>5 DEF D!Instants, d

\* A midnight is the first instant at which the local clock shows it.
LEMMA MidnightIs ==
    ASSUME NEW day \in Int, D!Midnight(day) # NoInstant
    PROVE  /\ D!Midnight(day) \in D!Instants /\ D!Midnight(day) \in Nat
           /\ D!Local(D!Midnight(day)) = day * DayLength
           /\ \A t \in D!Instants : D!Local(t) = day * DayLength => D!Midnight(day) <= t
<1> DEFINE found == {t \in D!Instants : D!Local(t) = day * DayLength}
<1>1. found # {} /\ D!Midnight(day) = D!Min(found)
  BY DEF D!Midnight
<1>2. found \in SUBSET Nat
  BY DEF D!Instants
<1>3. PICK x \in found : \A y \in found : x <= y
  BY <1>1, <1>2, LeastNat
<1>4. D!Min(found) \in found /\ \A y \in found : D!Min(found) <= y
  BY <1>3 DEF D!Min
<1> QED BY <1>1, <1>2, <1>4

\* An instant is at or after a midnight exactly when its local date is that day or later.
LEMMA MidnightBounds ==
    ASSUME DaysInput, D!DatesRise, NEW day \in Int, D!Midnight(day) # NoInstant,
           NEW t \in D!Instants, t \in Nat, DayLength <= t
    PROVE  /\ D!Midnight(day) <= t <=> day <= D!DateOf(t)
           /\ D!DateOf(t) \in Int
<1> DEFINE d == DayLength
           m == D!Midnight(day)
<1>1. /\ d \in Nat \ {0} /\ m \in D!Instants /\ m \in Nat /\ D!Local(m) = day * d
      /\ \A u \in D!Instants : D!Local(u) = day * d => m <= u
  BY AnalyticsAssumption, MidnightIs
<1>2. \A u \in Int : D!Local(u) \in Int
  BY DEF D!Local, DaysInput
<1>3. \A u : D!DateOf(u) = D!Local(u) \div d
  BY DEF D!DateOf
<1> HIDE DEF d, m
<1>4. ASSUME NEW u \in Nat, NEW p \in Int
      PROVE  D!DateOf(u) \in Int /\ (p <= D!DateOf(u) <=> p * d <= D!Local(u))
  <2> DEFINE a == D!Local(u)
  <2>1. a \in Int /\ D!DateOf(u) = a \div d
    BY <1>2, <1>3
  <2> HIDE DEF a
  <2>2. a \div d \in Int /\ (p <= a \div d <=> p * d <= a)
    BY <1>1, <2>1, DayBounds
  <2> QED BY <2>1, <2>2 DEF a
<1>5. D!DateOf(m) = day
  <2>1. D!DateOf(m) \in Int /\ (day <= D!DateOf(m) <=> day * d <= day * d)
        /\ (day + 1 <= D!DateOf(m) <=> (day + 1) * d <= day * d)
    BY <1>1, <1>4
  <2>2. (day + 1) * d = day * d + d /\ day * d \in Int
    BY <1>1
  <2> QED BY <1>1, <2>1, <2>2
<1>6. D!DateOf(t) \in Int
  BY <1>4
<1>7. m <= t => day <= D!DateOf(t)
  BY <1>1, <1>5 DEF D!DatesRise
<1>8. ASSUME day <= D!DateOf(t), t < m PROVE FALSE
  <2>1. D!DateOf(t) <= day
    BY <1>1, <1>5, <1>8 DEF D!DatesRise
  <2> DEFINE a == D!Local(t)
             p == day * d
  <2>2. a \in Int /\ p \in Int
    BY <1>1, <1>2
  <2>3. p <= a
    BY <1>4, <1>8
  <2>4. a < p + d
    <3>1. ~(day + 1 <= D!DateOf(t))
      BY <1>6, <2>1
    <3>2. ~((day + 1) * d <= D!Local(t))
      BY <1>4, <3>1
    <3>3. (day + 1) * d = day * d + d
      BY <1>1
    <3> QED BY <1>1, <2>2, <3>2, <3>3
  <2>5. a # p
    BY <1>1, <1>8
  <2>6. CASE t < input.at
    <3> DEFINE u == t - (a - p)
    <3>1. u \in Nat /\ u < t /\ u <= t
      BY <1>1, <2>2, <2>3, <2>4, <2>5 DEF d
    <3>2. u \in D!Instants
      BY <1>1, <3>1, AnalyticsAssumption DEF D!Instants
    <3>3. D!Local(u) = p
      <4>1. a = t + input.before /\ u < input.at
        BY <2>6, <3>1 DEF D!Local, DaysInput
      <4>2. D!Local(u) = u + input.before
        BY <4>1 DEF D!Local
      <4> HIDE DEF a, p
      <4> QED BY <2>2, <4>1, <4>2 DEF DaysInput
    <3>4. m <= u
      BY <1>1, <3>2, <3>3
    <3> QED BY <1>1, <1>8, <3>1, <3>4
  <2>7. CASE ~(t < input.at)
    <3>1. a = t + input.after
      BY <2>7 DEF D!Local
    <3>2. p = m + input.after
      BY <1>1, <1>8, <2>7 DEF D!Local, DaysInput
    <3> HIDE DEF a, p
    <3> QED BY <1>1, <1>8, <2>2, <2>3, <3>1, <3>2 DEF DaysInput
  <2> QED BY <2>6, <2>7
<1>9. m <= t <=> day <= D!DateOf(t)
  BY <1>1, <1>7, <1>8
<1> QED BY <1>6, <1>9 DEF m

-----------------------------------------------------------------------------
\* The bucket of a day, and of the day of an instant.

BucketOf(day) ==
    [start |-> D!Max({D!Midnight(day), input.start}), end |-> D!Min({D!Midnight(day + 1), input.end})]

Clocked == DaysInput /\ ~D!Failed /\ D!DatesRise

LEMMA DaysOf ==
    ASSUME Clocked, NEW t \in Int, input.start <= t, t < input.end
    PROVE  t \in D!Instants /\ t \in Nat /\ DayLength <= t /\ D!DateOf(t) \in D!Days /\ D!DateOf(t) \in Int
<1>1. ASSUME NEW u \in Int, input.start <= u, u < input.end
      PROVE  u \in D!Instants /\ u \in Nat /\ DayLength <= u /\ D!DateOf(u) \in Int
  <2>1. DayLength <= u /\ u <= input.end
    BY <1>1, AnalyticsAssumption DEF Clocked, DaysInput
  <2>2. u \in D!Instants /\ u \in Nat
    BY <2>1, WindowInstants DEF Clocked
  <2>3. D!Local(u) \in Int
    BY <2>2 DEF D!Local, Clocked, DaysInput
  <2> QED BY <2>1, <2>2, <2>3, DayBounds, AnalyticsAssumption DEF D!DateOf
<1>2. /\ input.start \in Int /\ input.start < input.end
      /\ input.end - 1 \in Int /\ input.start <= input.end - 1 /\ input.end - 1 < input.end
      /\ t <= input.end - 1
  BY DEF Clocked, DaysInput
<1>3. /\ D!DateOf(input.start) <= D!DateOf(t) /\ D!DateOf(t) <= D!DateOf(input.end - 1)
      /\ D!DateOf(input.start) \in Int /\ D!DateOf(input.end - 1) \in Int
  BY <1>1, <1>2 DEF Clocked, D!DatesRise
<1> QED BY <1>1, <1>3 DEF D!Days

\* A bucket holds the instants of the window of its day.
LEMMA BucketHolds ==
    ASSUME Clocked, NEW day \in D!Days
    PROVE  LET b == BucketOf(day) IN
           /\ b.start \in Int /\ b.end \in Int /\ input.start <= b.start /\ b.end <= input.end
           /\ \A t \in Int : input.start <= t /\ t < input.end =>
                  (b.start <= t /\ t < b.end <=> D!DateOf(t) = day)
<1> DEFINE b == BucketOf(day)
           x == D!Midnight(day)
           y == D!Midnight(day + 1)
<1>1. day \in Int /\ day + 1 \in Int /\ input.start \in Int /\ input.end \in Int
  <2>1. input.start \in Int /\ input.end \in Int
    BY DEF Clocked, DaysInput
  <2>2. day \in Int
    BY DEF D!Days
  <2> QED BY <2>1, <2>2
<1>2. x # NoInstant /\ y # NoInstant
  BY DEF Clocked, D!Failed
<1>3. x \in Nat /\ y \in Nat
  BY <1>1, <1>2, MidnightIs
<1>4. /\ b.start = (IF input.start <= x THEN x ELSE input.start)
      /\ b.end = (IF y <= input.end THEN y ELSE input.end)
  <2>1. D!Max({x, input.start}) = (IF input.start <= x THEN x ELSE input.start)
    BY <1>1, <1>3 DEF D!Max
  <2>2. D!Min({y, input.end}) = (IF y <= input.end THEN y ELSE input.end)
    BY <1>1, <1>3 DEF D!Min
  <2> QED BY <2>1, <2>2 DEF BucketOf
<1>5. ASSUME NEW t \in Int, input.start <= t, t < input.end
      PROVE  b.start <= t /\ t < b.end <=> D!DateOf(t) = day
  <2>1. t \in D!Instants /\ t \in Nat /\ DayLength <= t /\ D!DateOf(t) \in Int
    BY <1>5, DaysOf
  <2>2. x <= t <=> day <= D!DateOf(t)
    BY <1>1, <1>2, <2>1, MidnightBounds DEF Clocked
  <2>3. y <= t <=> day + 1 <= D!DateOf(t)
    BY <1>1, <1>2, <2>1, MidnightBounds DEF Clocked
  <2> HIDE DEF x, y, b
  <2> QED BY <1>1, <1>3, <1>4, <1>5, <2>1, <2>2, <2>3
<1> HIDE DEF x, y
<1>6. b.start \in Int /\ b.end \in Int /\ input.start <= b.start /\ b.end <= input.end
  BY <1>1, <1>3, <1>4
<1> QED BY <1>5, <1>6

\* An instant of the window is in the bucket of its day and in no other.
LEMMA OneBucket ==
    ASSUME Clocked, NEW t \in Int, input.start <= t, t < input.end
    PROVE  LET b == BucketOf(D!DateOf(t)) IN
           /\ b \in D!Buckets /\ b.start <= t /\ t < b.end
           /\ \A c \in D!Buckets : c.start <= t /\ t < c.end => c = b
<1> DEFINE b == BucketOf(D!DateOf(t))
<1>1. D!Buckets = {c \in {BucketOf(day) : day \in D!Days} : c.start < c.end}
  BY DEF D!Buckets, BucketOf
<1>2. D!DateOf(t) \in D!Days
  BY DaysOf
<1>3. b.start \in Int /\ b.end \in Int /\ b.start <= t /\ t < b.end
  BY <1>2, BucketHolds
<1>4. b \in D!Buckets
  <2> HIDE DEF b
  <2>1. b.start < b.end
    BY <1>3
  <2> QED BY <1>1, <1>2, <2>1 DEF b
<1>5. ASSUME NEW c \in D!Buckets, c.start <= t, t < c.end PROVE c = b
  <2>1. PICK day \in D!Days : c = BucketOf(day)
    BY <1>1
  <2>2. D!DateOf(t) = day
    BY <1>5, <2>1, BucketHolds
  <2> QED BY <2>1, <2>2
<1> QED BY <1>3, <1>4, <1>5

LEMMA BucketTypes ==
    ASSUME Clocked, NEW b \in D!Buckets
    PROVE  /\ b.start \in Int /\ b.end \in Int /\ b.start < b.end
           /\ input.start <= b.start /\ b.end <= input.end
           /\ \A t \in b.start..(b.end - 1) : D!DateOf(t) = D!DateOf(b.start)
<1>1. PICK day \in D!Days : b = BucketOf(day) /\ b.start < b.end
  BY DEF D!Buckets, BucketOf
<1>2. b.start \in Int /\ b.end \in Int /\ input.start <= b.start /\ b.end <= input.end
  BY <1>1, BucketHolds
<1>3. ASSUME NEW t \in b.start..(b.end - 1) PROVE D!DateOf(t) = day
  <2>1. t \in Int /\ input.start <= t /\ t < input.end /\ b.start <= t /\ t < b.end
    BY <1>2 DEF Clocked, DaysInput
  <2> QED BY <1>1, <2>1, BucketHolds
<1>4. b.start \in b.start..(b.end - 1)
  BY <1>1, <1>2
<1> QED BY <1>1, <1>2, <1>3, <1>4

\* Of the buckets begun at an instant the newest is the one that holds it.
LEMMA NewestHolds ==
    ASSUME Clocked, NEW t \in Int, input.start <= t, t < input.end,
           NEW begun \in SUBSET D!Buckets, BucketOf(D!DateOf(t)) \in begun,
           \A c \in begun : c.start <= t
    PROVE  D!Newest(begun) = BucketOf(D!DateOf(t))
<1> DEFINE b == BucketOf(D!DateOf(t))
<1>1. /\ b \in D!Buckets /\ b.start <= t /\ t < b.end
      /\ \A c \in D!Buckets : c.start <= t /\ t < c.end => c = b
  BY OneBucket
<1> HIDE DEF b
<1>2. b.start \in Int /\ b.end \in Int /\ input.start <= b.start /\ b.end <= input.end /\ input.end \in Int
      /\ input.start \in Int
  BY <1>1, BucketTypes DEF Clocked, DaysInput
<1>3. ASSUME NEW c \in begun, b.start <= c.start PROVE c = b
  <2> DEFINE u == c.start
  <2>1. u \in Int /\ u < c.end /\ u <= t
    BY BucketTypes
  <2> HIDE DEF u
  <2>2. input.start <= u /\ u < input.end /\ b.start <= u /\ u < b.end
    BY <1>1, <1>2, <1>3, <2>1 DEF u
  <2>3. b = BucketOf(D!DateOf(u))
    BY <1>1, <2>1, <2>2, OneBucket
  <2>4. c = BucketOf(D!DateOf(u))
    BY <2>1, <2>2, OneBucket DEF u
  <2> QED BY <2>3, <2>4
<1>4. \A c \in begun : c.start \in Int
  BY BucketTypes
<1>5. b \in begun /\ \A c \in begun : c.start <= b.start
  BY <1>2, <1>3, <1>4 DEF b
<1>6. D!Newest(begun) \in begun /\ \A c \in begun : c.start <= D!Newest(begun).start
  BY <1>5 DEF D!Newest
<1>7. D!Newest(begun) = b
  BY <1>3, <1>5, <1>6
<1> QED BY <1>7 DEF b

LEMMA SameCountOfDays == ASSUME NEW W PROVE D!Cardinality(W) = Cardinality(W)
BY DEF D!Cardinality, Cardinality, D!IsFiniteSet, IsFiniteSet

LEMMA Tiles == DaysInput => D!DaysTile
<1> SUFFICES ASSUME Clocked
             PROVE  /\ \A t \in input.start..(input.end - 1) :
                          Cardinality({b \in D!Buckets : b.start <= t /\ t < b.end}) = 1
                    /\ \A b \in D!Buckets :
                          /\ input.start <= b.start /\ b.end <= input.end
                          /\ \A t \in b.start..(b.end - 1) : D!DateOf(t) = D!DateOf(b.start)
  BY SameCountOfDays DEF D!DaysTile, Clocked
<1>1. ASSUME NEW t \in input.start..(input.end - 1)
      PROVE  Cardinality({b \in D!Buckets : b.start <= t /\ t < b.end}) = 1
  <2>1. t \in Int /\ input.start <= t /\ t < input.end
    BY DEF Clocked, DaysInput
  <2>2. {b \in D!Buckets : b.start <= t /\ t < b.end} = {BucketOf(D!DateOf(t))}
    BY <2>1, OneBucket
  <2> QED BY <2>2, FS_Singleton
<1> QED BY <1>1, BucketTypes

LEMMA Endpoints == DaysInput => D!EndpointsAgree
<1> SUFFICES ASSUME Clocked
             PROVE  /\ \A t \in D!InWindow \ {input.end} :
                          D!PercentileBucket(t) = D!SeriesBucket(t) /\ D!SeriesBucket(t) # NoInstant
                    /\ D!PercentileBucket(input.end) = NoInstant
  BY DEF D!EndpointsAgree, Clocked
<1>0. input.start \in Int /\ input.end \in Int /\ input.start < input.end
  BY DEF Clocked, DaysInput
<1>1. ASSUME NEW t \in D!InWindow \ {input.end}
      PROVE  D!PercentileBucket(t) = D!SeriesBucket(t) /\ D!SeriesBucket(t) # NoInstant
  <2> DEFINE b == BucketOf(D!DateOf(t))
  <2>1. t \in Int /\ input.start <= t /\ t < input.end
    BY <1>0 DEF D!InWindow
  <2>2. b \in D!Buckets /\ b.start <= t /\ t < b.end
    BY <2>1, OneBucket
  <2>3. D!Begun(t) \in SUBSET D!Buckets /\ b \in D!Begun(t) /\ \A c \in D!Begun(t) : c.start <= t
    BY <2>2 DEF D!Begun
  <2>4. D!Newest(D!Begun(t)) = b
    BY <2>1, <2>3, NewestHolds
  <2>5. b.start \in Int /\ b.end \in Int
    BY <2>2, BucketTypes
  <2> HIDE DEF b
  <2>6. D!Begun(t) # {} /\ ~(t >= b.end)
    BY <2>1, <2>2, <2>3, <2>5
  <2> QED BY <2>4, <2>5, <2>6, AnalyticsAssumption DEF D!PercentileBucket, D!SeriesBucket
<1>2. D!PercentileBucket(input.end) = NoInstant
  <2> DEFINE u == input.end - 1
             b == BucketOf(D!DateOf(u))
  <2>1. u \in Int /\ input.start <= u /\ u < input.end
    BY <1>0
  <2> HIDE DEF u
  <2>2. b \in D!Buckets
    BY <2>1, OneBucket
  <2>3. b.end \in Int /\ b.end <= input.end /\ b.start \in Int /\ b.start < b.end
    BY <2>2, BucketTypes
  <2>4. D!Begun(input.end) \in SUBSET D!Buckets /\ b \in D!Begun(input.end)
    BY <1>0, <2>2, <2>3 DEF D!Begun
  <2>5. \A c \in D!Buckets : c.start <= u
    BY <1>0, BucketTypes DEF u
  <2>6. D!Newest(D!Begun(input.end)) = b
    BY <2>1, <2>4, <2>5, NewestHolds
  <2> HIDE DEF b
  <2>7. input.end >= b.end
    BY <1>0, <2>3
  <2> QED BY <2>6, <2>7 DEF D!PercentileBucket
<1> QED BY <1>1, <1>2

\* For any zone, change of its clock and window: while every midnight exists and dates do
\* not go back, the day buckets tile the window, and the two latency endpoints put every
\* call before its end into the same day.
THEOREM DaysTileAlways == AnalyticsSpec => []DaysTile
<1> DEFINE I == part = "days" => DaysInput
<1>1. AnalyticsInit => I
  BY DaysInputs DEF AnalyticsInit
<1>2. I /\ [AnalyticsNext]_AnalyticsVars => I'
  BY DEF AnalyticsNext, AnalyticsVars, DaysInput
<1>3. I => DaysTile
  BY Tiles, Endpoints DEF DaysTile
<1> HIDE DEF I
<1> QED BY <1>1, <1>2, <1>3, PTL DEF AnalyticsSpec

-----------------------------------------------------------------------------
\* More about sums.

\* What the community module's fold computes, for a function.
Adds(v, W) == (CHOOSE f : f = [Y \in SUBSET W |-> IF Y = {} THEN 0 ELSE v[One(Y)] + f[Y \ {One(Y)}]])[W]

LEMMA AddsIsMass ==
    ASSUME NEW W, IsFiniteSet(W), NEW v \in [W -> Nat]
    PROVE  Adds(v, W) = Mass(v) /\ Mass(v) \in Nat
<1>1. PICK g : Adding(g, v, W)
  BY FoldExists
<1>2. g = [Y \in SUBSET W |-> IF Y = {} THEN 0 ELSE v[One(Y)] + g[Y \ {One(Y)}]]
  BY <1>1, Zenon DEF Adding
<1>3. PICK f : /\ f = [Y \in SUBSET W |-> IF Y = {} THEN 0 ELSE v[One(Y)] + f[Y \ {One(Y)}]]
               /\ Adds(v, W) = f[W]
  BY <1>2, Zenon DEF Adds
<1>4. Adding(f, v, W)
  BY <1>3, Zenon DEF Adding
<1>5. f[W] = Mass(v)
  BY <1>4, FoldIsMass
<1> QED BY <1>3, <1>5, MassType

LEMMA SumOfFunction ==
    ASSUME NEW W, IsFiniteSet(W), NEW v \in [W -> Nat]
    PROVE  MapThenSumSet(LAMBDA x : v[x], W) = Mass(v)
<1>1. MapThenSumSet(LAMBDA x : v[x], W) = Adds(v, W)
  BY DEF MapThenSumSet, MapThenFoldSet, One, Adds
<1> QED BY <1>1, AddsIsMass

\* A smaller function has a smaller sum; the sum of two is the sum of their sums.
LEMMA MassMonotone ==
    ASSUME NEW W, IsFiniteSet(W), NEW u \in [W -> Nat], NEW v \in [W -> Nat], \A x \in W : u[x] <= v[x]
    PROVE  Mass(u) <= Mass(v)
<1>1. Units(u) \in SUBSET Units(v)
  BY DEF Units
<1>2. IsFiniteSet(Units(v))
  BY MassType
<1> QED BY <1>1, <1>2, FS_Subset DEF Mass

LEMMA MassSum ==
    ASSUME NEW W, IsFiniteSet(W), NEW u \in [W -> Nat], NEW v \in [W -> Nat]
    PROVE  Mass([x \in W |-> u[x] + v[x]]) = Mass(u) + Mass(v)
<1> DEFINE w(Y) == [x \in Y |-> u[x] + v[x]]
           a(Y) == [x \in Y |-> u[x]]
           b(Y) == [x \in Y |-> v[x]]
           Z == {Y \in SUBSET W : Mass(w(Y)) = Mass(a(Y)) + Mass(b(Y))}
<1>1. {} \in Z
  BY MassNone
<1>2. ASSUME NEW Y \in SUBSET W, NEW x \in W \ Y, Y \in Z PROVE Y \cup {x} \in Z
  <2> DEFINE R == Y \cup {x}
             wr == w(R)
             ar == a(R)
             br == b(R)
  <2>1. IsFiniteSet(R) /\ IsFiniteSet(Y) /\ x \in R /\ R \ {x} = Y /\ R \in SUBSET W
    BY <1>2, FS_Subset
  <2>2. /\ wr \in [R -> Nat] /\ ar \in [R -> Nat] /\ br \in [R -> Nat]
        /\ wr[x] = ar[x] + br[x] /\ ar[x] \in Nat /\ br[x] \in Nat
        /\ [y \in Y |-> wr[y]] = w(Y) /\ [y \in Y |-> ar[y]] = a(Y) /\ [y \in Y |-> br[y]] = b(Y)
        /\ a(Y) \in [Y -> Nat] /\ b(Y) \in [Y -> Nat]
    BY <1>2
  <2> HIDE DEF R, wr, ar, br, w, a, b
  <2>3. Mass(wr) = Mass([y \in R \ {x} |-> wr[y]]) + wr[x]
    <3>1. IsFiniteSet(R) /\ x \in R /\ wr \in [R -> Nat]
      BY <2>1, <2>2
    <3> QED BY <3>1, MassAdds
  <2>4. Mass(ar) = Mass([y \in R \ {x} |-> ar[y]]) + ar[x]
    <3>1. IsFiniteSet(R) /\ x \in R /\ ar \in [R -> Nat]
      BY <2>1, <2>2
    <3> QED BY <3>1, MassAdds
  <2>5. Mass(br) = Mass([y \in R \ {x} |-> br[y]]) + br[x]
    <3>1. IsFiniteSet(R) /\ x \in R /\ br \in [R -> Nat]
      BY <2>1, <2>2
    <3> QED BY <3>1, MassAdds
  <2>6. Mass(w(Y)) = Mass(a(Y)) + Mass(b(Y))
    BY <1>2
  <2>7. Mass(a(Y)) \in Nat /\ Mass(b(Y)) \in Nat
    BY <2>1, <2>2, MassType
  <2>8. Mass(wr) = Mass(ar) + Mass(br)
    BY <2>1, <2>2, <2>3, <2>4, <2>5, <2>6, <2>7
  <2> QED BY <2>1, <2>8 DEF R, wr, ar, br
<1>3. W \in Z
  <2> HIDE DEF Z
  <2> QED BY <1>1, <1>2, FiniteUpward
<1>4. a(W) = u /\ b(W) = v
  OBVIOUS
<1> QED BY <1>3, <1>4

\* The total of rows, shared out by what key says of each.
Share(rows, key, x) == {d \in rows : key[d] = x}

LEMMA ShareOut ==
    ASSUME NEW rows, Counted(rows), NEW W, IsFiniteSet(W), NEW key \in [rows -> W]
    PROVE  /\ [x \in W |-> Total(Share(rows, key, x))] \in [W -> Nat]
           /\ Mass([x \in W |-> Total(Share(rows, key, x))]) = Total(rows)
<1> DEFINE v == [x \in W |-> Total(Share(rows, key, x))]
           on(Y) == [x \in Y |-> v[x]]
           In1(Y) == {d \in rows : key[d] \in Y}
           Z == {Y \in SUBSET W : Mass(on(Y)) = Total(In1(Y))}
<1>1. \A E : E \in SUBSET rows => Counted(E)
  BY FS_Subset DEF Counted
<1>2. \A E : E \in SUBSET rows => Total(E) \in Nat
  <2>1. ASSUME NEW E, E \in SUBSET rows PROVE Total(E) \in Nat
    <3>1. Counted(E) /\ Counted({}) /\ E \cap {} = {}
      BY <1>1, <2>1
    <3> QED BY <3>1, TotalSplits
  <2> QED BY <2>1
<1>3. v \in [W -> Nat]
  <2>1. \A x \in W : Share(rows, key, x) \in SUBSET rows
    BY DEF Share
  <2> QED BY <1>2, <2>1
<1>4. {} \in Z
  <2>1. In1({}) = {}
    OBVIOUS
  <2>2. Mass(on({})) = 0
    <3>1. DOMAIN on({}) = {}
      OBVIOUS
    <3> HIDE DEF on
    <3> QED BY <3>1, MassNone
  <2>3. Mass(on({})) = Total(In1({}))
    BY <2>1, <2>2, TotalOfNone
  <2> QED BY <2>3
<1>5. ASSUME NEW Y \in SUBSET W, NEW x \in W \ Y, Y \in Z PROVE Y \cup {x} \in Z
  <2> DEFINE R == Y \cup {x}
             g == on(R)
  <2>1. IsFiniteSet(R) /\ x \in R /\ R \ {x} = Y /\ R \in SUBSET W
    BY <1>5, FS_Subset
  <2>2. g \in [R -> Nat] /\ g[x] = Total(Share(rows, key, x)) /\ [y \in Y |-> g[y]] = on(Y)
    BY <1>3, <1>5
  <2> HIDE DEF g, v
  <2>3. Mass(g) = Mass([y \in R \ {x} |-> g[y]]) + g[x]
    <3>1. IsFiniteSet(R) /\ x \in R /\ g \in [R -> Nat]
      BY <2>1, <2>2
    <3> HIDE DEF R
    <3> QED BY <3>1, MassAdds
  <2>4. In1(R) = In1(Y) \cup Share(rows, key, x) /\ In1(Y) \cap Share(rows, key, x) = {}
    BY <1>5 DEF Share
  <2>5. Counted(In1(Y)) /\ Counted(Share(rows, key, x))
    <3>1. In1(Y) \in SUBSET rows /\ Share(rows, key, x) \in SUBSET rows
      BY DEF Share
    <3> QED BY <1>1, <3>1
  <2> HIDE DEF In1, R
  <2>6. Total(In1(Y) \cup Share(rows, key, x)) = Total(In1(Y)) + Total(Share(rows, key, x))
    BY <2>4, <2>5, TotalSplits
  <2>7. Mass(on(Y)) = Total(In1(Y))
    BY <1>5
  <2>8. Mass(on(R)) = Total(In1(R))
    BY <2>1, <2>2, <2>3, <2>4, <2>6, <2>7 DEF g
  <2> QED BY <2>1, <2>8 DEF R
<1>6. W \in Z
  <2> HIDE DEF Z
  <2> QED BY <1>4, <1>5, FiniteUpward
<1>7. on(W) = v /\ In1(W) = rows
  OBVIOUS
<1> QED BY <1>3, <1>6, <1>7

-----------------------------------------------------------------------------
\* The rollups over the rows of the agents.

\* The rows are finitely many, and a turn is reported in the categories of its source.
HistoryInv ==
    /\ CounterInv
    /\ IsFiniteSet(metrics) /\ IsFiniteSet(late) /\ IsFiniteSet(markers) /\ IsFiniteSet(turns)
    /\ \A t \in turns : /\ t.by = "codex" => t.kind \in {"input", "total"}
                        /\ t.by = "request" => t.kind = "input"

LEMMA HistoryInvInit == Init => HistoryInv
<1> SUFFICES ASSUME Init PROVE HistoryInv
  OBVIOUS
<1>1. IsFiniteSet(metrics) /\ IsFiniteSet(late) /\ IsFiniteSet(markers) /\ IsFiniteSet(turns)
  BY FS_EmptySet DEF Init
<1>2. turns = {}
  BY DEF Init
<1> QED BY <1>1, <1>2, CounterInvInit DEF HistoryInv

LEMMA HistoryInvStep == HistoryInv /\ [Next]_vars => HistoryInv'
<1> SUFFICES ASSUME HistoryInv, [Next]_vars PROVE HistoryInv'
  OBVIOUS
<1>a. CounterInv'
  BY CounterInvStep DEF HistoryInv
<1>b. /\ IsFiniteSet(metrics) /\ IsFiniteSet(late) /\ IsFiniteSet(markers) /\ IsFiniteSet(turns)
      /\ \A t \in turns : /\ t.by = "codex" => t.kind \in {"input", "total"}
                          /\ t.by = "request" => t.kind = "input"
  BY DEF HistoryInv
<1> DEFINE Finite == IsFiniteSet(metrics) /\ IsFiniteSet(late) /\ IsFiniteSet(markers) /\ IsFiniteSet(turns)
           Told == \A t \in turns : /\ t.by = "codex" => t.kind \in {"input", "total"}
                                    /\ t.by = "request" => t.kind = "input"
<1>1. ASSUME NEW s \in Sessions, NEW k \in Kinds, NEW n \in Spends, NEW arrives \in BOOLEAN,
             Report(s, k, n, arrives)
      PROVE  Finite' /\ Told'
  <2> DEFINE point == [session |-> s, kind |-> k, ts |-> now, value |-> counter[<<s, k>>] + n]
             span == [by |-> s, kind |-> k, ts |-> now, tokens |-> n, labelled |-> TRUE]
  <2>1. IsFiniteSet(metrics \cup {point}) /\ IsFiniteSet(late \cup {point}) /\ IsFiniteSet(turns \cup {span})
    BY <1>b, FS_AddElement
  <2>2. /\ metrics' \in {metrics, metrics \cup {point}} /\ late' \in {late, late \cup {point}}
        /\ turns' \in {turns, turns \cup {span}} /\ markers' = markers
    BY <1>1 DEF Report
  <2>3. span.by # "codex" /\ span.by # "request"
    BY CountersAssumption DEF Agents
  <2> HIDE DEF point, span
  <2> QED BY <1>b, <2>1, <2>2, <2>3
<1>2. ASSUME NEW r \in late, Deliver(r) PROVE Finite' /\ Told'
  <2>1. IsFiniteSet(metrics \cup {r}) /\ IsFiniteSet(late \ {r})
    BY <1>b, FS_AddElement, FS_RemoveElement
  <2> QED BY <1>2, <1>b, <2>1 DEF Deliver
<1>3. ASSUME NEW s \in Sessions, Restart(s) PROVE Finite' /\ Told'
  BY <1>3, <1>b DEF Restart
<1>4. ASSUME NEW s \in Sessions, NEW p \in Projects \cup {NoProject}, Mark(s, p) PROVE Finite' /\ Told'
  <2>1. IsFiniteSet(markers \cup {[session |-> s, project |-> p, ts |-> now]})
    BY <1>b, FS_AddElement
  <2> QED BY <1>4, <1>b, <2>1 DEF Mark
<1>5. ASSUME NEW source \in Sources, NEW n \in Spends \ {0}, NEW labelled \in BOOLEAN,
             TakeTurn(source, n, labelled)
      PROVE  Finite' /\ Told'
  <2> DEFINE row(k) == [by |-> source, kind |-> k, ts |-> now, tokens |-> n, labelled |-> labelled]
  <2>1. turns' = turns \cup {row(k) : k \in {"input"} \cup (IF source = "codex" THEN {"total"} ELSE {})}
    BY <1>5 DEF TakeTurn
  <2>2. turns' \in {turns \cup {row("input")}, (turns \cup {row("input")}) \cup {row("total")}}
    BY <2>1
  <2>3. IsFiniteSet(turns \cup {row("input")}) /\ IsFiniteSet((turns \cup {row("input")}) \cup {row("total")})
    BY <1>b, FS_AddElement
  <2>4. Told'
    <3>1. ASSUME NEW t \in turns' PROVE /\ t.by = "codex" => t.kind \in {"input", "total"}
                                        /\ t.by = "request" => t.kind = "input"
      <4>1. CASE t \in turns
        BY <1>b, <4>1
      <4>2. CASE t \notin turns
        <5>1. PICK k \in {"input"} \cup (IF source = "codex" THEN {"total"} ELSE {}) : t = row(k)
          BY <2>1, <4>2
        <5>2. t.by = source /\ t.kind = k
          BY <5>1
        <5> QED BY <5>2
      <4> QED BY <4>1, <4>2
    <3> QED BY <3>1
  <2> HIDE DEF row
  <2>5. IsFiniteSet(turns')
    BY <2>2, <2>3
  <2> QED BY <1>5, <1>b, <2>4, <2>5 DEF TakeTurn
<1>6. ASSUME Tick PROVE Finite' /\ Told'
  BY <1>6, <1>b DEF Tick
<1>7. ASSUME NEW c \in Times, Retain(c) PROVE Finite' /\ Told'
  <2>1. /\ metrics' \in SUBSET metrics /\ markers' \in SUBSET markers /\ turns' \in SUBSET turns
        /\ late' = late
    BY <1>7 DEF Retain
  <2>2. IsFiniteSet(metrics') /\ IsFiniteSet(markers') /\ IsFiniteSet(turns')
    BY <1>b, <2>1, FS_Subset
  <2> QED BY <1>b, <2>1, <2>2
<1>8. ASSUME UNCHANGED vars PROVE Finite' /\ Told'
  BY <1>8, <1>b DEF vars
<1>9. Finite' /\ Told'
  BY <1>1, <1>2, <1>3, <1>4, <1>5, <1>6, <1>7, <1>8 DEF Next
<1> QED BY <1>a, <1>9 DEF HistoryInv

\* A subset of finitely many rows, or what is computed for each, is finite.
LEMMA FiniteSource ==
    ASSUME NEW W, IsFiniteSet(W), NEW f, DOMAIN f = W, f = [x \in W |-> f[x]]
    PROVE  IsFiniteSet({f[x] : x \in W})
<1>1. f \in Surjection(W, {f[x] : x \in W})
  BY DEF Surjection
<1> QED BY <1>1, FS_Surjection

\* The stored rows of any series are timed, its kind in use or not.
LEMMA TimedRows ==
    ASSUME CounterInv, NEW s \in Sessions, NEW k
    PROVE  Timed(Rows(s, k))
<1>1. CASE k \in Kinds
  BY <1>1, StoredSeries
<1>2. CASE k \notin Kinds
  <2>1. Rows(s, k) = {}
    BY <1>2 DEF Rows, CounterInv, TypeOK, Point
  <2> QED BY <2>1 DEF Timed
<1> QED BY <1>1, <1>2

\* The deltas of opencode are finitely many naturals, each of a tick and a session.
LEMMA OpencodeCounted ==
    ASSUME HistoryInv, NEW w, w.from \in Nat, w.to \in Nat
    PROVE  /\ Counted(OpencodeDeltas(w))
           /\ \A d \in OpencodeDeltas(w) :
                  d.ts \in Times /\ d.by \in Sessions /\ In(w, d.ts) /\ d.kind \in TokenKinds
<1> DEFINE W == {r \in metrics : r.kind \in TokenKinds /\ r.kind \in Kinds /\ r.session \in Sessions /\ In(w, r.ts)}
           f == [r \in W |-> [by |-> r.session, kind |-> r.kind, ts |-> r.ts,
                              tokens |-> RowGrowth(w, r), labelled |-> TRUE]]
<1>1. OpencodeDeltas(w) = {f[r] : r \in W}
  <2>1. ASSUME NEW d \in OpencodeDeltas(w) PROVE d \in {f[r] : r \in W}
    <3>1. PICK s \in Sessions, k \in Kinds \cap TokenKinds : d \in SeriesDeltas(w, s, k)
      BY DEF OpencodeDeltas
    <3>2. PICK r \in RowsIn(w, s, k) :
            d = [by |-> s, kind |-> k, ts |-> r.ts, tokens |-> RowGrowth(w, r), labelled |-> TRUE]
      BY <3>1 DEF SeriesDeltas
    <3>3. r \in W /\ r.session = s /\ r.kind = k
      BY <3>2 DEF RowsIn, Rows
    <3> QED BY <3>2, <3>3
  <2>2. ASSUME NEW r \in W PROVE f[r] \in OpencodeDeltas(w)
    <3>1. r \in RowsIn(w, r.session, r.kind)
      BY DEF RowsIn, Rows
    <3>2. f[r] \in SeriesDeltas(w, r.session, r.kind)
      BY <3>1 DEF SeriesDeltas
    <3> QED BY <3>2 DEF OpencodeDeltas
  <2> HIDE DEF W, f
  <2> QED BY <2>1, <2>2
<1>2. IsFiniteSet({f[r] : r \in W})
  <2>1. W \in SUBSET metrics /\ DOMAIN f = W /\ f = [r \in W |-> f[r]]
    OBVIOUS
  <2> HIDE DEF W, f
  <2>2. IsFiniteSet(W)
    BY <2>1, FS_Subset DEF HistoryInv
  <2> QED BY <2>1, <2>2, FiniteSource
<1>3. ASSUME NEW r \in W
      PROVE  /\ f[r].ts \in Times /\ f[r].by \in Sessions /\ In(w, f[r].ts) /\ f[r].kind \in TokenKinds
             /\ f[r].tokens \in Nat
  <2> DEFINE R == Rows(r.session, r.kind)
  <2>1. r \in RowsIn(w, r.session, r.kind) /\ r \in R
    BY DEF RowsIn, Rows
  <2>2. Timed(R)
    BY TimedRows DEF HistoryInv
  <2>3. RowGrowth(w, r) = Growth(r.value, Before(R, r.ts))
    BY <2>1, <2>2, RowGrowthIs
  <2>4. r.value \in Nat /\ r.ts \in Times /\ r.ts \in Nat
    BY <2>1, <2>2, CountersAssumption DEF Timed, Times
  <2>5. Before(R, r.ts) \in Nat \/ Before(R, r.ts) = NoRow
    BY <2>2, <2>4, BeforeIs
  <2>6. RowGrowth(w, r) \in Nat
    BY <2>3, <2>4, <2>5, GrowthType
  <2> QED BY <2>4, <2>6
<1> HIDE DEF W, f
<1> QED BY <1>1, <1>2, <1>3 DEF Counted

LEMMA TurnsCounted ==
    ASSUME HistoryInv, NEW rows \in SUBSET turns
    PROVE  Counted(rows) /\ \A t \in rows : t.ts \in Times
<1>1. IsFiniteSet(rows)
  BY FS_Subset DEF HistoryInv
<1>2. \A t \in rows : t.tokens \in Nat /\ t.ts \in Times
  BY DEF HistoryInv, CounterInv, TypeOK, Turn
<1> QED BY <1>1, <1>2 DEF Counted

LEMMA AgentCounted ==
    ASSUME HistoryInv, NEW w, w.from \in Nat, w.to \in Nat, NEW agent
    PROVE  Counted(AgentTokens(w, agent)) /\ \A d \in AgentTokens(w, agent) : d.ts \in Times /\ In(w, d.ts)
<1>1. CASE agent = "opencode"
  BY <1>1, OpencodeCounted DEF AgentTokens
<1>2. CASE agent # "opencode"
  <2>1. TurnTokens(w, agent) \in SUBSET turns /\ \A d \in TurnTokens(w, agent) : In(w, d.ts)
    BY DEF TurnTokens, TurnsIn
  <2> QED BY <1>2, <2>1, TurnsCounted DEF AgentTokens
<1> QED BY <1>1, <1>2


-----------------------------------------------------------------------------
\* The time series of the rollups.

LEMMA BucketTypesOf ==
    /\ IsFiniteSet(BucketStarts)
    /\ \A t \in Times : Bucket(t) \in BucketStarts
    /\ \A b \in BucketStarts : b \in Nat
<1>1. IsFiniteSet(Times)
  BY TicksFinite
<1> DEFINE f == [t \in Times |-> Bucket(t)]
<1>2. DOMAIN f = Times /\ f = [t \in Times |-> f[t]] /\ BucketStarts = {f[t] : t \in Times}
  BY DEF BucketStarts
<1> HIDE DEF f
<1>3. IsFiniteSet(BucketStarts)
  BY <1>1, <1>2, FiniteSource
<1>4. ASSUME NEW t \in Times PROVE Bucket(t) \in Nat
  <2>1. t \in Int /\ 0 \in Int /\ BucketLength \in Nat \ {0} /\ 0 * BucketLength <= t
    BY CountersAssumption DEF Times
  <2>2. t \div BucketLength \in Int /\ 0 <= t \div BucketLength
    BY <2>1, DayBounds
  <2> DEFINE q == t \div BucketLength
  <2> HIDE DEF q
  <2>3. q \in Nat /\ Bucket(t) = q * BucketLength
    BY <2>2 DEF q, Bucket
  <2> QED BY <2>1, <2>3
<1> QED BY <1>3, <1>4 DEF BucketStarts

\* A bucket is the ticks from its start on, as many as its length.
LEMMA BucketIs ==
    ASSUME NEW t \in Times, NEW b \in BucketStarts
    PROVE  Bucket(t) = b <=> b <= t /\ t <= b + BucketLength - 1
<1> DEFINE n == BucketLength
           q == t \div n
<1>1. PICK u \in Times : b = (u \div n) * n
  BY DEF BucketStarts, Bucket
<1> DEFINE p == u \div n
<1>2. t \in Int /\ u \in Int /\ n \in Nat \ {0}
  BY CountersAssumption DEF Times
<1>3. p \in Int /\ q \in Int
  BY <1>2
<1>4. q <= q /\ p + 1 \in Int /\ q + 1 \in Int
  BY <1>3
<1> HIDE DEF n
<1>5. /\ q <= q <=> q * n <= t
      /\ p <= q <=> p * n <= t
      /\ p + 1 <= q <=> (p + 1) * n <= t
      /\ q + 1 <= q <=> (q + 1) * n <= t
  BY <1>2, <1>3, <1>4, DayBounds
<1>6. Bucket(t) = q * n /\ b = p * n
  BY <1>1 DEF Bucket, n
<1> HIDE DEF p, q
<1>7. (p + 1) * n = p * n + n /\ (q + 1) * n = q * n + n /\ p * n \in Int /\ q * n \in Int
  BY <1>2, <1>3
<1> DEFINE pn == p * n
           qn == q * n
           p1 == (p + 1) * n
           q1 == (q + 1) * n
<1>8. /\ pn \in Int /\ qn \in Int /\ p1 = pn + n /\ q1 = qn + n
      /\ qn <= t /\ ~(q1 <= t) /\ (p <= q <=> pn <= t) /\ (p + 1 <= q <=> p1 <= t)
      /\ (p = q => pn = qn) /\ Bucket(t) = qn /\ b = pn
  BY <1>3, <1>4, <1>5, <1>6, <1>7
<1> HIDE DEF pn, qn, p1, q1
<1>9. Bucket(t) = b <=> b <= t /\ t <= b + n - 1
  BY <1>2, <1>3, <1>8
<1> QED BY <1>9 DEF n

\* A time series sums to the total of its rows.
LEMMA SeriesSums ==
    ASSUME NEW rows, Counted(rows), \A d \in rows : d.ts \in Times,
           NEW series, series = [b \in BucketStarts |-> Total({d \in rows : Bucket(d.ts) = b})]
    PROVE  Adds(series, BucketStarts) = Total(rows)
<1> DEFINE key == [d \in rows |-> Bucket(d.ts)]
<1>1. key \in [rows -> BucketStarts] /\ IsFiniteSet(BucketStarts)
  BY BucketTypesOf
<1>2. \A b \in BucketStarts : Share(rows, key, b) = {d \in rows : Bucket(d.ts) = b}
  BY DEF Share
<1> HIDE DEF key
<1>3. series = [b \in BucketStarts |-> Total(Share(rows, key, b))]
  BY <1>2
<1> DEFINE v == [b \in BucketStarts |-> Total(Share(rows, key, b))]
<1>4. v \in [BucketStarts -> Nat] /\ Mass(v) = Total(rows)
  BY <1>1, ShareOut
<1> HIDE DEF v
<1>5. Adds(v, BucketStarts) = Mass(v)
  BY <1>1, <1>4, AddsIsMass
<1>6. series = v
  BY <1>3 DEF v
<1> QED BY <1>4, <1>5, <1>6

\* What opencode added, row by row, does not depend on the window.
OpencodeDelta(s, k, r) ==
    [by |-> s, kind |-> k, ts |-> r.ts, tokens |-> Growth(r.value, Before(Rows(s, k), r.ts)),
     labelled |-> TRUE]

LEMMA OpencodeIs ==
    ASSUME CounterInv, NEW w, w.from \in Nat, w.to \in Nat, NEW d
    PROVE  d \in OpencodeDeltas(w) <=>
             \E s \in Sessions, k \in Kinds \cap TokenKinds : \E r \in Rows(s, k) :
                 In(w, r.ts) /\ d = OpencodeDelta(s, k, r)
<1>1. ASSUME NEW s \in Sessions, NEW k \in Kinds \cap TokenKinds, NEW r \in RowsIn(w, s, k)
      PROVE  RowGrowth(w, r) = Growth(r.value, Before(Rows(s, k), r.ts))
  <2>1. Timed(Rows(s, k))
    BY TimedRows
  <2> QED BY <2>1, RowGrowthIs
<1>2. ASSUME d \in OpencodeDeltas(w)
      PROVE  \E s \in Sessions, k \in Kinds \cap TokenKinds : \E r \in Rows(s, k) :
                 In(w, r.ts) /\ d = OpencodeDelta(s, k, r)
  <2>1. PICK s \in Sessions, k \in Kinds \cap TokenKinds : d \in SeriesDeltas(w, s, k)
    BY <1>2 DEF OpencodeDeltas
  <2>2. PICK r \in RowsIn(w, s, k) :
          d = [by |-> s, kind |-> k, ts |-> r.ts, tokens |-> RowGrowth(w, r), labelled |-> TRUE]
    BY <2>1 DEF SeriesDeltas
  <2>3. d = OpencodeDelta(s, k, r)
    BY <1>1, <2>2 DEF OpencodeDelta
  <2> QED BY <2>3 DEF RowsIn
<1>3. ASSUME NEW s \in Sessions, NEW k \in Kinds \cap TokenKinds, NEW r \in Rows(s, k), In(w, r.ts),
             d = OpencodeDelta(s, k, r)
      PROVE  d \in OpencodeDeltas(w)
  <2>1. r \in RowsIn(w, s, k)
    BY <1>3 DEF RowsIn
  <2>2. d = [by |-> s, kind |-> k, ts |-> r.ts, tokens |-> RowGrowth(w, r), labelled |-> TRUE]
    BY <1>1, <1>3, <2>1 DEF OpencodeDelta
  <2>3. d \in SeriesDeltas(w, s, k)
    BY <2>1, <2>2 DEF SeriesDeltas
  <2> QED BY <2>3 DEF OpencodeDeltas
<1> QED BY <1>2, <1>3

\* The rows of a bucket within the window are those of the bucket as a window.
LEMMA BucketRows ==
    ASSUME HistoryInv, NEW w \in Windows, NEW agent, NEW b \in BucketStarts,
           w.from <= b, b + BucketLength - 1 <= w.to
    PROVE  {d \in AgentTokens(w, agent) : Bucket(d.ts) = b}
             = AgentTokens([from |-> b, to |-> b + BucketLength - 1], agent)
<1> DEFINE u == [from |-> b, to |-> b + BucketLength - 1]
<1>1. /\ b \in Nat /\ w.from \in Nat /\ w.to \in Nat /\ u.from = b /\ u.to = b + BucketLength - 1
      /\ u.from \in Nat /\ u.to \in Nat
  BY BucketTypesOf, WindowTypes, CountersAssumption
<1>2. ASSUME NEW t \in Times PROVE In(u, t) <=> In(w, t) /\ Bucket(t) = b
  <2>1. Bucket(t) = b <=> b <= t /\ t <= b + BucketLength - 1
    BY BucketIs
  <2>2. t \in Nat /\ BucketLength \in Nat
    BY CountersAssumption DEF Times
  <2> HIDE DEF u
  <2> QED BY <1>1, <2>1, <2>2 DEF In
<1>3. CASE agent = "opencode"
  <2>1. CounterInv
    BY DEF HistoryInv
  <2>2. ASSUME NEW d
        PROVE  d \in OpencodeDeltas(u) <=> d \in OpencodeDeltas(w) /\ Bucket(d.ts) = b
    <3>1. ASSUME NEW s \in Sessions, NEW k \in Kinds \cap TokenKinds, NEW r \in Rows(s, k),
                 d = OpencodeDelta(s, k, r)
          PROVE  In(u, r.ts) <=> In(w, r.ts) /\ Bucket(d.ts) = b
      <4>1. Timed(Rows(s, k))
        BY <2>1, TimedRows
      <4>2. r.ts \in Times /\ d.ts = r.ts
        BY <3>1, <4>1 DEF Timed, OpencodeDelta
      <4> QED BY <1>2, <4>2
    <3>2. d \in OpencodeDeltas(u) <=>
            \E s \in Sessions, k \in Kinds \cap TokenKinds : \E r \in Rows(s, k) :
                In(u, r.ts) /\ d = OpencodeDelta(s, k, r)
      <4> HIDE DEF u
      <4> QED BY <1>1, <2>1, OpencodeIs
    <3>3. d \in OpencodeDeltas(w) <=>
            \E s \in Sessions, k \in Kinds \cap TokenKinds : \E r \in Rows(s, k) :
                In(w, r.ts) /\ d = OpencodeDelta(s, k, r)
      BY <1>1, <2>1, OpencodeIs
    <3> HIDE DEF u
    <3> QED BY <3>1, <3>2, <3>3
  <2>3. \A d : d \in AgentTokens(u, agent) <=> d \in AgentTokens(w, agent) /\ Bucket(d.ts) = b
    BY <1>3, <2>2 DEF AgentTokens
  <2> HIDE DEF u
  <2>4. {d \in AgentTokens(w, agent) : Bucket(d.ts) = b} = AgentTokens(u, agent)
    BY <2>3
  <2> QED BY <2>4 DEF u
<1>4. CASE agent # "opencode"
  <2>1. \A t \in turns : t.ts \in Times
    BY DEF HistoryInv, CounterInv, TypeOK, Turn
  <2> HIDE DEF u
  <2>2. {d \in TurnTokens(w, agent) : Bucket(d.ts) = b} = TurnTokens(u, agent)
    BY <1>2, <2>1 DEF TurnTokens, TurnsIn
  <2>3. {d \in AgentTokens(w, agent) : Bucket(d.ts) = b} = AgentTokens(u, agent)
    BY <1>4, <2>2 DEF AgentTokens
  <2> QED BY <2>3 DEF u
<1> QED BY <1>3, <1>4

LEMMA BucketsHold == HistoryInv => BucketsAgree
<1> SUFFICES ASSUME HistoryInv, NEW w \in Windows, NEW agent \in Agents
             PROVE  LET series == AgentSeries(w, agent) IN
                    /\ MapThenSumSet(LAMBDA b : series[b], BucketStarts) = AgentTotal(w, agent)
                    /\ \A b \in BucketStarts :
                           w.from <= b /\ b + BucketLength - 1 <= w.to =>
                               series[b] = AgentTotal([from |-> b, to |-> b + BucketLength - 1], agent)
  BY DEF BucketsAgree
<1> DEFINE rows == AgentTokens(w, agent)
           series == AgentSeries(w, agent)
<1>1. series = [b \in BucketStarts |-> Total({d \in rows : Bucket(d.ts) = b})]
  BY DEF AgentSeries
<1>2. Counted(rows) /\ \A d \in rows : d.ts \in Times
  <2>1. w.from \in Nat /\ w.to \in Nat
    BY WindowTypes
  <2> QED BY <2>1, AgentCounted
<1>3. AgentTotal(w, agent) = Total(rows)
  BY DEF AgentTotal
<1>4. ASSUME NEW b \in BucketStarts, w.from <= b, b + BucketLength - 1 <= w.to
      PROVE  series[b] = AgentTotal([from |-> b, to |-> b + BucketLength - 1], agent)
  <2>1. series[b] = Total({d \in rows : Bucket(d.ts) = b})
    BY <1>1
  <2>2. {d \in rows : Bucket(d.ts) = b} = AgentTokens([from |-> b, to |-> b + BucketLength - 1], agent)
    BY <1>4, BucketRows
  <2> QED BY <2>1, <2>2 DEF AgentTotal
<1> HIDE DEF rows, series
<1>5. Adds(series, BucketStarts) = AgentTotal(w, agent)
  BY <1>1, <1>2, <1>3, SeriesSums
<1>6. MapThenSumSet(LAMBDA b : series[b], BucketStarts) = Adds(series, BucketStarts)
  BY DEF MapThenSumSet, MapThenFoldSet, One, Adds
<1> QED BY <1>4, <1>5, <1>6 DEF series

\* A turn of codex is one row in "input", and one in "total" that the rollup skips.
LEMMA TurnsHold == HistoryInv => TurnsCountOnce
<1> SUFFICES ASSUME HistoryInv, NEW w \in Windows
             PROVE  AgentTotal(w, "codex") = Total({t \in TurnsIn(w, "codex") : t.kind = "input"})
  BY DEF TurnsCountOnce
<1>1. \A t \in turns : t.by = "codex" => t.kind \in {"input", "total"}
  BY DEF HistoryInv
<1>2. TurnTokens(w, "codex") = {t \in TurnsIn(w, "codex") : t.kind = "input"}
  BY <1>1 DEF TurnTokens, TurnsIn, TokenKinds, CacheKinds
<1> QED BY <1>2 DEF AgentTotal, AgentTokens


-----------------------------------------------------------------------------
\* The rollup by project.

\* A function that is 0 but at one member sums to what it is there.
LEMMA MassPoint ==
    ASSUME NEW W, IsFiniteSet(W), NEW x \in W, NEW n \in Nat
    PROVE  Mass([y \in W |-> IF y = x THEN n ELSE 0]) = n
<1> DEFINE v == [y \in W |-> IF y = x THEN n ELSE 0]
           R == W \ {x}
           o == [y \in R |-> v[y]]
<1>1. v \in [W -> Nat] /\ v[x] = n /\ \A y \in R : o[y] = 0
  OBVIOUS
<1>2. Units(o) = {}
  <2>1. \A y \in R : 1..o[y] = {}
    BY <1>1
  <2>2. DOMAIN o = R
    OBVIOUS
  <2> HIDE DEF o
  <2> QED BY <2>1, <2>2 DEF Units
<1>3. Mass(o) = 0
  BY <1>2, FS_EmptySet DEF Mass
<1> HIDE DEF v
<1>4. Mass(v) = Mass([y \in W \ {x} |-> v[y]]) + v[x]
  BY <1>1, MassAdds
<1> QED BY <1>1, <1>3, <1>4 DEF v

LEMMA MassOfAgents ==
    ASSUME NEW v \in [Agents -> Nat]
    PROVE  Mass(v) = v["opencode"] + v["codex"] + v["claude"]
<1> DEFINE x == "opencode"
           y == "codex"
           z == "claude"
           P3 == {x, y, z}
           P2 == {x, y}
           v2 == [i \in P2 |-> v[i]]
           v1 == [i \in {x} |-> v[i]]
<1>0. x # y /\ x # z /\ y # z /\ v \in [P3 -> Nat]
  BY DEF Agents
<1> HIDE DEF x, y, z
<1>1. IsFiniteSet({x}) /\ IsFiniteSet(P2) /\ IsFiniteSet(P3)
  <2>1. IsFiniteSet({x}) /\ IsFiniteSet({x} \cup {y}) /\ IsFiniteSet(({x} \cup {y}) \cup {z})
    BY FS_Singleton, FS_AddElement
  <2>2. {x} \cup {y} = P2 /\ P2 \cup {z} = P3
    OBVIOUS
  <2> QED BY <2>1, <2>2
<1>2. /\ P3 \ {z} = P2 /\ P2 \ {y} = {x} /\ v \in [P3 -> Nat] /\ v2 \in [P2 -> Nat] /\ v1 \in [{x} -> Nat]
      /\ v2[y] = v[y] /\ v1[x] = v[x] /\ v[x] \in Nat /\ v[y] \in Nat /\ v[z] \in Nat
      /\ [i \in {x} |-> v2[i]] = v1 /\ z \in P3 /\ y \in P2
  BY <1>0
<1> HIDE DEF P3
<1>3. Mass(v) = Mass([i \in P3 \ {z} |-> v[i]]) + v[z]
  <2>1. IsFiniteSet(P3) /\ v \in [P3 -> Nat] /\ z \in P3
    BY <1>1, <1>2
  <2> HIDE DEF P2
  <2> QED BY <2>1, MassAdds
<1> HIDE DEF v2, v1
<1>4. Mass(v2) = Mass([i \in P2 \ {y} |-> v2[i]]) + v2[y]
  <2> HIDE DEF P2
  <2> QED BY <1>1, <1>2, MassAdds
<1>5. Mass(v1) = v[x]
  BY <1>2, MassOne
<1>6. Mass(v) = Mass(v2) + v[z] /\ Mass(v2) = Mass(v1) + v[y]
  BY <1>2, <1>3, <1>4 DEF v2
<1>7. Mass(v) = v[x] + v[y] + v[z]
  BY <1>2, <1>5, <1>6
<1> QED BY <1>7 DEF x, y, z

\* What is shared out over groups by a key sums to the whole.
LEMMA MassShares ==
    ASSUME NEW W, IsFiniteSet(W), NEW Z, IsFiniteSet(Z), NEW key \in [Z -> W], NEW v \in [Z -> Nat]
    PROVE  /\ \A p \in W : Mass([s \in Z |-> IF key[s] = p THEN v[s] ELSE 0]) \in Nat
           /\ Mass([p \in W |-> Mass([s \in Z |-> IF key[s] = p THEN v[s] ELSE 0])]) = Mass(v)
<1> DEFINE part1(Y, p) == [s \in Y |-> IF key[s] = p THEN v[s] ELSE 0]
           all(Y) == [p \in W |-> Mass(part1(Y, p))]
           on(Y) == [s \in Y |-> v[s]]
           Good == {Y \in SUBSET Z : Mass(all(Y)) = Mass(on(Y))}
<1>1. ASSUME NEW Y \in SUBSET Z, NEW p \in W
      PROVE  part1(Y, p) \in [Y -> Nat] /\ Mass(part1(Y, p)) \in Nat
  <2>1. part1(Y, p) \in [Y -> Nat] /\ IsFiniteSet(Y)
    BY FS_Subset
  <2> HIDE DEF part1
  <2> QED BY <2>1, MassType
<1>2. \A Y \in SUBSET Z : all(Y) \in [W -> Nat]
  <2> HIDE DEF part1
  <2> QED BY <1>1
<1>3. {} \in Good
  <2>1. \A p : DOMAIN part1({}, p) = {}
    OBVIOUS
  <2>2. \A p : Mass(part1({}, p)) = 0
    <3> HIDE DEF part1
    <3> QED BY <2>1, MassNone
  <2>3. DOMAIN on({}) = {}
    OBVIOUS
  <2>4. Mass(on({})) = 0
    <3> HIDE DEF on
    <3> QED BY <2>3, MassNone
  <2> DEFINE o == [p \in W |-> 0]
  <2>5. all({}) = o
    <3> HIDE DEF part1
    <3> QED BY <2>2
  <2>6. Units(o) = {}
    <3>1. 1..0 = {}
      OBVIOUS
    <3>2. DOMAIN o = W /\ \A p \in W : 1..o[p] = {}
      BY <3>1
    <3> HIDE DEF o
    <3> QED BY <3>2 DEF Units
  <2>7. Mass(o) = 0
    BY <2>6, FS_EmptySet DEF Mass
  <2> HIDE DEF o, all, on
  <2> QED BY <2>4, <2>5, <2>7
<1>4. ASSUME NEW Y \in SUBSET Z, NEW x \in Z \ Y, Y \in Good PROVE Y \cup {x} \in Good
  <2> DEFINE R == Y \cup {x}
             pt == [p \in W |-> IF p = key[x] THEN v[x] ELSE 0]
             ay == all(Y)
             gr == on(R)
  <2>1. IsFiniteSet(R) /\ x \in R /\ R \ {x} = Y /\ R \in SUBSET Z /\ key[x] \in W /\ v[x] \in Nat
    BY <1>4, FS_Subset
  <2>2. ASSUME NEW p \in W PROVE Mass(part1(R, p)) = Mass(part1(Y, p)) + pt[p]
    <3> DEFINE g == part1(R, p)
    <3>1. g \in [R -> Nat] /\ g[x] = pt[p] /\ [s \in Y |-> g[s]] = part1(Y, p)
      BY <2>1
    <3> HIDE DEF g, R, pt
    <3>2. Mass(g) = Mass([s \in R \ {x} |-> g[s]]) + g[x]
      BY <2>1, <3>1, MassAdds
    <3>3. Mass(g) = Mass(part1(Y, p)) + pt[p]
      BY <2>1, <3>1, <3>2
    <3> QED BY <3>3 DEF g
  <2>3. pt \in [W -> Nat] /\ Mass(pt) = v[x]
    BY <2>1, MassPoint
  <2>4. all(R) = [p \in W |-> ay[p] + pt[p]]
    <3>1. \A p \in W : ay[p] = Mass(part1(Y, p))
      OBVIOUS
    <3> HIDE DEF part1, pt, ay
    <3> QED BY <2>2, <3>1
  <2>5. Mass(all(R)) = Mass(ay) + Mass(pt)
    <3>1. ay \in [W -> Nat]
      BY <1>2
    <3> HIDE DEF all, pt, ay
    <3> QED BY <2>3, <2>4, <3>1, MassSum
  <2>6. Mass(ay) = Mass(on(Y))
    BY <1>4
  <2>7. gr \in [R -> Nat] /\ gr[x] = v[x] /\ [s \in Y |-> gr[s]] = on(Y)
    BY <2>1
  <2>8. Mass(gr) = Mass(on(Y)) + v[x]
    <3> HIDE DEF gr, R, on
    <3>1. Mass(gr) = Mass([s \in R \ {x} |-> gr[s]]) + gr[x]
      BY <2>1, <2>7, MassAdds
    <3> QED BY <2>1, <2>7, <3>1
  <2>9. Mass(all(R)) = Mass(on(R))
    <3> HIDE DEF all, on, ay, R, pt
    <3> QED BY <2>3, <2>5, <2>6, <2>8 DEF gr
  <2> HIDE DEF all, on
  <2> QED BY <2>1, <2>9
<1>5. Z \in Good
  <2> HIDE DEF Good
  <2> QED BY <1>3, <1>4, FiniteUpward
<1>6. on(Z) = v
  OBVIOUS
<1>7. Mass(all(Z)) = Mass(v)
  BY <1>5, <1>6
<1> QED BY <1>1, <1>7


LEMMA ProjectTypes == IsFiniteSet(AllProjects) /\ "unattributed" \in AllProjects
BY CountersAssumption, FS_AddElement DEF AllProjects

\* The sums of the rollups, as functions.
LEMMA TokensByProject ==
    ASSUME NEW w, NEW f
    PROVE  SumOverProjects(LAMBDA p : ProjectTokens(w, f, p))
             = Adds([p \in AllProjects |-> ProjectTokens(w, f, p)], AllProjects)
<1> DEFINE v == [p \in AllProjects |-> ProjectTokens(w, f, p)]
           of(x) == ProjectTokens(w, f, x)
           F(g) == [Y \in SUBSET AllProjects |-> IF Y = {} THEN 0 ELSE of(One(Y)) + g[Y \ {One(Y)}]]
           G(g) == [Y \in SUBSET AllProjects |-> IF Y = {} THEN 0 ELSE v[One(Y)] + g[Y \ {One(Y)}]]
<1>1. SumOverProjects(LAMBDA p : ProjectTokens(w, f, p)) = (CHOOSE g : g = F(g))[AllProjects]
  BY DEF SumOverProjects, MapThenSumSet, MapThenFoldSet, One
<1>2. \A Y \in SUBSET AllProjects : Y # {} => of(One(Y)) = v[One(Y)]
  BY DEF One
<1>3. Adds(v, AllProjects) = (CHOOSE g : g = G(g))[AllProjects]
  BY DEF Adds
<1> HIDE DEF of, v
<1>4. \A g : F(g) = G(g)
  BY <1>2
<1> HIDE DEF F, G
<1>5. (CHOOSE g : g = F(g)) = (CHOOSE g : g = G(g))
  BY <1>4
<1>6. SumOverProjects(LAMBDA p : ProjectTokens(w, f, p)) = Adds(v, AllProjects)
  BY <1>1, <1>3, <1>5, Zenon
<1> QED BY <1>6 DEF v

LEMMA CostByProject ==
    ASSUME NEW w, NEW f
    PROVE  SumOverProjects(LAMBDA p : ProjectCost(w, f, p))
             = Adds([p \in AllProjects |-> ProjectCost(w, f, p)], AllProjects)
<1> DEFINE v == [p \in AllProjects |-> ProjectCost(w, f, p)]
           of(x) == ProjectCost(w, f, x)
           F(g) == [Y \in SUBSET AllProjects |-> IF Y = {} THEN 0 ELSE of(One(Y)) + g[Y \ {One(Y)}]]
           G(g) == [Y \in SUBSET AllProjects |-> IF Y = {} THEN 0 ELSE v[One(Y)] + g[Y \ {One(Y)}]]
<1>1. SumOverProjects(LAMBDA p : ProjectCost(w, f, p)) = (CHOOSE g : g = F(g))[AllProjects]
  BY DEF SumOverProjects, MapThenSumSet, MapThenFoldSet, One
<1>2. \A Y \in SUBSET AllProjects : Y # {} => of(One(Y)) = v[One(Y)]
  BY DEF One
<1>3. Adds(v, AllProjects) = (CHOOSE g : g = G(g))[AllProjects]
  BY DEF Adds
<1> HIDE DEF of, v
<1>4. \A g : F(g) = G(g)
  BY <1>2
<1> HIDE DEF F, G
<1>5. (CHOOSE g : g = F(g)) = (CHOOSE g : g = G(g))
  BY <1>4
<1>6. SumOverProjects(LAMBDA p : ProjectCost(w, f, p)) = Adds(v, AllProjects)
  BY <1>1, <1>3, <1>5, Zenon
<1> QED BY <1>6 DEF v

LEMMA TokensByAgent ==
    ASSUME NEW w
    PROVE  MapThenSumSet(LAMBDA agent : AgentTotal(w, agent), Agents)
             = Adds([agent \in Agents |-> AgentTotal(w, agent)], Agents)
<1> DEFINE v == [agent \in Agents |-> AgentTotal(w, agent)]
           of(x) == AgentTotal(w, x)
           F(g) == [Y \in SUBSET Agents |-> IF Y = {} THEN 0 ELSE of(One(Y)) + g[Y \ {One(Y)}]]
           G(g) == [Y \in SUBSET Agents |-> IF Y = {} THEN 0 ELSE v[One(Y)] + g[Y \ {One(Y)}]]
<1>1. MapThenSumSet(LAMBDA agent : AgentTotal(w, agent), Agents) = (CHOOSE g : g = F(g))[Agents]
  BY DEF MapThenSumSet, MapThenFoldSet, One
<1>2. \A Y \in SUBSET Agents : Y # {} => of(One(Y)) = v[One(Y)]
  BY DEF One
<1>3. Adds(v, Agents) = (CHOOSE g : g = G(g))[Agents]
  BY DEF Adds
<1> HIDE DEF of, v
<1>4. \A g : F(g) = G(g)
  BY <1>2
<1> HIDE DEF F, G
<1>5. (CHOOSE g : g = F(g)) = (CHOOSE g : g = G(g))
  BY <1>4
<1>6. MapThenSumSet(LAMBDA agent : AgentTotal(w, agent), Agents) = Adds(v, Agents)
  BY <1>1, <1>3, <1>5, Zenon
<1> QED BY <1>6 DEF v

\* What opencode cost in a window, and in a project.
Costs(w)         == [s \in Sessions |-> WindowDelta(w, s, SessionKind)]
CostsIn(w, f, p) == [s \in Sessions |-> IF Attributed(f, s) = p THEN WindowDelta(w, s, SessionKind) ELSE 0]
CostsShown(w)    == [s \in Sessions |-> SessionCost(w, s)]

LEMMA CostIs ==
    ASSUME NEW w
    PROVE  OpencodeCost(w)
             = Adds(Costs(w), Sessions)
<1> DEFINE v == Costs(w)
           of(x) == WindowDelta(w, x, SessionKind)
           F(g) == [Y \in SUBSET Sessions |-> IF Y = {} THEN 0 ELSE of(One(Y)) + g[Y \ {One(Y)}]]
           G(g) == [Y \in SUBSET Sessions |-> IF Y = {} THEN 0 ELSE v[One(Y)] + g[Y \ {One(Y)}]]
<1>1. OpencodeCost(w) = (CHOOSE g : g = F(g))[Sessions]
  BY DEF OpencodeCost, SumOverSessions, MapThenSumSet, MapThenFoldSet, One
<1>2. \A Y \in SUBSET Sessions : Y # {} => of(One(Y)) = v[One(Y)]
  BY DEF One, Costs
<1>3. Adds(v, Sessions) = (CHOOSE g : g = G(g))[Sessions]
  BY DEF Adds
<1> HIDE DEF of, v
<1>4. \A g : F(g) = G(g)
  BY <1>2
<1> HIDE DEF F, G
<1>5. (CHOOSE g : g = F(g)) = (CHOOSE g : g = G(g))
  BY <1>4
<1>6. OpencodeCost(w) = Adds(v, Sessions)
  BY <1>1, <1>3, <1>5, Zenon
<1> QED BY <1>6 DEF v

LEMMA CostOfProject ==
    ASSUME NEW w, NEW f, NEW p
    PROVE  ProjectCost(w, f, p)
             = Adds(CostsIn(w, f, p), Sessions)
<1> DEFINE v == CostsIn(w, f, p)
           of(x) == IF Attributed(f, x) = p THEN WindowDelta(w, x, SessionKind) ELSE 0
           F(g) == [Y \in SUBSET Sessions |-> IF Y = {} THEN 0 ELSE of(One(Y)) + g[Y \ {One(Y)}]]
           G(g) == [Y \in SUBSET Sessions |-> IF Y = {} THEN 0 ELSE v[One(Y)] + g[Y \ {One(Y)}]]
<1>1. ProjectCost(w, f, p) = (CHOOSE g : g = F(g))[Sessions]
  BY DEF ProjectCost, SumOverSessions, MapThenSumSet, MapThenFoldSet, One
<1>2. \A Y \in SUBSET Sessions : Y # {} => of(One(Y)) = v[One(Y)]
  BY DEF One, CostsIn
<1>3. Adds(v, Sessions) = (CHOOSE g : g = G(g))[Sessions]
  BY DEF Adds
<1> HIDE DEF of, v
<1>4. \A g : F(g) = G(g)
  BY <1>2
<1> HIDE DEF F, G
<1>5. (CHOOSE g : g = F(g)) = (CHOOSE g : g = G(g))
  BY <1>4
<1>6. ProjectCost(w, f, p) = Adds(v, Sessions)
  BY <1>1, <1>3, <1>5, Zenon
<1> QED BY <1>6 DEF v

LEMMA CostShown ==
    ASSUME NEW w
    PROVE  SumOverSessions(LAMBDA s : SessionCost(w, s))
             = Adds(CostsShown(w), Sessions)
<1> DEFINE v == CostsShown(w)
           of(x) == SessionCost(w, x)
           F(g) == [Y \in SUBSET Sessions |-> IF Y = {} THEN 0 ELSE of(One(Y)) + g[Y \ {One(Y)}]]
           G(g) == [Y \in SUBSET Sessions |-> IF Y = {} THEN 0 ELSE v[One(Y)] + g[Y \ {One(Y)}]]
<1>1. SumOverSessions(LAMBDA s : SessionCost(w, s)) = (CHOOSE g : g = F(g))[Sessions]
  BY DEF SumOverSessions, MapThenSumSet, MapThenFoldSet, One
<1>2. \A Y \in SUBSET Sessions : Y # {} => of(One(Y)) = v[One(Y)]
  BY DEF One, CostsShown
<1>3. Adds(v, Sessions) = (CHOOSE g : g = G(g))[Sessions]
  BY DEF Adds
<1> HIDE DEF of, v
<1>4. \A g : F(g) = G(g)
  BY <1>2
<1> HIDE DEF F, G
<1>5. (CHOOSE g : g = F(g)) = (CHOOSE g : g = G(g))
  BY <1>4
<1>6. SumOverSessions(LAMBDA s : SessionCost(w, s)) = Adds(v, Sessions)
  BY <1>1, <1>3, <1>5, Zenon
<1> QED BY <1>6 DEF v

LEMMA SessionsByProject ==
    ASSUME NEW w
    PROVE  SumOverProjects(LAMBDA p : Cardinality(ProjectSessions(w, p)))
             = Adds([p \in AllProjects |-> Cardinality(ProjectSessions(w, p))], AllProjects)
<1> DEFINE v == [p \in AllProjects |-> Cardinality(ProjectSessions(w, p))]
           of(x) == Cardinality(ProjectSessions(w, x))
           F(g) == [Y \in SUBSET AllProjects |-> IF Y = {} THEN 0 ELSE of(One(Y)) + g[Y \ {One(Y)}]]
           G(g) == [Y \in SUBSET AllProjects |-> IF Y = {} THEN 0 ELSE v[One(Y)] + g[Y \ {One(Y)}]]
<1>1. SumOverProjects(LAMBDA p : Cardinality(ProjectSessions(w, p))) = (CHOOSE g : g = F(g))[AllProjects]
  BY DEF SumOverProjects, MapThenSumSet, MapThenFoldSet, One
<1>2. \A Y \in SUBSET AllProjects : Y # {} => of(One(Y)) = v[One(Y)]
  BY DEF One
<1>3. Adds(v, AllProjects) = (CHOOSE g : g = G(g))[AllProjects]
  BY DEF Adds
<1> HIDE DEF of, v
<1>4. \A g : F(g) = G(g)
  BY <1>2
<1> HIDE DEF F, G
<1>5. (CHOOSE g : g = F(g)) = (CHOOSE g : g = G(g))
  BY <1>4
<1>6. SumOverProjects(LAMBDA p : Cardinality(ProjectSessions(w, p))) = Adds(v, AllProjects)
  BY <1>1, <1>3, <1>5, Zenon
<1> QED BY <1>6 DEF v

\* The delta of a window is a natural, and at most the last value in it.
LEMMA WindowDeltaTypes ==
    ASSUME CounterInv, NEW w \in Windows, NEW s \in Sessions, NEW k
    PROVE  /\ WindowDelta(w, s, k) \in Nat
           /\ RowsIn(w, s, k) = {} => WindowDelta(w, s, k) = 0
           /\ RowsIn(w, s, k) # {} => /\ LastValue(RowsIn(w, s, k)) \in Nat
                                      /\ WindowDelta(w, s, k) <= LastValue(RowsIn(w, s, k))
<1> DEFINE R == RowsIn(w, s, k)
<1>1. Timed(Rows(s, k)) /\ w.from \in Nat
  BY TimedRows, WindowTypes
<1>2. Baseline(s, k, w.from) = Before(Rows(s, k), w.from)
  BY DEF Baseline, Before
<1>3. Baseline(s, k, w.from) \in Nat \/ Baseline(s, k, w.from) = NoRow
  BY <1>1, <1>2, BeforeIs
<1>4. CASE R = {}
  BY <1>4 DEF WindowDelta
<1>5. CASE R # {}
  <2>1. Timed(R)
    BY <1>1 DEF Timed, RowsIn
  <2>2. Latest(R) \in R
    BY <1>5, <2>1, LatestIs
  <2>3. LastValue(R) \in Nat
    BY <1>5, <2>1, <2>2 DEF LastValue, Timed
  <2>4. WindowDelta(w, s, k) = Growth(LastValue(R), Baseline(s, k, w.from))
    BY <1>5 DEF WindowDelta
  <2> QED BY <1>3, <1>5, <2>3, <2>4 DEF Growth
<1> QED BY <1>4, <1>5


\* The projects share out the tokens and the cost of the agents.
LEMMA TokensShareOut ==
    ASSUME HistoryInv, NEW w \in Windows, NEW f \in Attributions(w)
    PROVE  SumOverProjects(LAMBDA p : ProjectTokens(w, f, p))
             = MapThenSumSet(LAMBDA agent : AgentTotal(w, agent), Agents)
<1> DEFINE O == OpencodeDeltas(w)
           key == [d \in O |-> Attributed(f, d.by)]
           a == [p \in AllProjects |-> Total(Share(O, key, p))]
           c == AgentTotal(w, "codex") + AgentTotal(w, "claude")
           e == [p \in AllProjects |-> IF p = "unattributed" THEN c ELSE 0]
           v == [p \in AllProjects |-> ProjectTokens(w, f, p)]
           g == [agent \in Agents |-> AgentTotal(w, agent)]
<1>1. w.from \in Nat /\ w.to \in Nat
  BY WindowTypes
<1>2. \A agent \in Agents : AgentTotal(w, agent) \in Nat
  <2>1. ASSUME NEW agent \in Agents PROVE AgentTotal(w, agent) \in Nat
    <3>1. Counted(AgentTokens(w, agent)) /\ Counted({}) /\ AgentTokens(w, agent) \cap {} = {}
      BY <1>1, AgentCounted, FS_EmptySet DEF Counted
    <3>2. Total(AgentTokens(w, agent)) \in Nat
      BY <3>1, TotalSplits
    <3> QED BY <3>2 DEF AgentTotal
  <2> QED BY <2>1
<1>3. Counted(O)
  BY <1>1, OpencodeCounted
<1>4. key \in [O -> AllProjects]
  <2>1. \A s \in DOMAIN f : f[s] \in AllProjects
    BY DEF Attributions
  <2> QED BY <2>1, ProjectTypes DEF Attributed
<1>5. \A p \in AllProjects : Share(O, key, p) = {d \in O : Attributed(f, d.by) = p}
  BY DEF Share
<1> HIDE DEF key
<1>6. a \in [AllProjects -> Nat] /\ Mass(a) = Total(O)
  <2> HIDE DEF O
  <2> QED BY <1>3, <1>4, ProjectTypes, ShareOut
<1>7. c \in Nat
  BY <1>2 DEF Agents
<1> HIDE DEF c
<1>8. e \in [AllProjects -> Nat] /\ Mass(e) = c
  BY <1>7, ProjectTypes, MassPoint
<1>9. v = [p \in AllProjects |-> a[p] + e[p]]
  <2>1. \A p \in AllProjects : ProjectTokens(w, f, p) = a[p] + e[p]
    BY <1>5 DEF ProjectTokens, c
  <2> HIDE DEF a, e
  <2> QED BY <2>1
<1> HIDE DEF O, a, e
<1>10. Mass(v) = Total(O) + c
  <2> HIDE DEF v
  <2>1. Mass([p \in AllProjects |-> a[p] + e[p]]) = Mass(a) + Mass(e)
    BY <1>6, <1>8, ProjectTypes, MassSum
  <2> QED BY <1>6, <1>8, <1>9, <2>1
<1>11. v \in [AllProjects -> Nat]
  <2> HIDE DEF v
  <2> QED BY <1>6, <1>8, <1>9
<1>12. Adds(v, AllProjects) = Mass(v)
  <2> HIDE DEF v
  <2> QED BY <1>11, ProjectTypes, AddsIsMass
<1>13. /\ g["opencode"] = Total(O) /\ g["codex"] + g["claude"] = c
       /\ g["codex"] \in Nat /\ g["claude"] \in Nat /\ Total(O) \in Nat
       /\ g \in [Agents -> Nat]
  BY <1>2 DEF Agents, c, O, AgentTotal, AgentTokens
<1> HIDE DEF g
<1>14. Mass(g) = g["opencode"] + g["codex"] + g["claude"]
  BY <1>13, MassOfAgents
<1>15. Adds(g, Agents) = Mass(g)
  <2>1. IsFiniteSet(Agents)
    <3>1. IsFiniteSet({"opencode"}) /\ IsFiniteSet({"opencode"} \cup {"codex"})
          /\ IsFiniteSet(({"opencode"} \cup {"codex"}) \cup {"claude"})
      BY FS_Singleton, FS_AddElement
    <3>2. Agents = ({"opencode"} \cup {"codex"}) \cup {"claude"}
      BY DEF Agents
    <3> QED BY <3>1, <3>2
  <2> QED BY <1>13, <2>1, AddsIsMass
<1>16. SumOverProjects(LAMBDA p : ProjectTokens(w, f, p)) = Adds(v, AllProjects)
  BY TokensByProject
<1>17. MapThenSumSet(LAMBDA agent : AgentTotal(w, agent), Agents) = Adds(g, Agents)
  BY TokensByAgent DEF g
<1>18. Adds(v, AllProjects) = Adds(g, Agents)
  <2> HIDE DEF v
  <2> QED BY <1>7, <1>10, <1>12, <1>13, <1>14, <1>15
<1> HIDE DEF v
<1> QED BY <1>16, <1>17, <1>18, Zenon

LEMMA CostSharesOut ==
    ASSUME HistoryInv, NEW w \in Windows, NEW f \in Attributions(w)
    PROVE  SumOverProjects(LAMBDA p : ProjectCost(w, f, p)) = OpencodeCost(w)
<1> DEFINE key == [s \in Sessions |-> Attributed(f, s)]
           v == Costs(w)
           part1(p) == [s \in Sessions |-> IF key[s] = p THEN v[s] ELSE 0]
           c == [p \in AllProjects |-> ProjectCost(w, f, p)]
<1>1. v \in [Sessions -> Nat]
  BY WindowDeltaTypes DEF Costs, HistoryInv
<1>2. key \in [Sessions -> AllProjects]
  <2>1. \A s \in DOMAIN f : f[s] \in AllProjects
    BY DEF Attributions
  <2> QED BY <2>1, ProjectTypes DEF Attributed
<1>3. \A p \in AllProjects : part1(p) = CostsIn(w, f, p)
  BY DEF CostsIn, Costs
<1> HIDE DEF key, v
<1>4. IsFiniteSet(Sessions)
  BY CountersAssumption
<1>5. \A p \in AllProjects : part1(p) \in [Sessions -> Nat]
  BY <1>1
<1>6. /\ \A p \in AllProjects : Mass(part1(p)) \in Nat
      /\ Mass([p \in AllProjects |-> Mass(part1(p))]) = Mass(v)
  BY <1>1, <1>2, <1>4, ProjectTypes, MassShares
<1> HIDE DEF part1
<1>7. \A p \in AllProjects : ProjectCost(w, f, p) = Mass(part1(p))
  <2>1. ASSUME NEW p \in AllProjects PROVE ProjectCost(w, f, p) = Mass(part1(p))
    <3> DEFINE g == part1(p)
    <3>1. g \in [Sessions -> Nat] /\ g = CostsIn(w, f, p)
      BY <1>3, <1>5
    <3> HIDE DEF g
    <3>2. Adds(g, Sessions) = Mass(g)
      BY <1>4, <3>1, AddsIsMass
    <3> QED BY <3>1, <3>2, CostOfProject DEF g
  <2> QED BY <2>1
<1>8. c = [p \in AllProjects |-> Mass(part1(p))]
  BY <1>7
<1>9. c \in [AllProjects -> Nat] /\ Mass(c) = Mass(v)
  BY <1>6, <1>8
<1>10. SumOverProjects(LAMBDA p : ProjectCost(w, f, p)) = Adds(c, AllProjects)
  BY CostByProject
<1>11. OpencodeCost(w) = Adds(v, Sessions)
  BY CostIs DEF v
<1> HIDE DEF c
<1>12. Adds(c, AllProjects) = Mass(c) /\ Adds(v, Sessions) = Mass(v)
  BY <1>1, <1>4, <1>9, ProjectTypes, AddsIsMass
<1> QED BY <1>9, <1>10, <1>11, <1>12, Zenon

LEMMA ProjectsHold == HistoryInv => ProjectsShareOut
BY TokensShareOut, CostSharesOut DEF ProjectsShareOut

\* The rollup costs a session at most its last running total in the window.
LEMMA SessionCostsHold == HistoryInv => SessionCostsCoverAgent
<1> SUFFICES ASSUME HistoryInv, NEW w \in Windows
             PROVE  OpencodeCost(w) <= SumOverSessions(LAMBDA s : SessionCost(w, s))
  BY DEF SessionCostsCoverAgent
<1>1. CounterInv
  BY DEF HistoryInv
<1> DEFINE u == Costs(w)
           v == CostsShown(w)
<1>2. ASSUME NEW s \in Sessions
      PROVE  /\ WindowDelta(w, s, SessionKind) \in Nat /\ SessionCost(w, s) \in Nat
             /\ WindowDelta(w, s, SessionKind) <= SessionCost(w, s)
  <2> DEFINE R == RowsIn(w, s, SessionKind)
  <2>1. /\ WindowDelta(w, s, SessionKind) \in Nat
        /\ R = {} => WindowDelta(w, s, SessionKind) = 0
        /\ R # {} => LastValue(R) \in Nat /\ WindowDelta(w, s, SessionKind) <= LastValue(R)
    BY <1>1, WindowDeltaTypes
  <2>2. SessionCost(w, s) = IF R = {} THEN 0 ELSE LastValue(R)
    BY DEF SessionCost
  <2> HIDE DEF R
  <2> QED BY <2>1, <2>2
<1>3. u \in [Sessions -> Nat] /\ v \in [Sessions -> Nat] /\ \A s \in Sessions : u[s] <= v[s]
  BY <1>2 DEF Costs, CostsShown
<1>4. OpencodeCost(w) = Adds(u, Sessions)
  BY CostIs
<1>5. SumOverSessions(LAMBDA s : SessionCost(w, s)) = Adds(v, Sessions)
  BY CostShown
<1>6. IsFiniteSet(Sessions)
  BY CountersAssumption
<1> HIDE DEF u, v
<1>7. Adds(u, Sessions) = Mass(u) /\ Adds(v, Sessions) = Mass(v) /\ Mass(u) <= Mass(v)
  BY <1>3, <1>6, AddsIsMass, MassMonotone
<1>8. Adds(u, Sessions) <= Adds(v, Sessions)
  BY <1>7
<1> QED BY <1>4, <1>5, <1>8, Zenon


\* A family of subsets of a finite set counts at least the members of its union, and more
\* only if two of its sets meet.
LEMMA FamilyCounts ==
    ASSUME NEW W, IsFiniteSet(W), NEW Z, IsFiniteSet(Z), NEW F \in [W -> SUBSET Z]
    PROVE  /\ [p \in W |-> Cardinality(F[p])] \in [W -> Nat]
           /\ Mass([p \in W |-> Cardinality(F[p])]) >= Cardinality(UNION {F[p] : p \in W})
           /\ Mass([p \in W |-> Cardinality(F[p])]) > Cardinality(UNION {F[p] : p \in W}) =>
                  \E p, q \in W : p # q /\ F[p] \cap F[q] # {}
<1> DEFINE v == [p \in W |-> Cardinality(F[p])]
           on(Y) == [p \in Y |-> v[p]]
           all(Y) == UNION {F[p] : p \in Y}
           Meet(Y) == \E p, q \in Y : p # q /\ F[p] \cap F[q] # {}
           Good == {Y \in SUBSET W : /\ Mass(on(Y)) >= Cardinality(all(Y))
                                     /\ Mass(on(Y)) > Cardinality(all(Y)) => Meet(Y)}
<1>1. \A E : E \in SUBSET Z => IsFiniteSet(E) /\ Cardinality(E) \in Nat
  BY FS_Subset, FS_CardinalityType
<1>2. v \in [W -> Nat]
  BY <1>1
<1>3. \A Y \in SUBSET W : all(Y) \in SUBSET Z
  OBVIOUS
<1>4. {} \in Good
  <2>1. DOMAIN on({}) = {} /\ all({}) = {}
    OBVIOUS
  <2>2. Mass(on({})) = 0
    <3> HIDE DEF on
    <3> QED BY <2>1, MassNone
  <2>3. Cardinality(all({})) = 0
    BY <2>1, FS_EmptySet
  <2> HIDE DEF on, all
  <2> QED BY <2>2, <2>3
<1>5. ASSUME NEW Y \in SUBSET W, NEW x \in W \ Y, Y \in Good PROVE Y \cup {x} \in Good
  <2> DEFINE R == Y \cup {x}
             gr == on(R)
             B1 == all(Y)
             C1 == F[x]
  <2>1. IsFiniteSet(R) /\ x \in R /\ R \ {x} = Y /\ R \in SUBSET W
    BY <1>5, FS_Subset
  <2>2. gr \in [R -> Nat] /\ gr[x] = Cardinality(C1) /\ [p \in Y |-> gr[p]] = on(Y)
    <3> HIDE DEF C1
    <3>1. v[x] = Cardinality(C1)
      BY DEF C1
    <3> HIDE DEF v
    <3> QED BY <1>2, <2>1, <3>1
  <2>3. Mass(gr) = Mass(on(Y)) + Cardinality(C1)
    <3> HIDE DEF gr, R, on, C1
    <3>1. Mass(gr) = Mass([p \in R \ {x} |-> gr[p]]) + gr[x]
      BY <2>1, <2>2, MassAdds
    <3> QED BY <2>1, <2>2, <3>1
  <2>4. all(R) = B1 \cup C1
    OBVIOUS
  <2>5. B1 \in SUBSET Z /\ C1 \in SUBSET Z /\ B1 \cap C1 \in SUBSET Z
    BY <1>3
  <2>6. (Meet(Y) => Meet(R)) /\ (B1 \cap C1 # {} => Meet(R))
    BY <1>5
  <2>7. /\ Mass(on(Y)) >= Cardinality(B1) /\ (Mass(on(Y)) > Cardinality(B1) => Meet(Y))
    BY <1>5
  <2>8. Mass(on(Y)) \in Nat
    <3>1. IsFiniteSet(Y) /\ on(Y) \in [Y -> Nat]
      BY <1>2, FS_Subset
    <3> HIDE DEF on
    <3> QED BY <3>1, MassType
  <2> HIDE DEF B1, C1, Meet, on, all, gr
  <2>9. Cardinality(all(R)) = Cardinality(B1) + Cardinality(C1) - Cardinality(B1 \cap C1)
    BY <1>1, <2>4, <2>5, FS_Union
  <2>10. /\ Cardinality(B1) \in Nat /\ Cardinality(C1) \in Nat /\ Cardinality(B1 \cap C1) \in Nat
         /\ Cardinality(B1 \cap C1) > 0 => B1 \cap C1 # {}
    BY <1>1, <2>5, FS_EmptySet
  <2>11. /\ Mass(gr) >= Cardinality(all(R))
         /\ Mass(gr) > Cardinality(all(R)) => Meet(R)
    BY <2>3, <2>6, <2>7, <2>8, <2>9, <2>10
  <2>12. /\ Mass(on(R)) >= Cardinality(all(R))
         /\ Mass(on(R)) > Cardinality(all(R)) => Meet(R)
    BY <2>11 DEF gr
  <2> HIDE DEF R
  <2> QED BY <2>1, <2>12 DEF R
<1>6. W \in Good
  <2> HIDE DEF Good
  <2> QED BY <1>4, <1>5, FiniteUpward
<1>7. on(W) = v
  OBVIOUS
<1> QED BY <1>2, <1>6, <1>7

\* A session counts in each project that a marker of the window names for it.
LEMMA SessionsHold == HistoryInv => SessionsListedOnce
<1> SUFFICES ASSUME HistoryInv, NEW w \in Windows
             PROVE  LET listed == SumOverProjects(LAMBDA p : Cardinality(ProjectSessions(w, p)))
                    IN  /\ listed >= Cardinality(OpencodeSessions(w))
                        /\ listed > Cardinality(OpencodeSessions(w)) =>
                               \E m, n \in MarkersIn(w) : m.session = n.session /\ m.project # n.project
  BY DEF SessionsListedOnce
<1> DEFINE F == [p \in AllProjects |-> ProjectSessions(w, p)]
           v == [p \in AllProjects |-> Cardinality(ProjectSessions(w, p))]
           c == [p \in AllProjects |-> Cardinality(F[p])]
           Twice == \E m, n \in MarkersIn(w) : m.session = n.session /\ m.project # n.project
           listed == SumOverProjects(LAMBDA p : Cardinality(ProjectSessions(w, p)))
<1>1. \A m \in MarkersIn(w) : m.session \in Sessions /\ ProjectOf(m) \in AllProjects
  BY DEF HistoryInv, CounterInv, TypeOK, Marker, MarkersIn, ProjectOf, AllProjects
<1>2. F \in [AllProjects -> SUBSET Sessions] /\ IsFiniteSet(Sessions)
  BY <1>1, CountersAssumption DEF ProjectSessions
<1>3. UNION {F[p] : p \in AllProjects} = OpencodeSessions(w)
  <2>1. ASSUME NEW s \in OpencodeSessions(w) PROVE \E p \in AllProjects : s \in F[p]
    <3>1. PICK m \in MarkersIn(w) : s = m.session /\ s \notin Subagents
      BY DEF OpencodeSessions
    <3>2. s \in ProjectSessions(w, ProjectOf(m))
      BY <3>1 DEF ProjectSessions
    <3> QED BY <1>1, <3>2
  <2>2. ASSUME NEW p \in AllProjects, NEW s \in F[p] PROVE s \in OpencodeSessions(w)
    BY <2>2 DEF ProjectSessions, OpencodeSessions
  <2> HIDE DEF F
  <2> QED BY <2>1, <2>2
<1>4. ASSUME NEW p \in AllProjects, NEW q \in AllProjects, p # q, F[p] \cap F[q] # {}
      PROVE  Twice
  <2>1. PICK s : s \in ProjectSessions(w, p) /\ s \in ProjectSessions(w, q)
    BY <1>4
  <2>2. PICK m \in MarkersIn(w) : s = m.session /\ ProjectOf(m) = p
    BY <2>1 DEF ProjectSessions
  <2>3. PICK n \in MarkersIn(w) : s = n.session /\ ProjectOf(n) = q
    BY <2>1 DEF ProjectSessions
  <2>4. m.project # n.project
    BY <1>4, <2>2, <2>3 DEF ProjectOf
  <2> QED BY <2>2, <2>3, <2>4
<1>5. c = v
  OBVIOUS
<1>6. listed = Adds(v, AllProjects)
  BY SessionsByProject
<1> HIDE DEF F, v, Twice
<1>7. /\ c \in [AllProjects -> Nat]
      /\ Mass(c) >= Cardinality(UNION {F[p] : p \in AllProjects})
      /\ Mass(c) > Cardinality(UNION {F[p] : p \in AllProjects}) =>
             \E p, q \in AllProjects : p # q /\ F[p] \cap F[q] # {}
  BY <1>2, ProjectTypes, FamilyCounts
<1> HIDE DEF c
<1>8. Adds(v, AllProjects) = Mass(c)
  BY <1>5, <1>7, ProjectTypes, AddsIsMass
<1>9. /\ Adds(v, AllProjects) >= Cardinality(OpencodeSessions(w))
      /\ Adds(v, AllProjects) > Cardinality(OpencodeSessions(w)) => Twice
  BY <1>3, <1>4, <1>7, <1>8
<1> HIDE DEF listed
<1>10. listed >= Cardinality(OpencodeSessions(w)) /\ (listed > Cardinality(OpencodeSessions(w)) => Twice)
  BY <1>6, <1>9
<1> QED BY <1>10 DEF listed, Twice

\* The rows of cache economics are those of the rollup, but for the turns of codex that
\* name no model and those of Claude, which it reads from the spans.
LEMMA EconomicsHold == HistoryInv => EconomicsMatchRollup
<1> SUFFICES ASSUME HistoryInv, NEW w \in Windows
             PROVE  LET series    == EconomicsSeries(w)
                        unlabeled == {t \in TurnTokens(w, "codex") : ~t.labelled}
                        input1(W) == Total({d \in W : d.kind = "input"})
                    IN  /\ input1(EconomicsRows(w)) + input1(unlabeled)
                             = input1(AgentTokens(w, "opencode")) + input1(AgentTokens(w, "codex"))
                                 + Total(TurnsIn(w, "request"))
                        /\ MapThenSumSet(LAMBDA b : series[b], BucketStarts) = Total(EconomicsRows(w))
  BY DEF EconomicsMatchRollup
<1> DEFINE series == EconomicsSeries(w)
           rows == EconomicsRows(w)
           OI == {d \in OpencodeDeltas(w) : d.kind = "input"}
           CI == {t \in turns : t.by = "codex" /\ In(w, t.ts) /\ t.kind = "input"}
           CL == {t \in CI : t.labelled}
           CU == {t \in CI : ~t.labelled}
           RI == TurnsIn(w, "request")
<1>1. w.from \in Nat /\ w.to \in Nat
  BY WindowTypes
<1>2. /\ Counted(OpencodeDeltas(w))
      /\ \A d \in OpencodeDeltas(w) : d.ts \in Times /\ d.by # "codex" /\ d.by # "request"
  <2>1. /\ Counted(OpencodeDeltas(w))
        /\ \A d \in OpencodeDeltas(w) : d.ts \in Times /\ d.by \in Sessions
    BY <1>1, OpencodeCounted
  <2> QED BY <2>1, CountersAssumption DEF Agents
<1>3. \A t \in turns : /\ t.by = "codex" => t.kind \in {"input", "total"}
                       /\ t.by = "request" => t.kind = "input"
  BY DEF HistoryInv
<1>4. \A W : W \in SUBSET turns => Counted(W) /\ \A t \in W : t.ts \in Times
  BY TurnsCounted
<1>5. Counted(rows) /\ \A d \in rows : d.ts \in Times
  <2> DEFINE A1 == {d \in OpencodeDeltas(w) : d.kind \in CacheKinds}
             B1 == {t \in TurnsIn(w, "codex") : t.labelled /\ t.kind \in CacheKinds}
                     \cup {t \in TurnsIn(w, "request") : t.kind \in CacheKinds}
  <2>1. A1 \in SUBSET OpencodeDeltas(w)
    OBVIOUS
  <2>2. Counted(A1) /\ \A d \in A1 : d.ts \in Times
    <3> HIDE DEF A1
    <3> QED BY <1>2, <2>1, FS_Subset DEF Counted
  <2>3. B1 \in SUBSET turns
    BY DEF TurnsIn
  <2>4. Counted(B1) /\ \A d \in B1 : d.ts \in Times
    <3> HIDE DEF B1
    <3> QED BY <1>4, <2>3
  <2>5. rows = A1 \cup B1
    BY DEF EconomicsRows
  <2> HIDE DEF A1, B1
  <2>6. Counted(A1 \cup B1)
    BY <2>2, <2>4, FS_Union DEF Counted
  <2> QED BY <2>2, <2>4, <2>5, <2>6
<1>6. Counted(OI) /\ Counted(CL) /\ Counted(CU) /\ Counted(RI) /\ Counted(CL \cup RI)
  <2>1. OI \in SUBSET OpencodeDeltas(w)
    OBVIOUS
  <2>2. Counted(OI)
    <3> HIDE DEF OI
    <3> QED BY <1>2, <2>1, FS_Subset DEF Counted
  <2>3. CL \in SUBSET turns /\ CU \in SUBSET turns /\ RI \in SUBSET turns /\ CL \cup RI \in SUBSET turns
    BY DEF TurnsIn
  <2> HIDE DEF CL, CU, RI
  <2> QED BY <1>4, <2>2, <2>3
<1>7. OI \cap (CL \cup RI) = {} /\ CL \cap RI = {} /\ CL \cap CU = {}
  BY <1>2 DEF TurnsIn
<1>8. {d \in rows : d.kind = "input"} = OI \cup (CL \cup RI)
  BY <1>3 DEF EconomicsRows, TurnsIn, CacheKinds
<1>9. {d \in {t \in TurnTokens(w, "codex") : ~t.labelled} : d.kind = "input"} = CU
  BY DEF TurnTokens, TurnsIn, TokenKinds, CacheKinds
<1>10. {d \in AgentTokens(w, "opencode") : d.kind = "input"} = OI
  BY DEF AgentTokens
<1>11. {d \in AgentTokens(w, "codex") : d.kind = "input"} = CL \cup CU
  BY DEF AgentTokens, TurnTokens, TurnsIn, TokenKinds, CacheKinds
<1> HIDE DEF OI, CL, CU, RI
<1>12. /\ Total(OI \cup (CL \cup RI)) = Total(OI) + Total(CL \cup RI)
       /\ Total(OI) \in Nat /\ Total(CL \cup RI) \in Nat
  BY <1>6, <1>7, TotalSplits
<1>13. Total(CL \cup RI) = Total(CL) + Total(RI) /\ Total(CL) \in Nat /\ Total(RI) \in Nat
  BY <1>6, <1>7, TotalSplits
<1>14. Total(CL \cup CU) = Total(CL) + Total(CU) /\ Total(CU) \in Nat
  BY <1>6, <1>7, TotalSplits
<1>15. Total(OI \cup (CL \cup RI)) + Total(CU) = Total(OI) + Total(CL \cup CU) + Total(RI)
  BY <1>12, <1>13, <1>14
<1>16. Total({d \in rows : d.kind = "input"})
         + Total({d \in {t \in TurnTokens(w, "codex") : ~t.labelled} : d.kind = "input"})
         = Total({d \in AgentTokens(w, "opencode") : d.kind = "input"})
             + Total({d \in AgentTokens(w, "codex") : d.kind = "input"})
             + Total(TurnsIn(w, "request"))
  BY <1>8, <1>9, <1>10, <1>11, <1>15 DEF RI
<1>17. series = [b \in BucketStarts |-> Total({d \in rows : Bucket(d.ts) = b})]
  BY DEF EconomicsSeries
<1> HIDE DEF series
<1>18. Adds(series, BucketStarts) = Total(rows)
  <2> HIDE DEF rows
  <2> QED BY <1>5, <1>17, SeriesSums
<1>19. MapThenSumSet(LAMBDA b : series[b], BucketStarts) = Adds(series, BucketStarts)
  BY DEF MapThenSumSet, MapThenFoldSet, One, Adds
<1>20. MapThenSumSet(LAMBDA b : series[b], BucketStarts) = Total(rows)
  BY <1>18, <1>19
<1> QED BY <1>16, <1>20 DEF series


-----------------------------------------------------------------------------
\* In every reachable state, whatever was lost, late, restarted or deleted: the buckets of
\* the agent rollup sum to its totals, a turn of codex counts once, the projects share out
\* the tokens and the cost of the agents and list each session once unless its markers
\* name two projects, opencode costs at most what the session list shows, and cache
\* economics agrees with the rollup.
THEOREM RollupsAlways ==
    Spec => [](/\ BucketsAgree /\ TurnsCountOnce /\ ProjectsShareOut /\ SessionsListedOnce
               /\ SessionCostsCoverAgent /\ EconomicsMatchRollup)
<1>1. HistoryInv =>
        /\ BucketsAgree /\ TurnsCountOnce /\ ProjectsShareOut /\ SessionsListedOnce
        /\ SessionCostsCoverAgent /\ EconomicsMatchRollup
  BY BucketsHold, TurnsHold, ProjectsHold, SessionsHold, SessionCostsHold, EconomicsHold
<1> QED BY <1>1, HistoryInvInit, HistoryInvStep, PTL DEF Spec

\* The rollups agree in every reachable state of the run: a step of another part leaves
\* the history alone.
THEOREM RollupsAgreeAlways == AnalyticsSpec => []RollupsAgree
<1>1. AnalyticsInit => HistoryInv
  BY HistoryInvInit DEF AnalyticsInit
<1>2. HistoryInv /\ [AnalyticsNext]_AnalyticsVars => HistoryInv'
  <2>1. [AnalyticsNext]_AnalyticsVars => [Next]_vars
    BY DEF AnalyticsNext, AnalyticsVars
  <2> QED BY <2>1, HistoryInvStep
<1>3. HistoryInv => RollupsAgree
  <2>1. HistoryInv => TypeOK
    BY DEF HistoryInv, CounterInv
  <2> QED BY <2>1, BucketsHold, TurnsHold, ProjectsHold, SessionsHold, SessionCostsHold, EconomicsHold
          DEF RollupsAgree
<1> QED BY <1>1, <1>2, <1>3, PTL DEF AnalyticsSpec
=============================================================================
